# A verification project for ThundeRiNG

ThundeRiNG generates many random sequences at once on an FPGA. One linear
congruential generator produces a shared *root* sequence; every instance turns
each root state into a number of its own (a *leaf* transition, a permutation,
and an xorshift *decorrelator*) and XORs it into a packet that travels along
all instances to the application. Everything is a network of free-running
kernels that talk through bounded streams, so what is hard is interleaving,
back-pressure, the pairing of streams that run at different speeds, and the
bookkeeping (seeds, strides, ids) that keeps massively parallel parts one
sequence. That is what these modules state and check.

## 1. The system

| part | source | state | operations |
|---|---|---|---|
| root state generation unit | `fpga/rng/src/rsgu` | `state` of nine updaters, nine links, the merge buffer | an updater writes its state and seeks by nine steps; the merge reads nine links in order and writes nine elements |
| stream helpers | `fpga/rng/src/stream_operation.h` | the element in hand | blocking read and write; copy loops at the borders of a unit; endless source and sink |
| output unit (sou) | `fpga/rng/src/sou`, `automation/template` | per instance: `sg_state`, packet; per leaf generator: root state; inner streams of depth 2 | leaf generator: read, forward, hand the leaf number over; instance: jump, read packet, poll the leaf stream, write |
| blocking output unit (soum) | `fpga/rng/src/soum` | per instance: root state, packet, `sg_state` | read root, forward, read packet, combine, write. Not built (`fpga/rng/Makefile`, line 145) |
| stream ends | `fpga/rng/src/rng/rng_start.cpp`, `rng_end.cpp` | none | zero packets in, root states out |
| application shell | `fpga/rng/src/host.cpp`, `top`, `rng/rng_main.cpp` | host buffers, two tasks, loop counters, three links | launch, finish, read back, compare; stream in, add a number, stream out |
| linkage | `krnl_incr.cfg`, `automation/template/gen_link.c` | the topology | prints the links of `CUs` units |
| code generator | `automation/parser*.cpp` | registered pragmas | scans inputs for pragmas, writes one output per unit |
| jump-ahead program | `test/lcg_jumpahead` | loop variables | computes the constants of a seek |
| pi estimation | `misc/estpi` | per stage: numbers, a packet, counters | generator and hit counting in one chain of stages; the last one sums up |
| reservoir sampling | `misc/data_flow.cpp` | per loop an iteration; per stage the edges it keeps | samples triangles in a stream of edges |
| single-kernel generator | `misc/ssrng` | as the root unit | an older form: updaters, merge and one kernel that makes numbers |
| software sequences | `test/rngs`, `test/rng_test.cpp` | one counter and one root state for all sequences, a leaf and an xorshift state for each | prepare the sequences by a matrix power, draw from them in turn, for TestU01 and friends |
| throughput program | `test/sharing_throughput` | – | measures time |
| samples | `gpu`, `cpu`, `common`, `emulation`, `cmake` | – | vendored, comparison only |

Interaction: updaters → merge → leaf generators of unit 1 … unit n →
`rng_end`; `rng_start` → instances of unit n … unit 1 → `rng_main`; each leaf
generator → one instance; `mem_read` → `rng_main` → `mem_write`, the two memory
kernels being launched by the host. All of these are streams; the only shared
memory is the output buffer, written by `mem_write` and read back by the host.

What makes each part correct:

* root unit: the interleaved lanes are *the* sequential sequence, however far
  the updaters run ahead; nothing lost, nothing twice, across the wrap-around;
* borders: link, adapter and inner stream together are one FIFO;
* output unit: every leaf generator sees every root state in order; the
  decorrelators count packets, not hits; no number is used twice; the two
  halves of a number belong to the same packet and instance; no instance
  starves, nothing locks up;
* shell: every result is its input plus the next random number, a launch leaves
  nothing behind for the next one, the host returns;
* linkage: no port is connected twice, and the units are one chain for root
  states and the reverse chain for packets;
* jump-ahead: the logarithmic jump is the iterated step, forward and back, and
  what the program prints is what the lanes use;
* software sequences: although one function, one counter and one root state
  serve them all, each is one generator, on the root states the hardware
  delivers, its decorrelator where the jump should have put it;
* reservoir sampling: what a stage puts together in an iteration belongs to
  that iteration, the results are those of the input whatever the speeds of
  the loops, a stage counts only after a triangle, the loops never wait for
  each other in a circle, a launch leaves nothing in the static streams;
* pi estimation: a sample is two numbers in a row, no number is in two samples,
  a stage that finds no packet does so a bounded number of times, and the sum
  is short of all samples only by what that costs;
* code generator: every output is the source with each pragma replaced by the
  lines of its unit, and numbers handed out are distinct.

The hazards behind these, each with its line, are in `PROJECT.json`.

## 2. Modules

| module | models | built on |
|---|---|---|
| `Streams` | guards of a blocking read and write | – |
| `BoundedFifo` | abstract: what one `hls::stream` promises | – |
| `StreamAdapter` | the copy loops of `stream_operation.h`; implements `BoundedFifo` | `Streams` |
| `SequentialRoot` | abstract: one sequential generator writing to a stream | `Streams` |
| `RootGenerator` | updaters and merge; implements `SequentialRoot` | `Streams` |
| `Words64`, `Lcg64` | 64-bit arithmetic; the real constants of `init_state.h`, `multi_stream` | – |
| `JumpAhead` | `pcg_advance_lcg_64`, `calculate_acc_value`, the seeding and the printed constants | `Lcg64` |
| `Xorshift128` | the 128-bit decorrelator of the tests and its transition matrix | – |
| `SoftwareSequences` | the software sequences of the tests, beside the lanes of the hardware | `JumpAhead`, `Xorshift128` |
| `Linkage` | the connections that `gen_link.c` writes, and the order of the units along them | – |
| `OutputChain` | the output units, any number of them, in the order of `Linkage` | `Streams`, `Linkage` |
| `BlockingChain` | the blocking unit | `Streams` |
| `HostShell` | host, `mem_read`, `rng_main`, `mem_write` | `Streams` |
| `EstPi` | the pi estimation: instances, application stages, `mem_write` | `Streams` |
| `Reservoir` | the dataflow region of `data_flow.cpp`, all of its loops | `Streams` |
| `CodeGenerator` | both passes of the code generator, its four parsers, against an abstract expansion | – |
| `MC…` | constants for TLC only | the module of that name |
| `StreamFacts` | lemmas on reading and writing sequences, counters that wrap around, least elements, small sets, sums over sets, and induction | – |
| `…_proofs` (root generator, `Lcg64`, the two chains, application shell, pi estimation, reservoir) | theorems; those of `Linkage` are in `OutputChain_proofs`, those of `StreamAdapter` in `BlockingChain_proofs`, those of `CodeGenerator` in `HostShell_proofs` | the module of that name, `StreamFacts` |

Correspondence. A kernel or dataflow process is a group of actions, one per
blocking stream access, with a variable for where it stands (`pos`, `lpc`,
`ipc`, `pc`, `mpc`) wherever it can be stopped half way; what happens between
two accesses happens within one action. A stream is a sequence with a capacity,
an action that reads has `CanRead` as its guard, one that writes `CanWrite`;
`read_nb` is a test inside the action. Static variables are variables of the
same name. Local variables that the code leaves uninitialised start as `NoVal`
(or as the empty packet where only the write position can read them).

* `RootGenerator`: `Update(k)` is one round of updater `k` (its computation and
  its write), `MergeRead` and `MergeWrite` walk the two loops of the merge with
  `pos`. The arithmetic is behind the constants `Step` and `Seek`.
  `SeekAssumption` says what the design needs of them; TLC evaluates it for the
  constants of `MCRootGenerator`, and `Lcg64_proofs` proves the same facts of the
  real ones, for every 64-bit state.
* `OutputChain`: leaf generators are numbered along the root chain, instances
  along the packet chain, because the two run in opposite directions through
  the units. Numbers are symbolic. A packet is the *set* of terms XORed into
  it, so two equal terms cancel exactly as they do in the code. A term carries
  the id that selects its parameters and the root state, or the position of the
  decorrelator, it was computed from. A border stream stands for AXI link,
  adapter and inner stream: `StreamAdapter` shows that these are one FIFO.
* `BlockingChain`: the same vocabulary; four accesses per instance.
* `HostShell`: the host's program counter `hpc` goes round launch, finish,
  read-back and compare. A queued task starts whenever the out-of-order queue
  likes. `mem_read` does not set `v.last`, so `rng_main` may leave its loop
  after any element; being free-running it starts again at its first read, and
  since the loop keeps nothing both cases are the same step. `drawn` is a
  history variable.
* `Linkage`: ports and connections are records; `OutputChain` finds the unit
  that follows another by following them from the merge, and from `rng_start`.
* `JumpAhead`: the two loops are one recursive function over their rounds
  (`Round`), of which there are as many as the distance has bits up to the
  highest (`Rounds`), on the 64-bit words of the code, eight digits each.
* `SoftwareSequences`: a round of `mat_pow`, the preparation of one sequence
  and one drawn number are an action each (`PowerRound`, `Seed`, `Draw`). A
  matrix is a function from bits to sets of bits, a state of the xorshift
  generator four sets of bits. A number is the pair of what the code XORs: the
  leaf state before its output function, and the xorshift word. Every round of
  draws takes one root state from the lanes of `Lcg64`.
* `Reservoir`: every loop has an iteration counter, `i[loop]`, or `n[k]` for
  stage `k`. A stage makes eight stream accesses in an iteration, `at[k]` is
  the next of them, `ReadAt` and `WriteAt` say which access is on which
  stream; what it computes happens with the last access, the write of the sum.
  A root state is its position. The numbers made of it are functions of the
  input, `r` (for the decision on the first edge) and `r2` (for the second).
* `EstPi`: an instance reads a root state, hands it on and makes a number of it
  (`ReadRoot`, `ForwardRoot`, `EmitNumber`); its stage reads two numbers, polls
  for a packet (`PollHit`, `PollMiss`) and writes one (`WritePacket`). `s[0]`
  stands for stream, pad process and stream, and so does `o[N]`. A root state
  is its position in the root sequence, a number the position it was made
  from, and whether a sample is a hit is the constant `Hit`. `misses`,
  `written` and the sample count of a packet are history variables.
* `Lcg64`: a word is eight digits, the most significant first, as TLC's integers
  have 32 bits; `Words64` adds and multiplies them with carries. `Write` is one
  round of an updater and of the merge at its lane, without streams.
* `CodeGenerator`: a line is a pragma of some kind or any other text; the two
  passes, what the parsers register in the first and what each of the
  output functions writes in the second are actions on lines. `Image`
  defines, without passes or counters, what the output should be.

Each module also holds a few definitions introduced as "a slip": variants of
an operation with a plausible mistake. They are not part of any
specification; they are used to see that a property notices the mistake
(`mutants` in `PROJECT.json`).

## 3. Runs

| run | bounds | shows |
|---|---|---|
| `stream_adapter` | 3 values, depths 2 and 2 | the adapter refines a FIFO of capacity 5, including that what goes in comes out |
| `root_generator` | 3 lanes, depth 2, output 2, arithmetic mod 16 | type invariant, `LeapfrogInv` (inductive), no state in two places, refinement of `SequentialRoot`, every state of the period delivered again and again |
| `lcg64` | 64-bit words, 100 root states, six ids; 2 software sequences, seeds 21 steps apart a jump | real constants: `LanesConsecutive` (lanes one step apart, seek = nine steps), `JumpIsSteps`, `SequencesExact`, `LeavesAreGenerators` (distinct odd increments) |
| `output_chain` | 1 unit of 2 instances, depths 1, 5 root states, decorrelators of period 4, symmetric in rotations of the root cycle | type invariant, `EveryRootSeen`, `DecorrelatorsInStep`, `NoNumberTwice` |
| `output_chain_units` | 2 units of 1 instance | `WholeNumbers`; liveness: `EveryInstanceContributes`, `RootsReachEnd` |
| `blocking_chain` | 3 instances, depths 1 | `LockStep`, `NumbersKeepComing` |
| `host_shell` | 2 launches of 4 elements, depth 1, numbers {0, 3} mod 4 | `ResultsExact`, `QuietBetweenLaunches`, `HostReturns` |
| `est_pi` | 2 stages, depths 1 but 2 for the root stream with its pad process, 2 packets summed, words of size 2, two of three samples hit | type invariant, `SamplesInOrder`, `Balance` and `MissesLimited` (together inductive), `ResultNearlyComplete`, `ResultComes` |
| `reservoir` | 2 stages, all depths 1, 4 edges, words of size 8, two inputs | type invariant, `InStep` (inductive with the counters' bounds), `StagesExact`, `ResultExact`, `NeverStuck`; TLC's deadlock check stays on |
| `code_generator` | 2 output units; first files of three blocks out of thirteen, some of them markers that the next pragma follows at once (with and without a pragma on the last line), alone or with one of four second files | type invariant, `OutputIsExpansion` (also of an output cut short by `exit`, and of one with a memory argument whose attribute is missing), `InstancesLast`, `NumbersDistinct` |
| `output_chain_stall`, `host_shell_test` | as above | the two findings below |

Why these bounds are enough to be interesting. Lanes, instances and units are
chosen so that there is a first, a last and, where order along a chain matters,
a middle one or a border between two. Depths 1 and 2 make every stream both
full and empty in reachable states, with every process blocked on each of its
accesses; a launch (4) is longer than what the three links and `rng_main` can
hold, so the tasks of a launch must overlap. The root cycle and the period of
the decorrelators are longer than what the chain can hold, where a property
compares positions (`EveryRootSeen`, `NoNumberTwice`, `DecorrelatorsInStep`).
The liveness run of the output chain has one root state and period 1, because
its properties do not look at values; data is modular instead of bounded
everywhere except in `lcg64`, so no state constraint cuts a behaviour short.
`LeapfrogInv` needs no such argument: it is proved for all sizes.

In the first files of `code_generator`, a pragma that takes the next line as its
object has an ordinary line there: what a pragma in the place of an object
should become is nowhere said. No second file has a pragma that writes
anything; the repository passes one file.

Symmetry is used in `output_chain` only, whose properties are all invariants
and compare root states only through `RootStep`, which rotations preserve.

Fairness is weak fairness per process: a free-running kernel (`ap_ctrl_none`)
takes its next step when the stream access it waits for stays possible, and a
stream access that has become possible stays so, as each stream has one reader
and one writer. `read_nb` needs no fairness of its own: it is part of an action
that is enabled by the packet. `Draw` is fair as long as the application keeps
drawing; `HostShell` takes the fairness of the XRT queue from `q.finish()`
returning in practice at all. Strong fairness is used nowhere.

In `EstPi` the same holds of the streams; `PollHit` and `PollMiss` share the
fairness of their stage, which never waits for a packet. `Launch`, `Sum` and
`Return` are those of a queue that starts what was enqueued.

Two bounds are not those of the code. The seeds of two software sequences are
three jumps of 2^32 steps apart there; the run checks the same matrix power at
21, whose binary digits are mixed and which it can compare with single steps.
`Reservoir` has three streams of each kind where the code has two, because a
chain of two stages is the shortest in which a stage has a neighbour. Its two
inputs are chosen so that a stage starts, starts over, replaces its second
edge, and finds a triangle, and so that a decision of 0 (see below) occurs.

Three runs switch deadlock off: `lcg64` stops at its bound `Count`,
`code_generator` when the program returns, and `est_pi` when `mem_write` has
returned and nobody drains the packet chain any more, so that it fills up and
everything behind it stops. The adapter, the generators, the chains and the shell
never stop; the return of the host and that of the reservoir's region are
explicit steps (`Exited`, `Returned`), so that TLC reports any other stop.

## 4. Findings

* `output_chain_stall`: an instance that finds its leaf stream empty passes the
  packet on, so a packet can reach `rng_main` with no random number in it. The
  README of the kernels says they stall when data is not available. The rest of
  the checks shows what does hold regardless: the decorrelators stay in step,
  numbers are whole, and every instance contributes again and again.
* `host_shell_test`: the host compares with `i + 1`, the result of the kernel
  the shell was written for; `rng_main` adds a random number instead.

More observations, which need no run:

* The unit of `soum`, which is not built, gives all its instances the id 0
  (`soum/rng_instance_1.cpp`, line 70), so they compute the same number from a
  root state and pairs of them cancel; `BlockingChain` is built that way.
* A memory argument whose attribute was never registered is accepted, and its
  uninitialised line number compared with the lines of the first file
  (`automation/parser/mem_interface.cpp`, line 201): whatever it is, the output
  lacks at most those two lines and is otherwise right (`OutputIsExpansion`).
* The host of the pi estimation fetches the result of every unit to a place of
  its own and then prints that of unit 0 under every heading
  (`misc/estpi/host.cpp`, lines 162 to 165).
* In the reservoir sampling, 0 encodes both "no stage starts over" and stage 0
  (`misc/data_flow.cpp`, line 64): stage 0 starts over on nearly every edge.
  `Reservoir` says what follows from it exactly (`StartsOf`). Its host
  (`misc/host.cpp`) feeds edges from a node to itself, which close no triangle, and
  compares with numbers that the kernel does not put out.
* A stage takes three edges for a triangle when the third equals the line
  between the far ends of the first two (`misc/fpga_edge_match.h`). An edge from
  a node to itself has its far end at that node too, so together with two
  parallel edges at the node it is counted as a triangle. Those are the only
  triples that the code takes for triangles and that are none; the theorems on
  `Reservoir`'s results exclude them (`Plain`), and so does the input of `misc/host.cpp`.
* Software sequence 0 uses root states one behind the others, as it is the one
  that steps the root state, and the first number of every sequence is made of
  a leaf state that is still zero (`test/rngs/xorshift128.h`); `SequencesExact`
  says both.
* `misc/init_state.h` carries the constants of a design with six lanes, which
  nothing in its directory uses; those of `misc/ssrng` and `misc/estpi` are the
  same file as that of the hardware, so `Lcg64` is about them too.
* `test/sharing_throughput/throughput_test.cpp` goes up to 4096 sequences (line 355)
  on arrays of 1024 (line 177), and `test/rngs/xorshift32.h` spreads 4096 seeds (line
  33): with more sequences than that all get the same one.

## 5. Proofs

`RootGenerator_proofs` proves, for every number of lanes, all capacities and
every `Step`, `Seek` and `InitState` that satisfy the assumptions of
`RootGenerator` (`PeriodAssumption`, that the generator goes through all states and
takes longer for it than filling the unit, is needed for `StatesOnce` only; that
both hold for the constants of the code is proved in `Lcg64_proofs`):

* `TypeCorrect`: `Spec => []TypeOK`. Links never overflow, and the merge never
  uses an element of its buffer that it has not read.
* `LeapfrogCorrect`: `Spec => []LeapfrogInv`. That the output is a contiguous
  piece of the root sequence (`OutOrder`) is not inductive. It needs that the
  round in the merge is contiguous (`RoundOrder`), which needs that lanes that
  were already read for this round are exactly one seek ahead (`ReadAhead`),
  which needs that each link carries its lane's states a seek apart
  (`LaneOrder`). The end of a round is where `SeekAssumption` enters: one seek
  from the first element of a round is one step from its last. One lemma per
  action (`UpdateStep`, `MergeReadStep`, `MergeWriteStep`, `ConsumeStep`), and
  `UpdateLane` and `ReadLane` for what a step does to what comes next on a lane.
* `StatesOnce`: `Spec => []NothingTwice`. By `LeapfrogInv` everything in the unit has a
  number in the root sequence (`Located`: lane `k` holds every `Lanes`-th from the
  round in the merge on), the numbers of different lanes differ modulo `Lanes`, and
  all lie within one period (`NumbersClose`), so that different numbers are
  different states. `LanesCount` adds up how many there are. That a seek is `Lanes` steps
  from *every* state (`SeekAt`) is carried from the first seed by stepping.
* `ImplementsSequentialRoot`: with `next` mapped to the root state the merge
  writes next, the initial state is that of `SequentialRoot` and every step is
  an emission, a read, or a stutter.

`Lcg64_proofs` proves that the constants of the code are the ones the design
needs. `SeekAssumptionHolds`: the seeds are one step apart, a seek from the first
is one step from the last, and step and seek commute from every 64-bit state;
this is what `RootGenerator` assumes. `LanesCorrect` and `RootSequence`: however long
the lanes are written, they hold the next nine root states in the order of the
merge, and what is written is the one sequence. `LeavesCorrect`: for every set of
ids that an `int` can hold, each leaf is a generator with an odd increment
that no other id has. The run computes all this for its ids and its first
`Count` states; the proofs go through values. `Value` is the number that eight
digits stand for, `CarriedFacts` that carrying keeps it modulo 2^64, `AddFacts` and
`MulFacts` that `Add` and `Mul` are the sum and the product of values, and `SameWord`
that a value modulo 2^64 has only one word. `Commute` is then an identity of the
four constants modulo 2^64, the seeds are nine equations with their quotients
(`SeedsInStep`), and `WindowInv`, that the lanes are a window of nine states in a
row with a seek from its first one step behind its last, is inductive.

The same module proves what n steps are, for every n. `JumpExact`: the logarithmic
jump of the test program is the iterated step, for every distance, multiplier,
increment and state. `JumpCorrect` is `Spec => []JumpIsSteps`, forward and back, also when
more than 2^64 states have been written. k steps are the map
`x -> A[k] * x + C[k]`, in integers, with `A` and `C` defined by their first value
and how to go on (`StepMaps`; such functions exist by `IterationExists`, which, like
`Induction` over a set of numbers, follows from `LeastNatural`). A round doubles the
number of steps of `cur` and adds it to that of `acc` where the bit is set
(`SquaredFacts`, `AccumulatedFacts`, `AccIsSteps`); the bits that the rounds visit add up to
`Value(delta)` (`BitsValue`, `RoundsValue`). `LongestPeriod`: with a multiplier that
is 1 modulo 4 and an odd increment the generator goes through all 64-bit
states before it repeats one. By induction on b, 2^b steps are
`x -> (1 + 4 * 2^b * z) * x + 2^b * y` with an odd `y` (`PowersOdd`); 2^64 steps are therefore the
identity modulo 2^64 (`FullCycle`), while a smaller number, which is 2^b
times an odd number with b < 64 (`OddPart`), adds something that 2^64 does
not divide (`NoShortCycle`); and a sequence of 2^64 different states has them all.
`PeriodAssumptionHolds` is this for the root sequence, as `RootGenerator` asks for it,
and `LeafPeriod` for the sequence of every instance before permutation.
`IncrementsDiffer` argues that increments that are equal modulo 2^64 have ids
equal modulo 2^61, since `RNG_A` and (`RNG_A` - 1) / 4 are odd and
have inverses (`CancelFactor`, `CancelQuarter`).
A caution for whoever extends it: the front end of the prover computes the sum and
the product of two literals below 2^62 by itself, in machine integers that wrap
around. Therefore the constants are put together from halves that are
variables (`ValueOf`), and no such pair of literals occurs.

The end of `BlockingChain_proofs` is about the borders: `AdapterTypeCorrect` and
`ImplementsFifo`, for all depths an adapter and its streams are one FIFO of the
summed capacity.

`EstPi_proofs` is about any number of stages, any capacity of each stream and any
`Hit`. The first root stream and the last packet stream hold more than the ones
between stages (in the code a stream, a pad process and another stream). The run
lengthens the first only: with both, TLC does not finish within minutes.
First `AlwaysBalanced` and `MissesBounded`. The packets of the pi estimation are
polled, so one would expect that a stage that is faster than its neighbour
misses packets for as long as the program runs. It does not: a miss makes a
packet that the stage in front has not written, so a stage that misses runs
ahead of the one in front of it, but the root states it makes its samples of
have all been given to the stage in front before. `MissesLimited` is not
inductive; `Balance` is what it needs: the root states (first conjunct) and the
packets (second) that two neighbours have in common and between them. At a
miss there is no packet between the two, so `misses[p] = written[p] -
written[p-1]`, and the numbers that the stage in front has in hand, at most two
in the stage, `RngDepth` in the stream and one about to be written, bound that
difference. `NumbersStep`, `BetweenStep`, `WrittenStep` and `WaitingStep` say
what a step does to each side; `StepBalance` adds them up, `MissFacts` is the
argument above.

`SamplesCorrect`, `TypeCorrect` and `ResultCorrect` build on it. A root state is
its position, so `InPlace` can say that what a stage has in hand, in `rng` and in
front of it counts on from the samples it has written, without a gap from
stage to stream and back to the generator; that is `SamplesInOrder`.
`TypeOK` is not inductive: `Bounds` adds that an instance writes a root state only
after it has read one, and that `mem` holds what was counted when the loop
ended. For `ResultNearlyComplete` every packet has to be charged with what it
lacks: `Accounted` says that there are ledgers along each packet stream in which
each packet adds the samples it is short of, and that what leaves a stage is short
of what entered it by exactly the cost of the stage's misses. `MissesLimited`
then bounds the total.

`OutputChain_proofs` proves `DecorrelatorsCorrect`, for any number of units and
instances, all capacities and every period. That the terms of one packet agree
is not inductive: it has to be said which position they agree on, and for
that how far the decorrelators of neighbours are apart. `Aligned(p)`: the j-th
packet in front of instance `p` carries the position `p` has to jump to for it;
`Ahead(p)`: the instance before is ahead by exactly the packets between the
two, the one in its hand included (`InHand`); `HandAligned` says the same of a
packet in hand. Nothing in it depends on which leaf numbers were missed, as
`sg_state` is updated before the poll. All positions are modulo `Period`;
`ModFacts`, `SameRemainder` and `ModPlus` of `StreamFacts` do that arithmetic.

`TypeCorrect`, `NumbersWhole` and `RootsSeen` are about the same chain.
`NumbersWhole` rests on what a packet may hold in front of link `l` (`Whole(l)`): of
the instances before it both halves of a number or neither, of the others
nothing. `RootsSeen` is about `Upstream`, a function defined by recursion along
the chain: `RInv` speaks of *some* function that obeys its equation
(`Lines`), which a step transforms link by link, and `UpstreamIs`
shows that `Upstream` is that function, by its least counterexample
(`LeastNatural`). All lines of root states end in the generator's next one and
are consecutive; reading and writing move an element across a border of the three
parts of a line (`Three`).

`NumbersOnce` is `Spec => []NoNumberTwice`, under the hypothesis `PeriodsSuffice`:
the root sequence is a cycle of at least `Room + Depth` states and the
decorrelators' period at least `Room`, where `Room` is what the packet streams and
the instances can hold. Without it the property is false: the numbers would come
round again while the old ones are still on the chain. TLC evaluates the hypothesis
on the constants of the run (`MCOutputChain`); the code's periods,
2^64 and, for the 32 bits of `xorshiftjump`, at most 2^32 - 1, are far above every
`Room` a device can hold. That no number is used twice says
nothing inductive about where a number is. `Placed` does, with accounts that the
program does not keep, of how much was read from each stream: `LinkPlaced` gives
every root state on the chain its place in the root sequence (`read`), `LeafPlaced`
does so behind each leaf generator (`used`), `PacketsPlaced` numbers the packets
(`cnt`). `Entries` joins the two sides: `use[n]` is how many leaf numbers an
instance has taken with packet n, so it grows by one at a packet that got one and
stays at a miss (`Steady`), and a term of the instance in packet n is root state
number `use[n - 1]`, jumped to position n (`Carries`). One lemma per action keeps
the accounts (`RootInPlaced` to `CombinePlaced`). Packets in two places have
different numbers, less than `Room` apart (`PlacesApart`, `ChainRoom`), hence
positions that differ modulo `Period` and root states that differ (`PacketsDiffer`),
and what waits in a leaf stream comes after all that was taken (`WaitingDiffer`).

`OneToOne`, `Opposite` (theorems of `Linkage`) and `PairingOneToOne` say for any number
of units that the connections are one chain each way and that leaf generators
and instances are paired one to one; `Behind` is a CHOOSE, so the second needs the first.
The third is all that matters of the pairing: `WholeNumbers` and
`EveryInstanceContributes` see a clash of ids and a leaf number that goes to an
instance of another unit, but both halves of a number go by `LeafOf`, so that
they would hold just as well of another pairing one to one.

`BlockingChain_proofs` proves `TypeCorrect` and `LockStepCorrect`, for any
number of instances, all capacities and every period. Here a packet meets a
root state at each instance, and the two arrive on separate streams. `Level(p)`:
there are as many root states on the way to `p` (or in its hand before it took
the packet) as packets, one more while the instance before `p` owes a packet
(`Owing`); `LastRoot(p)`: that one is the root state the packet will be
combined with; `Aligned(p)` and `Ahead(p)` are those above, `Aligned` with the
root state that is to meet the packet.

`HostShell_proofs` proves `TypeCorrect`, `HostResults` and `LaunchesSeparate`, for every
size and number of launches, depth and modulus. The inductive invariant says where
host and tasks may be relative to each other (`Phase`: an idle task has either
not been enqueued or run to its end), that no element or number is lost or
added (`Balance`: what `mem_read` has fed is stored, on its way or held by `rng_main`;
one number drawn for each of the results of all launches), and that what is on its way is
what belongs to its place (`Contents`). `QuietBetweenLaunches` is then
arithmetic: when all `Size` elements are fed and stored, nothing is left
between. `TypeOK` is not inductive by itself either: what `rng_main` draws has to be
a number that was delivered (`Delivered`).

The second half of `HostShell_proofs` is about the code generator that writes the
shell's kernels: for all input files, of any number and length, and any number of
units, `GeneratorTypeCorrect`, `InstancesInOrder` and `NumbersApart`. They follow from one
invariant, `GeneratorInv`. `RegistryOK` and `Places` give the lists of the first pass their
types and say that what is registered is in one of the files. `InOrder(m)` is what makes
`InstancesLast` inductive: whatever a memory interface has was registered at the line at
hand or before it, in whatever file, so the part that is registered now is the last one; the mask
says which parts there are (`MemOfFacts` needs that no two interfaces have the same
argument, which is what `Refused` sees to). For `NumbersDistinct` the counters alone say
too little, as they are never reset: `WrittenOnce` says that code was written only for
the markers that lie behind the line at hand, so the code for a marker comes in one
piece (`GeneratedText`), and pieces for different markers do not get in each other's way
(`TextConcat`). Within a piece, `BeforeGrows` counts the arrays in front of a
definition, one more for each, and two memory ids for those that are written back
(`IdsGrow`). `FlattenFacts` is the lemma on the library's `FlattenSeq` that this needs:
every element of the result is in one place of one of the sequences, and no two of
them are in the same.

`Reservoir_proofs` proves `InStepCorrect` and `NothingLeft`, for any number of
stages, any capacity, size and input. `InStep` compares each stream with a slice of
the input between the positions of its reader and its writer. The invariant
splits it by who moves which position (`Border` for the three streams in front,
`Chain` for those along the stages, `Hands` for what a stage has read) and adds
`Counts`: that an access is possible only in an iteration, and that
what `merge` and `first_edge_sampling` hold is at the position they are at. A
read moves the lower end of a slice, a write the upper end (`ReadMoves`,
`WriteMoves`); nothing else is touched. `NothingLeft` is the slice from `Size` to
`Size`.

`StagesCorrect` and `ResultCorrect` say what the values mean. `JInv` adds to `IInv` that
each stage keeps what the edges up to its position call for (`Kept`; `AfterStart`
speaks of the edges that met the first one since, the last chosen among them,
and whether a later edge joined the far ends), that a sum on its way to stage `l`
is that of the stages in front of it (`Summed`), and the streams' bounds
(`Bounded`, for `TypeCorrect`). `AdjacentGrow`, `ChosenGrow` and `ClosedGrow` say what
one more edge adds to those sets, one lemma for each
case of the code. `Below(l)` is a partial sum; that it is the
sum `ResultExact` speaks of is `BelowAll`, from the lemmas on `MapThenSumSet` in
`StreamFacts`. `Kept` is about what the code compares; `ClosedIs` turns that
into `Triangle`, under `Plain` (section 4). `Plain` constrains the input alone.

`NeverStuckCorrect` is `Spec => []NeverStuck`: until all loops have returned, one of them can act.
With streams as short as one item one may fear that loops wait for each other in
a circle, as each stage reads three streams and writes three. The proof takes the
least iteration `m` that some loop or stage is in, and supposes that none can
act. By `InStep`'s invariant an access of a loop in iteration `m` can fail only
because the loop it reads from is in `m` too and behind it, or because the loop it
writes for is in an earlier iteration, which is none. So, going along with the
data, nobody is in iteration `m`: not the loops in front (`FeedsAhead`), not `merge` and
`first_edge_sampling` (`MergeAhead`, `FirstAhead`), no stage, by the least one that is
and the access it is at (`StageAhead`, `StagesAhead`), not the loops at the end
(`DrainsAhead`); which contradicts the choice of `m` (`NoCircle`).

The assumptions used are the `SizeAssumption` of each module, `StateAssumption`,
`SeekAssumption` and `PeriodAssumption` of `RootGenerator` (true of the code's
constants by `SeekAssumptionHolds` and `PeriodAssumptionHolds`), `RootAssumption`
of the two chains (that a root state is none of the special values),
`PeriodsSuffice` as the hypothesis of `NumbersOnce`,
and of `Reservoir` `RunAssumption` (the shape of an input) and `SumAssumption`:
no sum of the stages reaches 2^32, which 4096 edges cannot; and of `Lcg64`
`IdAssumption`: an id is a `const int` that is not negative; and of `CodeGenerator`
`UnitAssumption` and `InputAssumption`: there is a unit, and an input is one file or more.

`StreamFacts` holds the lemmas on reading and writing sequences, on
counters that wrap around, on small sets and on sums. The library's induction rules
cannot be used here; `LeastNatural`, that every set of natural
numbers has a least element, takes their place, and from it come `Induction` over a
set of numbers and `IterationExists`, that a function can be defined step by step.

Model-checked only:

* all liveness (`FullPeriod`, `EveryInstanceContributes`, `RootsReachEnd`,
  `NumbersKeepComing`, `HostReturns`, `ResultComes`, the fairness parts of the
  two refinements), since neither fairness nor ENABLED is within the prover's
  reach;
* `SequencesExact`, which is about the powers of a 128 by 128 matrix of bits;
* `OutputIsExpansion`, which is not true of all input files: a pragma in a second
  file may replace a line of the first (`parser/kernel_interface.cpp`, line 63, in
  `hazards`). The run enumerates first files, and second files for which it holds.

## 6. Not modelled, and plan

Left out for good:

* the bit-level permutation `output_function` and the seed tables
  (`xor32s.h`), data the properties do not distinguish;
* device discovery and programming in the hosts; the hosts of the case
  studies, which repeat that of the shell around another kernel (what differs is
  under "More observations");
* the single-kernel generator of `misc/ssrng`: its updaters and merge are
  those of `RootGenerator`, with the same constants, and one kernel with one
  blocking read and one blocking write behind them;
* the backward jump of the xorshift generator (`step_backward`), which nothing
  calls, the generators of the other headers of `test/rngs`, which draw as
  `xorshift128.h` does, the throughput program, the statistical
  tests and the scripts around them;
* the vendored samples (`gpu`, `cpu`, `common`, `emulation`, `cmake`). They and
  the seed tables are about nine tenths of the repository's lines of code, so the
  share of lines that the modules stand for is small and stays so.

Next: `ThundeRiNG`, the root unit, output units and shell composed, with
`SequentialRoot` in place of the root unit (which is why that refinement is
proved) and the number drawn as a function of the packet.

## 7. Running

    tlc -config MCRootGenerator.cfg MCRootGenerator
    tlapm RootGenerator_proofs.tla

and the same for the other pairs of module and configuration listed under
`runs` in `PROJECT.json`. With two workers `est_pi` takes two to three
minutes, `code_generator`, `reservoir` and `output_chain` more than one, the others less. `Reservoir_proofs` and
`OutputChain_proofs` take three to four minutes each, `EstPi_proofs` and
`Lcg64_proofs` five, `BlockingChain_proofs` and `RootGenerator_proofs` one, the others less.
