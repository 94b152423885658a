----------------------------- MODULE HostShell -----------------------------
(***************************************************************************)
(* The application around the generator (fpga/rng/src: host.cpp, top, rng):*)
(* the host launches mem_read and mem_write twice over an out-of-order     *)
(* queue; mem_read streams the input to the free-running kernel rng_main,  *)
(* which adds a random number to each element, and mem_write stores the    *)
(* sums.  The random numbers come from the output units.                   *)
(***************************************************************************)
EXTENDS Streams, Integers, FiniteSets, Functions

CONSTANTS Size,      (* elements of a launch: data_size                       *)
          Launches,  (* launches of the host: 2                               *)
          Depth,     (* capacity of the links between the kernels             *)
          Number,    (* the random numbers that may be drawn                  *)
          Modulus,   (* 2^32: sums wrap around                                *)
          NoVal      (* uninitialised memory                                  *)

ASSUME SizeAssumption ==
    /\ Size \in Nat \ {0} /\ Launches \in Nat \ {0}
    /\ Depth \in Nat \ {0} /\ Modulus \in Nat \ {0}
    /\ Number \subseteq 0 .. Modulus - 1
    /\ NoVal \notin Int

Index == 0 .. Size - 1
Kernel == {"mem_read", "mem_write"}

(* What the host computes before it starts.                                *)
SourceInput == [i \in Index |-> i % Modulus]
SwResults == [i \in Index |-> (i + 1) % Modulus]

VARIABLES hpc,        (* where the host is                                   *)
          count,      (* its launch counter                                  *)
          hw_results, (* source_hw_results in host memory                    *)
          match,      (* the verdicts it has printed                         *)
          task,       (* the two enqueued tasks: idle, queued or running     *)
          i_read,     (* loop counter of mem_read                            *)
          i_write,    (* loop counter of mem_write                           *)
          buffer,     (* buffer_output in device memory                      *)
          input,      (* link from mem_read to rng_main                      *)
          rng,        (* link from the output units to rng_main              *)
          output,     (* link from rng_main to mem_write                     *)
          mpc, v, r,  (* next access of rng_main and its two variables       *)
          drawn       (* history: the numbers rng_main has read              *)

hostVars == <<hpc, count, hw_results, match>>
mainVars == <<mpc, v, r, drawn>>
vars == <<hostVars, task, i_read, i_write, buffer, input, rng, output, mainVars>>

-----------------------------------------------------------------------------
(* enqueueTask returns at once; q.finish waits for both tasks.             *)
Enqueue(k, from, to) ==
    /\ hpc = from
    /\ hpc' = to
    /\ task' = [task EXCEPT ![k] = "queued"]
    /\ UNCHANGED <<count, hw_results, match, i_read, i_write, buffer, input, rng, output,
                   mainVars>>
Launch == Enqueue("mem_read", "launch", "launch2") \/ Enqueue("mem_write", "launch2", "finish")

(* A slip: waiting for the first task only.                                *)
FinishOfMemRead ==
    /\ hpc = "finish"
    /\ task["mem_read"] = "idle"
    /\ hpc' = "migrate"
    /\ UNCHANGED <<count, hw_results, match, task, i_read, i_write, buffer, input, rng, output,
                   mainVars>>

Finish ==
    /\ hpc = "finish"
    /\ \A k \in Kernel : task[k] = "idle"
    /\ hpc' = "migrate"
    /\ UNCHANGED <<count, hw_results, match, task, i_read, i_write, buffer, input, rng, output,
                   mainVars>>

Migrate ==
    /\ hpc = "migrate"
    /\ hw_results' = buffer
    /\ hpc' = "compare"
    /\ UNCHANGED <<count, match, task, i_read, i_write, buffer, input, rng, output, mainVars>>

Compare ==
    /\ hpc = "compare"
    /\ match' = Append(match, hw_results = SwResults)
    /\ count' = count + 1
    /\ hpc' = IF count + 1 < Launches THEN "launch" ELSE "exit"
    /\ UNCHANGED <<hw_results, task, i_read, i_write, buffer, input, rng, output, mainVars>>

-----------------------------------------------------------------------------
(* A slip: an in-order queue, in which mem_write waits for mem_read.       *)
StartInOrder(k) ==
    /\ task[k] = "queued"
    /\ k = "mem_write" => task["mem_read"] = "idle"
    /\ task' = [task EXCEPT ![k] = "running"]
    /\ IF k = "mem_read" THEN i_read' = 0 /\ UNCHANGED i_write
                         ELSE i_write' = 0 /\ UNCHANGED i_read
    /\ UNCHANGED <<hostVars, buffer, input, rng, output, mainVars>>

(* The queue is out of order: a queued task starts whatever the other does.*)
Start(k) ==
    /\ task[k] = "queued"
    /\ task' = [task EXCEPT ![k] = "running"]
    /\ IF k = "mem_read" THEN i_read' = 0 /\ UNCHANGED i_write
                         ELSE i_write' = 0 /\ UNCHANGED i_read
    /\ UNCHANGED <<hostVars, buffer, input, rng, output, mainVars>>

(* A slip: the write of a kernel does not wait for a free slot.            *)
MemReadUnchecked ==
    /\ task["mem_read"] = "running"
    /\ i_read < Size
    /\ input' = Append(input, SourceInput[i_read])
    /\ i_read' = i_read + 1
    /\ UNCHANGED <<hostVars, task, i_write, buffer, rng, output, mainVars>>

MemRead ==
    /\ task["mem_read"] = "running"
    /\ i_read < Size
    /\ CanWrite(input, Depth)
    /\ input' = Append(input, SourceInput[i_read])
    /\ i_read' = i_read + 1
    /\ UNCHANGED <<hostVars, task, i_write, buffer, rng, output, mainVars>>

MemWrite ==
    /\ task["mem_write"] = "running"
    /\ i_write < Size
    /\ CanRead(output)
    /\ buffer' = [buffer EXCEPT ![i_write] = Head(output)]
    /\ output' = Tail(output)
    /\ i_write' = i_write + 1
    /\ UNCHANGED <<hostVars, task, i_read, input, rng, mainVars>>

(* A slip: mem_write stops one element early.                              *)
CompleteEarly(k) ==
    /\ task[k] = "running"
    /\ (IF k = "mem_read" THEN i_read = Size ELSE i_write = Size - 1)
    /\ task' = [task EXCEPT ![k] = "idle"]
    /\ UNCHANGED <<hostVars, i_read, i_write, buffer, input, rng, output, mainVars>>

(* The loop of a kernel has run to its end.                                *)
Complete(k) ==
    /\ task[k] = "running"
    /\ (IF k = "mem_read" THEN i_read ELSE i_write) = Size
    /\ task' = [task EXCEPT ![k] = "idle"]
    /\ UNCHANGED <<hostVars, i_read, i_write, buffer, input, rng, output, mainVars>>

(* The output units deliver numbers of their own accord.                   *)
Generate(n) ==
    /\ CanWrite(rng, Depth)
    /\ rng' = Append(rng, n)
    /\ UNCHANGED <<hostVars, task, i_read, i_write, buffer, input, output, mainVars>>

(* rng_main reads an element, ...                                          *)
MainReadInput ==
    /\ mpc = "input"
    /\ CanRead(input)
    /\ v' = Head(input)
    /\ input' = Tail(input)
    /\ mpc' = "rng"
    /\ UNCHANGED <<hostVars, task, i_read, i_write, buffer, rng, output, r, drawn>>

(* ... then a random number, ...                                           *)
MainReadRng ==
    /\ mpc = "rng"
    /\ CanRead(rng)
    /\ r' = Head(rng)
    /\ rng' = Tail(rng)
    /\ drawn' = Append(drawn, Head(rng))
    /\ mpc' = "output"
    /\ UNCHANGED <<hostVars, task, i_read, i_write, buffer, input, output, v>>

(* ... and writes the sum.  v.last was never set: whether the loop goes on *)
(* or the kernel returns and is restarted, it is back at its first read    *)
(* with nothing kept.                                                      *)
MainWrite ==
    /\ mpc = "output"
    /\ CanWrite(output, Depth)
    /\ output' = Append(output, (v + r) % Modulus)
    /\ mpc' = "input" /\ v' = NoVal /\ r' = NoVal
    /\ UNCHANGED <<hostVars, task, i_read, i_write, buffer, input, rng, drawn>>

(* The host has returned.                                                  *)
Exited == hpc = "exit" /\ UNCHANGED vars

-----------------------------------------------------------------------------
(* The input has been migrated to the device.                              *)
Init ==
    /\ hpc = "launch" /\ count = 0
    /\ hw_results = [i \in Index |-> 0] /\ match = <<>>
    /\ task = [k \in Kernel |-> "idle"]
    /\ i_read = 0 /\ i_write = 0
    /\ buffer = [i \in Index |-> NoVal]
    /\ input = <<>> /\ rng = <<>> /\ output = <<>>
    /\ mpc = "input" /\ v = NoVal /\ r = NoVal /\ drawn = <<>>

Host == Launch \/ Finish \/ Migrate \/ Compare
MainKernel == MainReadInput \/ MainReadRng \/ MainWrite

Next ==
    \/ Host
    \/ \E k \in Kernel : Start(k) \/ Complete(k)
    \/ MemRead
    \/ MemWrite
    \/ \E n \in Number : Generate(n)
    \/ MainKernel
    \/ Exited

(* The host thread, the kernels it starts, the free-running rng_main and   *)
(* the output units make progress whenever they can.                       *)
Fairness ==
    /\ WF_vars(Host) /\ WF_vars(MainKernel)
    /\ \A k \in Kernel : WF_vars(Start(k)) /\ WF_vars(Complete(k))
    /\ WF_vars(MemRead) /\ WF_vars(MemWrite)
    /\ WF_vars(\E n \in Number : Generate(n))

Spec == Init /\ [][Next]_vars /\ Fairness

-----------------------------------------------------------------------------
Word == 0 .. Modulus - 1

TypeOK ==
    /\ hpc \in {"launch", "launch2", "finish", "migrate", "compare", "exit"}
    /\ count \in 0 .. Launches
    /\ match \in Seq(BOOLEAN) /\ Len(match) = count
    /\ task \in [Kernel -> {"idle", "queued", "running"}]
    /\ i_read \in 0 .. Size /\ i_write \in 0 .. Size
    /\ buffer \in [Index -> Word \cup {NoVal}]
    /\ hw_results \in [Index -> Word]
    /\ \A link \in {input, rng, output} : link \in Seq(Word) /\ Len(link) <= Depth
    /\ mpc \in {"input", "rng", "output"}
    /\ v \in IF mpc = "input" THEN {NoVal} ELSE Word
    /\ r \in IF mpc = "output" THEN Word ELSE {NoVal}
    /\ drawn \in Seq(Number)

(* When the host compares, it sees the inputs plus the numbers drawn by    *)
(* this launch, each at its place: the results of successive launches are  *)
(* successive pieces of the random sequence, no number skipped or used     *)
(* twice, no result left over from the launch before (host.cpp, loop over  *)
(* count; both tasks run concurrently).                                    *)
ResultsExact ==
    hpc = "compare" =>
        \A i \in Index :
            hw_results[i] = (SourceInput[i] + drawn[count * Size + i + 1]) % Modulus

(* Between launches the data path is empty and rng_main has drawn no       *)
(* number ahead of the elements, so the next launch finds it as the first  *)
(* one did (mem_read and mem_write agree on the size; rng_main reads its   *)
(* input first).                                                           *)
QuietBetweenLaunches ==
    hpc \in {"launch", "exit"} =>
        input = <<>> /\ output = <<>> /\ mpc = "input" /\ Len(drawn) = count * Size

(* The host gets through its launches: the links are too short to hold a   *)
(* whole launch, so the tasks must run side by side.                       *)
HostReturns == <>(hpc = "exit")

(* host.cpp, line 49: the test passes if every result is the input plus 1. *)
TestPasses == \A n \in 1 .. Len(match) : match[n]

=============================================================================
