-------------------------- MODULE HostShell_proofs --------------------------
(***************************************************************************)
(* The application shell: for every launch size, number of launches, link  *)
(* capacity and modulus, and whatever numbers are drawn, the results of a  *)
(* launch are exact and the data path is empty between launches.           *)
(*                                                                         *)
(* Behind it, the generator that writes the shell's kernels out of their   *)
(* templates: for all input files and any number of units, the numbers it  *)
(* hands out in an output are distinct, and the parts of a memory          *)
(* interface are registered in order.                                      *)
(***************************************************************************)
EXTENDS HostShell, CodeGenerator, StreamFacts

-----------------------------------------------------------------------------
(* The inductive invariant.  Fed and Stored count the elements of the      *)
(* current launch that mem_read has sent and that mem_write has stored; a  *)
(* loop counter says so only once the task has started.                    *)
Fed == IF hpc \in {"launch", "exit"} \/ task["mem_read"] = "queued" THEN 0 ELSE i_read
Stored == IF hpc \in {"launch", "launch2", "exit"} \/ task["mem_write"] = "queued"
          THEN 0 ELSE i_write

(* Elements that rng_main has read and not yet written, and numbers.       *)
HeldElement == IF mpc = "input" THEN 0 ELSE 1
HeldNumber == IF mpc = "output" THEN 1 ELSE 0

(* The result that belongs to element i of this launch.                    *)
Base == count * Size
Sum(i) == (SourceInput[i] + drawn[Base + i + 1]) % Modulus

(* A task that is idle has not been enqueued yet or has run to its end.    *)
Phase ==
    /\ hpc # "exit" => count < Launches
    /\ hpc \in {"launch", "exit"} => \A k \in Kernel : task[k] = "idle"
    /\ hpc = "launch2" => task["mem_write"] = "idle"
    /\ hpc \in {"launch2", "finish"} => (task["mem_read"] = "idle" => i_read = Size)
    /\ hpc = "finish" => (task["mem_write"] = "idle" => i_write = Size)
    /\ hpc \in {"migrate", "compare"} =>
           (\A k \in Kernel : task[k] = "idle") /\ i_read = Size /\ i_write = Size

(* No element and no number is lost or added on the way.                   *)
Balance ==
    /\ Fed = Stored + Len(output) + HeldElement + Len(input)
    /\ Len(drawn) = Base + Stored + Len(output) + HeldNumber

(* Whatever is on the way is what belongs to its place in the launch.      *)
Contents ==
    /\ \A j \in 1 .. Len(input) :
           input[j] = SourceInput[Stored + Len(output) + HeldElement + j - 1]
    /\ mpc # "input" => v = SourceInput[Stored + Len(output)]
    /\ mpc = "output" => r = drawn[Len(drawn)]
    /\ \A j \in 1 .. Len(output) : output[j] = Sum(Stored + j - 1)
    /\ \A i \in Index : i < Stored => buffer[i] = Sum(i)

Copied == hpc = "compare" => hw_results = buffer

(* The link from the output units holds numbers they have delivered; the   *)
(* type invariant only says that it holds words.                           *)
Delivered == rng \in Seq(Number)

IInv == TypeOK /\ Phase /\ Balance /\ Contents /\ Copied /\ Delivered
-----------------------------------------------------------------------------
(* What the type invariant says of the variables one by one.               *)
LEMMA TypeFacts ==
    ASSUME TypeOK
    PROVE  /\ Size \in Nat \ {0} /\ Modulus \in Nat \ {0} /\ Depth \in Nat \ {0}
           /\ Launches \in Nat \ {0} /\ Number \subseteq Word
           /\ count \in Nat /\ count <= Launches /\ Base \in Nat
           /\ i_read \in 0 .. Size /\ i_write \in 0 .. Size
           /\ input \in Seq(Word) /\ Len(input) \in Nat /\ Len(input) <= Depth
           /\ output \in Seq(Word) /\ Len(output) \in Nat /\ Len(output) <= Depth
           /\ rng \in Seq(Word) /\ Len(rng) \in Nat /\ Len(rng) <= Depth
           /\ drawn \in Seq(Number) /\ Len(drawn) \in Nat
           /\ task \in [Kernel -> {"idle", "queued", "running"}]
           /\ Fed \in 0 .. Size /\ Stored \in 0 .. Size
           /\ HeldElement \in 0 .. 1 /\ HeldNumber \in 0 .. 1
<1>1. /\ Size \in Nat \ {0} /\ Modulus \in Nat \ {0} /\ Depth \in Nat \ {0}
      /\ Launches \in Nat \ {0} /\ Number \subseteq Word
  BY SizeAssumption DEF Word
<1>2. /\ input \in Seq(Word) /\ Len(input) <= Depth /\ output \in Seq(Word) /\ Len(output) <= Depth
      /\ rng \in Seq(Word) /\ Len(rng) <= Depth /\ drawn \in Seq(Number)
  BY DEF TypeOK
<1>3. count \in Nat /\ count <= Launches
  BY <1>1 DEF TypeOK
<1>4. i_read \in 0 .. Size /\ i_write \in 0 .. Size
      /\ task \in [Kernel -> {"idle", "queued", "running"}]
  BY DEF TypeOK
<1>5. Base \in Nat
  BY <1>1, <1>3 DEF Base
<1>6. Fed \in 0 .. Size /\ Stored \in 0 .. Size
  BY <1>1, <1>4 DEF Fed, Stored
<1>7. HeldElement \in 0 .. 1 /\ HeldNumber \in 0 .. 1
  BY DEF HeldElement, HeldNumber
<1>8. Len(input) \in Nat /\ Len(output) \in Nat /\ Len(rng) \in Nat /\ Len(drawn) \in Nat
  BY <1>2, LenProperties
<1> QED
  BY <1>1, <1>2, <1>3, <1>4, <1>5, <1>6, <1>7, <1>8

LEMMA SourceFacts ==
    ASSUME NEW i \in Index
    PROVE  SourceInput[i] \in Word
<1>1. i \in Int /\ Modulus \in Nat \ {0}
  BY SizeAssumption DEF Index
<1>2. i % Modulus \in 0 .. Modulus - 1
  BY <1>1, ModFacts
<1> QED
  BY <1>2 DEF SourceInput, Word

(* A result is a word, and keeps its value while further numbers are drawn.*)
LEMMA SumFacts ==
    ASSUME TypeOK, NEW i \in Index, Base + i + 1 <= Len(drawn)
    PROVE  /\ Sum(i) \in Word
           /\ \A x \in Number :
                  (count' = count /\ drawn' = Append(drawn, x)) => Sum(i)' = Sum(i)
<1> DEFINE m == Base + i + 1
<1>1. i \in Nat /\ Base \in Nat /\ Modulus \in Nat \ {0} /\ Number \subseteq Word
      /\ drawn \in Seq(Number) /\ Len(drawn) \in Nat
  BY TypeFacts DEF Index
<1>2. m \in 1 .. Len(drawn)
  BY <1>1
<1>3. drawn[m] \in Number
  BY <1>1, <1>2, ElementOfSeq
<1>4. drawn[m] \in Int /\ SourceInput[i] \in Int
  <2>1. SourceInput[i] \in Word /\ drawn[m] \in Word
    BY <1>1, <1>3, SourceFacts
  <2>2. Word \subseteq Int
    BY <1>1 DEF Word
  <2> QED
    BY <2>1, <2>2
<1>5. (SourceInput[i] + drawn[m]) % Modulus \in 0 .. Modulus - 1
  <2>1. SourceInput[i] + drawn[m] \in Int
    BY <1>4
  <2> QED
    BY <1>1, <2>1, ModFacts
<1>6. ASSUME NEW x \in Number, count' = count, drawn' = Append(drawn, x)
      PROVE  Sum(i)' = Sum(i)
  <2>1. Append(drawn, x)[m] = drawn[m]
    BY <1>1, <1>2, AppendFacts
  <2>2. drawn'[m] = drawn[m]
    BY <1>6, <2>1
  <2> HIDE DEF m
  <2>3. Base' = Base
    BY <1>6 DEF Base
  <2>4. SourceInput' = SourceInput
    BY DEF SourceInput, Index
  <2> QED
    BY <2>2, <2>3, <2>4 DEF Sum, m
<1> QED
  BY <1>5, <1>6 DEF Sum, Word, m

(* A step that leaves the data path and the counts of the launch alone.    *)
LEMMA DataSame ==
    ASSUME IInv, UNCHANGED <<count, buffer, input, output, mainVars>>,
           Fed' = Fed, Stored' = Stored
    PROVE  Balance' /\ Contents'
<1>1. /\ count' = count /\ buffer' = buffer /\ input' = input /\ output' = output
      /\ mpc' = mpc /\ v' = v /\ r' = r /\ drawn' = drawn
  BY DEF mainVars
<1>2. Base' = Base /\ HeldElement' = HeldElement /\ HeldNumber' = HeldNumber
  BY <1>1 DEF Base, HeldElement, HeldNumber
<1>3. ASSUME NEW i PROVE Sum(i)' = Sum(i)
  BY <1>1, <1>2 DEF Sum, SourceInput, Index
<1>4. Balance'
  BY <1>1, <1>2 DEF IInv, Balance
<1>5. Contents'
  BY <1>1, <1>2, <1>3 DEF IInv, Contents, SourceInput, Index
<1> QED
  BY <1>4, <1>5

-----------------------------------------------------------------------------
(* The steps of the host and of the queue.                                 *)
LEMMA LaunchStep ==
    ASSUME IInv, Launch
    PROVE  IInv'
<1>1. UNCHANGED <<count, hw_results, match, i_read, i_write, buffer, input, rng, output, mainVars>>
  BY DEF Launch, Enqueue
<1>2. \/ hpc = "launch" /\ hpc' = "launch2" /\ task' = [task EXCEPT !["mem_read"] = "queued"]
      \/ hpc = "launch2" /\ hpc' = "finish" /\ task' = [task EXCEPT !["mem_write"] = "queued"]
  BY DEF Launch, Enqueue
<1>3. task \in [Kernel -> {"idle", "queued", "running"}]
  BY TypeFacts DEF IInv
<1>4. TypeOK'
  BY <1>1, <1>2, <1>3 DEF IInv, TypeOK, mainVars, Index, Word, Kernel
<1>5. Phase' /\ Fed' = Fed /\ Stored' = Stored
  BY <1>1, <1>2, <1>3 DEF IInv, Phase, Fed, Stored, Kernel
<1>6. Balance' /\ Contents'
  BY <1>1, <1>5, DataSame
<1>7. Copied'
  BY <1>2 DEF Copied
<1>d. Delivered'
  BY <1>1 DEF IInv, Delivered
<1> QED
  BY <1>d, <1>4, <1>5, <1>6, <1>7 DEF IInv

LEMMA FinishStep ==
    ASSUME IInv, Finish
    PROVE  IInv'
<1>1. UNCHANGED <<count, hw_results, match, task, i_read, i_write, buffer, input, rng, output,
                  mainVars>>
  BY DEF Finish
<1>2. hpc = "finish" /\ hpc' = "migrate" /\ \A k \in Kernel : task[k] = "idle"
  BY DEF Finish
<1>3. TypeOK'
  BY <1>1, <1>2 DEF IInv, TypeOK, mainVars, Index, Word
<1>4. Phase' /\ Fed' = Fed /\ Stored' = Stored
  BY <1>1, <1>2 DEF IInv, Phase, Fed, Stored, Kernel
<1>5. Balance' /\ Contents'
  BY <1>1, <1>4, DataSame
<1>d. Delivered'
  BY <1>1 DEF IInv, Delivered
<1> QED
  BY <1>d, <1>2, <1>3, <1>4, <1>5 DEF IInv, Copied

LEMMA MigrateStep ==
    ASSUME IInv, Migrate
    PROVE  IInv'
<1>1. /\ UNCHANGED <<count, match, task, i_read, i_write, buffer, input, rng, output, mainVars>>
      /\ hpc = "migrate" /\ hpc' = "compare" /\ hw_results' = buffer
  BY DEF Migrate
<1>2. buffer \in [Index -> Word]
  <2>1. ASSUME NEW i \in Index PROVE buffer[i] \in Word
    <3>1. Stored = Size /\ i < Size /\ i \in Nat /\ Size \in Nat /\ Base \in Nat
      <4>1. Size \in Nat /\ Base \in Nat
        BY TypeFacts DEF IInv
      <4>2. i_write = Size /\ task["mem_write"] = "idle"
        BY <1>1 DEF IInv, Phase, Kernel
      <4> QED
        BY <1>1, <4>1, <4>2 DEF Stored, Index
    <3>2. buffer[i] = Sum(i)
      BY <3>1 DEF IInv, Contents
    <3>3. Base + i + 1 <= Len(drawn)
      <4>1. /\ Len(drawn) = Base + Stored + Len(output) + HeldNumber
            /\ Len(output) \in Nat /\ HeldNumber \in 0 .. 1
        BY TypeFacts DEF IInv, Balance
      <4> QED
        BY <3>1, <4>1
    <3> QED
      BY <3>2, <3>3, SumFacts DEF IInv
  <2> QED
    BY <2>1 DEF IInv, TypeOK
<1>3. TypeOK'
  BY <1>1, <1>2 DEF IInv, TypeOK, mainVars, Index, Word
<1>4. Phase' /\ Fed' = Fed /\ Stored' = Stored
  BY <1>1 DEF IInv, Phase, Fed, Stored, Kernel
<1>5. Balance' /\ Contents'
  BY <1>1, <1>4, DataSame
<1>d. Delivered'
  BY <1>1 DEF IInv, Delivered
<1> QED
  BY <1>d, <1>1, <1>3, <1>4, <1>5 DEF IInv, Copied

LEMMA CompareStep ==
    ASSUME IInv, Compare
    PROVE  IInv'
<1>1. /\ UNCHANGED <<hw_results, task, i_read, i_write, buffer, input, rng, output, mainVars>>
      /\ hpc = "compare" /\ match' = Append(match, hw_results = SwResults)
      /\ count' = count + 1
      /\ hpc' = IF count + 1 < Launches THEN "launch" ELSE "exit"
  BY DEF Compare
<1>2. /\ count < Launches /\ i_read = Size /\ i_write = Size
      /\ \A k \in Kernel : task[k] = "idle"
  BY <1>1 DEF IInv, Phase
<1>3. /\ Len(input) = 0 /\ Len(output) = 0 /\ HeldElement = 0 /\ HeldNumber = 0
      /\ Len(drawn) = Base + Size /\ mpc = "input"
  <2>1. Fed = Size /\ Stored = Size
    BY <1>1, <1>2 DEF Fed, Stored, Kernel
  <2>2. Len(input) = 0 /\ Len(output) = 0 /\ HeldElement = 0
    <3>1. /\ Fed = Stored + Len(output) + HeldElement + Len(input) /\ Size \in Nat
          /\ Len(output) \in Nat /\ Len(input) \in Nat /\ HeldElement \in 0 .. 1
      BY TypeFacts DEF IInv, Balance
    <3> QED
      BY <2>1, <3>1
  <2>3. mpc = "input"
    BY <2>2 DEF HeldElement
  <2>4. HeldNumber = 0
    BY <2>3 DEF HeldNumber
  <2> QED
    BY <2>1, <2>2, <2>3, <2>4, TypeFacts DEF IInv, Balance
<1>4. Base' = Base + Size
  <2>1. count \in Nat /\ Size \in Nat
    BY TypeFacts DEF IInv
  <2> QED
    BY <1>1, <2>1 DEF Base
<1>5. TypeOK'
  <2>1. match' \in Seq(BOOLEAN) /\ Len(match') = count'
    <3>1. match \in Seq(BOOLEAN) /\ Len(match) = count /\ (hw_results = SwResults) \in BOOLEAN
      BY DEF IInv, TypeOK
    <3> QED
      BY <1>1, <3>1, AppendProperties
  <2>2. count' \in 0 .. Launches
    BY <1>1, <1>2, TypeFacts DEF IInv
  <2> QED
    BY <1>1, <2>1, <2>2 DEF IInv, TypeOK, mainVars, Index, Word
<1>6. Phase' /\ Fed' = 0 /\ Stored' = 0
  BY <1>1, <1>2 DEF Phase, Fed, Stored
<1>7. mpc' = mpc /\ Len(input') = 0 /\ Len(output') = 0 /\ Len(drawn') = Base + Size
  BY <1>1, <1>3 DEF mainVars
<1>8. HeldElement' = 0 /\ HeldNumber' = 0
  BY <1>3, <1>7 DEF HeldElement, HeldNumber
<1>9. Balance'
  BY <1>4, <1>6, <1>7, <1>8, TypeFacts DEF IInv, Balance
<1>10. Contents'
  BY <1>3, <1>6, <1>7, <1>8 DEF Contents, Index
<1>11. Copied'
  BY <1>1 DEF Copied
<1>d. Delivered'
  BY <1>1 DEF IInv, Delivered
<1> QED
  BY <1>d, <1>5, <1>6, <1>9, <1>10, <1>11 DEF IInv

LEMMA TaskStep ==
    ASSUME IInv, NEW k \in Kernel, Start(k) \/ Complete(k)
    PROVE  IInv'
<1>1. UNCHANGED <<hostVars, buffer, input, rng, output, mainVars>>
  BY DEF Start, Complete
<1>2. \/ /\ task[k] = "queued" /\ task' = [task EXCEPT ![k] = "running"]
         /\ IF k = "mem_read" THEN i_read' = 0 /\ i_write' = i_write
                              ELSE i_write' = 0 /\ i_read' = i_read
      \/ /\ task[k] = "running" /\ task' = [task EXCEPT ![k] = "idle"]
         /\ (IF k = "mem_read" THEN i_read ELSE i_write) = Size
         /\ i_read' = i_read /\ i_write' = i_write
  BY DEF Start, Complete
<1>3. /\ task \in [Kernel -> {"idle", "queued", "running"}] /\ Size \in Nat
      /\ k \in {"mem_read", "mem_write"}
  BY TypeFacts DEF IInv, Kernel
<1>4. TypeOK'
  <2>1. /\ task' \in [Kernel -> {"idle", "queued", "running"}]
        /\ i_read' \in 0 .. Size /\ i_write' \in 0 .. Size
    <3>1. i_read \in 0 .. Size /\ i_write \in 0 .. Size /\ 0 \in 0 .. Size
      BY <1>3, TypeFacts DEF IInv
    <3> QED
      BY <1>2, <1>3, <3>1
  <2> QED
    BY <1>1, <2>1 DEF IInv, TypeOK, hostVars, mainVars, Index, Word
<1>5. Phase' /\ Fed' = Fed /\ Stored' = Stored
  BY <1>1, <1>2, <1>3 DEF IInv, Phase, Fed, Stored, Kernel, hostVars
<1>6. Balance' /\ Contents'
  BY <1>1, <1>5, DataSame DEF hostVars
<1>7. Copied'
  BY <1>1 DEF IInv, Copied, hostVars
<1>d. Delivered'
  BY <1>1 DEF IInv, Delivered
<1> QED
  BY <1>d, <1>4, <1>5, <1>6, <1>7 DEF IInv

LEMMA GenerateStep ==
    ASSUME IInv, NEW n \in Number, Generate(n)
    PROVE  IInv'
<1>1. /\ UNCHANGED <<hostVars, task, i_read, i_write, buffer, input, output, mainVars>>
      /\ Len(rng) < Depth /\ rng' = Append(rng, n)
  BY DEF Generate, CanWrite
<1>2. rng' \in Seq(Word) /\ Len(rng') <= Depth
  <2>1. rng \in Seq(Word) /\ n \in Word /\ Len(rng) \in Nat /\ Depth \in Nat
    BY TypeFacts DEF IInv
  <2>2. Append(rng, n) \in Seq(Word) /\ Len(Append(rng, n)) = Len(rng) + 1
    BY <2>1, AppendFacts
  <2> QED
    BY <1>1, <2>1, <2>2
<1>3. TypeOK'
  BY <1>1, <1>2 DEF IInv, TypeOK, hostVars, mainVars, Index, Word
<1>4. Phase' /\ Fed' = Fed /\ Stored' = Stored
  BY <1>1 DEF IInv, Phase, Fed, Stored, Kernel, hostVars
<1>5. Balance' /\ Contents'
  BY <1>1, <1>4, DataSame DEF hostVars
<1>6. Copied'
  BY <1>1 DEF IInv, Copied, hostVars
<1>d. Delivered'
  BY <1>1, AppendFacts DEF IInv, Delivered
<1> QED
  BY <1>d, <1>3, <1>4, <1>5, <1>6 DEF IInv


-----------------------------------------------------------------------------
(* The steps of the kernels.                                               *)
LEMMA MemReadStep ==
    ASSUME IInv, MemRead
    PROVE  IInv'
<1>1. /\ UNCHANGED <<hostVars, task, i_write, buffer, rng, output, mainVars>>
      /\ task["mem_read"] = "running" /\ i_read < Size /\ Len(input) < Depth
      /\ input' = Append(input, SourceInput[i_read]) /\ i_read' = i_read + 1
  BY DEF MemRead, CanWrite
<1>2. /\ hpc \in {"launch2", "finish"} /\ hpc' = hpc /\ task' = task /\ i_write' = i_write
      /\ count' = count /\ output' = output /\ mpc' = mpc /\ drawn' = drawn /\ v' = v
      /\ r' = r /\ buffer' = buffer /\ hw_results' = hw_results
  BY <1>1 DEF IInv, TypeOK, Phase, Kernel, hostVars, mainVars
<1>3. /\ Size \in Nat /\ Depth \in Nat /\ i_read \in Nat /\ Len(input) \in Nat
      /\ Len(output) \in Nat /\ input \in Seq(Word) /\ Stored \in Nat /\ HeldElement \in 0 .. 1
  BY TypeFacts DEF IInv
<1>4. i_read \in Index /\ SourceInput[i_read] \in Word
  BY <1>1, <1>3, SourceFacts DEF Index
<1>5. /\ input' \in Seq(Word) /\ Len(input') = Len(input) + 1
      /\ \A j \in 1 .. Len(input) : input'[j] = input[j]
      /\ input'[Len(input) + 1] = SourceInput[i_read]
  BY <1>1, <1>3, <1>4, AppendFacts
<1>6. TypeOK'
  <2>1. Len(input') <= Depth /\ i_read' \in 0 .. Size
    BY <1>1, <1>3, <1>5
  <2> QED
    BY <1>1, <1>5, <2>1 DEF IInv, TypeOK, hostVars, mainVars, Index, Word
<1>7. Phase'
  BY <1>1, <1>2 DEF IInv, Phase, Kernel, hostVars
<1>8. /\ Fed = i_read /\ Fed' = i_read + 1 /\ Stored' = Stored
      /\ Base' = Base /\ HeldElement' = HeldElement /\ HeldNumber' = HeldNumber
  BY <1>1, <1>2 DEF Fed, Stored, Base, HeldElement, HeldNumber
<1>9. Balance'
  <2>1. Fed = Stored + Len(output) + HeldElement + Len(input)
    BY DEF IInv, Balance
  <2>2. Fed' = Stored' + Len(output') + HeldElement' + Len(input')
    BY <1>2, <1>3, <1>5, <1>8, <2>1
  <2>3. Len(drawn') = Base' + Stored' + Len(output') + HeldNumber'
    BY <1>2, <1>8 DEF IInv, Balance
  <2> QED
    BY <2>2, <2>3 DEF Balance
<1>10. Contents'
  <2> DEFINE n == Stored + Len(output) + HeldElement
  <2>1. ASSUME NEW j \in 1 .. Len(input) + 1 PROVE input'[j] = SourceInput[n + j - 1]
    <3>1. CASE j \in 1 .. Len(input)
      BY <1>5, <3>1 DEF IInv, Contents
    <3>2. CASE j = Len(input) + 1
      <4>1. i_read = n + Len(input) /\ n \in Nat
        BY <1>3, <1>8 DEF IInv, Balance
      <4>2. n + j - 1 = i_read
        BY <1>3, <3>2, <4>1
      <4> QED
        BY <1>5, <3>2, <4>2
    <3> QED
      BY <1>3, <3>1, <3>2
  <2>2. SourceInput' = SourceInput /\ \A i : Sum(i)' = Sum(i)
    BY <1>2, <1>8 DEF Sum, SourceInput, Index
  <2>3. \A j \in 1 .. Len(input') :
            input'[j] = SourceInput[Stored' + Len(output') + HeldElement' + j - 1]
    BY <1>2, <1>5, <1>8, <2>1
  <2> QED
    BY <1>2, <1>8, <2>2, <2>3 DEF IInv, Contents, Index
<1>11. Copied'
  BY <1>2 DEF IInv, Copied
<1>d. Delivered'
  BY <1>1 DEF IInv, Delivered
<1> QED
  BY <1>d, <1>6, <1>7, <1>9, <1>10, <1>11 DEF IInv

LEMMA MemWriteStep ==
    ASSUME IInv, MemWrite
    PROVE  IInv'
<1>1. /\ UNCHANGED <<hostVars, task, i_read, input, rng, mainVars>>
      /\ task["mem_write"] = "running" /\ i_write < Size /\ output # <<>>
      /\ buffer' = [buffer EXCEPT ![i_write] = Head(output)]
      /\ output' = Tail(output) /\ i_write' = i_write + 1
  BY DEF MemWrite, CanRead
<1>2. /\ hpc = "finish" /\ hpc' = hpc /\ task' = task /\ i_read' = i_read
      /\ count' = count /\ input' = input /\ mpc' = mpc /\ drawn' = drawn /\ v' = v
      /\ r' = r /\ hw_results' = hw_results
  BY <1>1 DEF IInv, TypeOK, Phase, Kernel, hostVars, mainVars
<1>3. /\ Size \in Nat /\ Depth \in Nat /\ i_write \in Nat /\ Len(input) \in Nat
      /\ Len(output) \in Nat /\ Len(output) <= Depth /\ output \in Seq(Word)
      /\ Base \in Nat /\ HeldElement \in 0 .. 1 /\ HeldNumber \in 0 .. 1
      /\ Fed \in Nat
  BY TypeFacts DEF IInv
<1>4. /\ Head(output) \in Word /\ Head(output) = output[1] /\ output' \in Seq(Word)
      /\ Len(output) \in Nat \ {0} /\ Len(output') = Len(output) - 1
      /\ \A j \in 1 .. Len(output) - 1 : output'[j] = output[j + 1]
  BY <1>1, <1>3, TailFacts
<1>5. i_write \in Index
  BY <1>1, <1>3 DEF Index
<1>6. TypeOK'
  <2>1. Len(output') <= Depth /\ i_write' \in 0 .. Size
    BY <1>1, <1>3, <1>4
  <2>2. buffer' \in [Index -> Word \cup {NoVal}]
    BY <1>1, <1>4, <1>5 DEF IInv, TypeOK
  <2> QED
    BY <1>1, <1>4, <2>1, <2>2 DEF IInv, TypeOK, hostVars, mainVars, Index, Word
<1>7. Phase'
  BY <1>1, <1>2 DEF IInv, Phase, Kernel, hostVars
<1>8. /\ Stored = i_write /\ Stored' = i_write + 1 /\ Fed' = Fed
      /\ Base' = Base /\ HeldElement' = HeldElement /\ HeldNumber' = HeldNumber
  BY <1>1, <1>2 DEF Fed, Stored, Base, HeldElement, HeldNumber
<1>9. Stored' + Len(output') = Stored + Len(output)
  BY <1>3, <1>4, <1>8
<1>10. Balance'
  <2>1. /\ Fed = Stored + Len(output) + HeldElement + Len(input)
        /\ Len(drawn) = Base + Stored + Len(output) + HeldNumber
    BY DEF IInv, Balance
  <2>2. Fed' = Stored' + Len(output') + HeldElement' + Len(input')
    BY <1>2, <1>8, <1>9, <2>1
  <2>3. Base + Stored' + Len(output') = Base + Stored + Len(output)
    BY <1>3, <1>4, <1>8
  <2>4. Len(drawn') = Base' + Stored' + Len(output') + HeldNumber'
    BY <1>2, <1>8, <2>1, <2>3
  <2> QED
    BY <2>2, <2>4 DEF Balance
<1>11. SourceInput' = SourceInput /\ \A i : Sum(i)' = Sum(i)
  BY <1>2, <1>8 DEF Sum, SourceInput, Index
<1>12. Contents'
  <2>1. ASSUME NEW j \in 1 .. Len(output) - 1 PROVE output'[j] = Sum(i_write + 1 + j - 1)
    <3>1. j + 1 \in 1 .. Len(output) /\ i_write + 1 + j - 1 = i_write + (j + 1) - 1
      BY <1>3, <1>4
    <3>2. output[j + 1] = Sum(i_write + (j + 1) - 1)
      BY <1>8, <3>1 DEF IInv, Contents
    <3> QED
      BY <1>4, <3>1, <3>2
  <2>2. ASSUME NEW i \in Index, i < i_write + 1 PROVE buffer'[i] = Sum(i)
    <3>1. CASE i = i_write
      <4>1. output[1] = Sum(i_write + 1 - 1) /\ i_write + 1 - 1 = i_write
        <5>1. 1 \in 1 .. Len(output) /\ i_write + 1 - 1 = i_write
          BY <1>3, <1>4
        <5> QED
          BY <1>8, <5>1 DEF IInv, Contents
      <4>2. buffer'[i_write] = Head(output)
        BY <1>1, <1>5 DEF IInv, TypeOK
      <4> QED
        BY <1>4, <3>1, <4>1, <4>2
    <3>2. CASE i # i_write
      <4>1. i < i_write
        BY <1>3, <2>2, <3>2 DEF Index
      <4>2. buffer'[i] = buffer[i]
        BY <1>1, <3>2 DEF IInv, TypeOK
      <4> QED
        BY <1>8, <4>1, <4>2 DEF IInv, Contents
    <3> QED
      BY <3>1, <3>2
  <2>3. \A j \in 1 .. Len(output') : output'[j] = Sum(Stored' + j - 1)
    BY <1>4, <1>8, <2>1
  <2>4. \A i \in Index : i < Stored' => buffer'[i] = Sum(i)
    BY <1>8, <2>2
  <2>5. /\ \A j \in 1 .. Len(input') :
               input'[j] = SourceInput[Stored' + Len(output') + HeldElement' + j - 1]
        /\ mpc' # "input" => v' = SourceInput[Stored' + Len(output')]
        /\ mpc' = "output" => r' = drawn'[Len(drawn')]
    BY <1>2, <1>8, <1>9 DEF IInv, Contents
  <2> QED
    BY <1>11, <2>3, <2>4, <2>5 DEF Contents, Index
<1>13. Copied'
  BY <1>2 DEF Copied
<1>d. Delivered'
  BY <1>1 DEF IInv, Delivered
<1> QED
  BY <1>d, <1>6, <1>7, <1>10, <1>12, <1>13 DEF IInv


-----------------------------------------------------------------------------
(* The steps of rng_main.                                                  *)
LEMMA MainFacts ==
    ASSUME IInv, UNCHANGED <<hostVars, task, i_read, i_write, buffer>>
    PROVE  /\ Phase' /\ Copied' /\ Fed' = Fed /\ Stored' = Stored /\ Base' = Base
           /\ count' = count /\ buffer' = buffer /\ SourceInput' = SourceInput
           /\ i_read' \in 0 .. Size /\ i_write' \in 0 .. Size
           /\ hpc' \in {"launch", "launch2", "finish", "migrate", "compare", "exit"}
           /\ count' \in 0 .. Launches
           /\ match' \in Seq(BOOLEAN) /\ Len(match') = count'
           /\ task' \in [Kernel -> {"idle", "queued", "running"}]
           /\ buffer' \in [Index -> Word \cup {NoVal}]
           /\ hw_results' \in [Index -> Word]
<1>1. /\ hpc' = hpc /\ count' = count /\ hw_results' = hw_results /\ match' = match
      /\ task' = task /\ i_read' = i_read /\ i_write' = i_write /\ buffer' = buffer
  BY DEF hostVars
<1>2. Phase' /\ Copied'
  BY <1>1 DEF IInv, Phase, Copied, Kernel
<1>3. Fed' = Fed /\ Stored' = Stored /\ Base' = Base /\ SourceInput' = SourceInput
  BY <1>1 DEF Fed, Stored, Base, SourceInput, Index
<1> QED
  BY <1>1, <1>2, <1>3 DEF IInv, TypeOK

LEMMA MainReadInputStep ==
    ASSUME IInv, MainReadInput
    PROVE  IInv'
<1>1. /\ UNCHANGED <<hostVars, task, i_read, i_write, buffer, rng, output, r, drawn>>
      /\ mpc = "input" /\ input # <<>> /\ v' = Head(input) /\ input' = Tail(input)
      /\ mpc' = "rng"
  BY DEF MainReadInput, CanRead
<1>2. rng' = rng /\ output' = output /\ r' = r /\ drawn' = drawn
  BY <1>1
<1>3. /\ Depth \in Nat /\ Len(input) \in Nat /\ Len(input) <= Depth
      /\ Len(output) \in Nat /\ input \in Seq(Word) /\ Stored \in Nat
  BY TypeFacts DEF IInv
<1>4. /\ Head(input) \in Word /\ Head(input) = input[1] /\ input' \in Seq(Word)
      /\ Len(input) \in Nat \ {0} /\ Len(input') = Len(input) - 1
      /\ \A j \in 1 .. Len(input) - 1 : input'[j] = input[j + 1]
  BY <1>1, <1>3, TailFacts
<1>5. TypeOK'
  <2>1. Len(input') <= Depth
    BY <1>3, <1>4
  <2>2. \A link \in {input', rng', output'} : link \in Seq(Word) /\ Len(link) <= Depth
    BY <1>2, <1>4, <2>1 DEF IInv, TypeOK
  <2>3. r' = NoVal /\ drawn' \in Seq(Number)
    BY <1>1, <1>2 DEF IInv, TypeOK
  <2>4. v' \in Word
    BY <1>1, <1>4
  <2> QED
    BY <1>1, <2>2, <2>3, <2>4, MainFacts DEF TypeOK, Index, Word
<1>6. HeldElement = 0 /\ HeldElement' = 1 /\ HeldNumber = 0 /\ HeldNumber' = 0
  BY <1>1 DEF HeldElement, HeldNumber
<1>7. Balance'
  <2>1. /\ Fed = Stored + Len(output) + HeldElement + Len(input)
        /\ Len(drawn) = Base + Stored + Len(output) + HeldNumber
    BY DEF IInv, Balance
  <2>2. Fed = Stored + Len(output) + 1 + (Len(input) - 1)
    BY <1>3, <1>6, <2>1
  <2> QED
    BY <1>1, <1>2, <1>4, <1>6, <2>1, <2>2, MainFacts DEF Balance
<1>8. Contents'
  <2>0. \A i : Sum(i)' = Sum(i)
    BY <1>1, <1>2, MainFacts DEF Sum
  <2>1. ASSUME NEW j \in 1 .. Len(input) - 1
        PROVE  input'[j] = SourceInput[Stored + Len(output) + 1 + j - 1]
    <3>1. j + 1 \in 1 .. Len(input)
      BY <1>3
    <3>2. Stored + Len(output) + 1 + j - 1 = Stored + Len(output) + 0 + (j + 1) - 1
      BY <1>3
    <3>3. input[j + 1] = SourceInput[Stored + Len(output) + 0 + (j + 1) - 1]
      BY <1>6, <3>1 DEF IInv, Contents
    <3> QED
      BY <1>4, <3>2, <3>3
  <2>2. v' = SourceInput[Stored + Len(output)]
    <3>1. 1 \in 1 .. Len(input) /\ Stored + Len(output) + 0 + 1 - 1 = Stored + Len(output)
      BY <1>3, <1>4
    <3>2. input[1] = SourceInput[Stored + Len(output) + 0 + 1 - 1]
      BY <1>6, <3>1 DEF IInv, Contents
    <3> QED
      BY <1>1, <1>4, <3>1, <3>2
  <2>3. Stored' = Stored /\ buffer' = buffer /\ SourceInput' = SourceInput
    BY <1>1, MainFacts
  <2>4. \A j \in 1 .. Len(input') :
            input'[j] = SourceInput[Stored' + Len(output') + HeldElement' + j - 1]
    BY <1>2, <1>4, <1>6, <2>1, <2>3
  <2>5. /\ \A j \in 1 .. Len(output') : output'[j] = Sum(Stored' + j - 1)
        /\ \A i \in Index : i < Stored' => buffer'[i] = Sum(i)
    BY <1>2, <2>3 DEF IInv, Contents
  <2> QED
    BY <1>1, <1>2, <2>0, <2>2, <2>3, <2>4, <2>5 DEF Contents, Index
<1>d. Delivered'
  BY <1>1 DEF IInv, Delivered
<1> QED
  BY <1>d, <1>1, <1>5, <1>7, <1>8, MainFacts DEF IInv

(* A number is drawn: the results that are already computed stay.          *)
LEMMA MainReadRngStep ==
    ASSUME IInv, MainReadRng
    PROVE  IInv'
<1> DEFINE x == Head(rng)
<1>1. /\ UNCHANGED <<hostVars, task, i_read, i_write, buffer, input, output, v>>
      /\ mpc = "rng" /\ rng # <<>> /\ r' = x /\ rng' = Tail(rng)
      /\ drawn' = Append(drawn, x) /\ mpc' = "output"
  BY DEF MainReadRng, CanRead
<1>2. input' = input /\ output' = output /\ v' = v
  BY <1>1
<1>3. /\ Depth \in Nat /\ rng \in Seq(Word) /\ Len(rng) \in Nat /\ Len(rng) <= Depth
      /\ Len(output) \in Nat /\ Stored \in Nat /\ Base \in Nat
      /\ drawn \in Seq(Number) /\ Len(drawn) \in Nat /\ Number \subseteq Word
      /\ rng \in Seq(Number)
  BY TypeFacts DEF IInv, Delivered
<1>4. /\ x \in Number /\ Tail(rng) \in Seq(Number) /\ Len(Tail(rng)) = Len(rng) - 1
      /\ Tail(rng) \in Seq(Word)
  BY <1>1, <1>3, TailFacts
<1>5. /\ Append(drawn, x) \in Seq(Number) /\ Len(Append(drawn, x)) = Len(drawn) + 1
      /\ Append(drawn, x)[Len(drawn) + 1] = x
  BY <1>3, <1>4, AppendFacts
<1> HIDE DEF x
<1>s. Size \in Nat
  BY TypeFacts DEF IInv
<1>6. TypeOK'
  <2>1. Len(rng') <= Depth
    BY <1>1, <1>3, <1>4
  <2>2. \A link \in {input', rng', output'} : link \in Seq(Word) /\ Len(link) <= Depth
    BY <1>1, <1>2, <1>4, <2>1 DEF IInv, TypeOK
  <2>3. v' \in Word /\ r' \in Word
    BY <1>1, <1>2, <1>3, <1>4 DEF IInv, TypeOK
  <2>4. drawn' \in Seq(Number)
    BY <1>1, <1>5
  <2> QED
    BY <1>1, <2>2, <2>3, <2>4, MainFacts DEF TypeOK, Index, Word
<1>7. HeldElement = 1 /\ HeldElement' = 1 /\ HeldNumber = 0 /\ HeldNumber' = 1
  BY <1>1 DEF HeldElement, HeldNumber
<1>8. Len(drawn) = Base + Stored + Len(output) /\ Len(drawn') = Len(drawn) + 1
  <2>1. Len(drawn) = Base + Stored + Len(output) + 0
    BY <1>7 DEF IInv, Balance
  <2> QED
    BY <1>1, <1>3, <1>5, <2>1
<1>9. Balance'
  BY <1>1, <1>2, <1>7, <1>8, MainFacts DEF IInv, Balance
<1>10. ASSUME NEW i \in Index, i < Stored + Len(output)
       PROVE  Sum(i)' = Sum(i)
  <2>1. Base + i + 1 <= Len(drawn)
    BY <1>3, <1>8, <1>10 DEF Index
  <2> QED
    BY <1>1, <1>4, <2>1, SumFacts, MainFacts DEF IInv
<1>11. Stored + Len(output) <= Size
  <2>1. Fed = Stored + Len(output) + 1 + Len(input)
    BY <1>7 DEF IInv, Balance
  <2>2. Fed \in 0 .. Size /\ Len(input) \in Nat
    BY TypeFacts DEF IInv
  <2> QED
    BY <1>3, <1>s, <2>1, <2>2
<1>12. Contents'
  <2>1. Stored' = Stored /\ buffer' = buffer /\ SourceInput' = SourceInput
    BY <1>1, MainFacts
  <2>2. ASSUME NEW j \in 1 .. Len(output) PROVE output[j] = Sum(Stored + j - 1)'
    <3>1. PICK i \in Index : i = Stored + j - 1 /\ i < Stored + Len(output)
      <4> DEFINE l == Len(output)
                 w == Stored
      <4>1. l \in Nat /\ w \in Nat /\ w + l <= Size /\ j \in 1 .. l
        BY <1>3, <1>11
      <4> HIDE DEF l, w
      <4>2. w + j - 1 \in Index /\ w + j - 1 < w + l
        BY <4>1, <1>s DEF Index
      <4> QED
        BY <4>2 DEF l, w
    <3>2. output[j] = Sum(i)
      BY <3>1 DEF IInv, Contents
    <3>3. Sum(i)' = Sum(i)
      BY <1>10, <3>1
    <3>4. Stored' + j - 1 = i
      BY <2>1, <3>1
    <3> QED
      BY <3>2, <3>3, <3>4
  <2>3. ASSUME NEW i \in Index, i < Stored PROVE buffer[i] = Sum(i)'
    <3>1. i < Stored + Len(output)
      BY <1>3, <2>3 DEF Index
    <3> QED
      BY <1>10, <2>3, <3>1 DEF IInv, Contents
  <2>4. r' = drawn'[Len(drawn')]
    BY <1>1, <1>5, <1>8
  <2>5. /\ \A j \in 1 .. Len(input') :
               input'[j] = SourceInput[Stored' + Len(output') + HeldElement' + j - 1]
        /\ mpc' # "input" => v' = SourceInput[Stored' + Len(output')]
    BY <1>1, <1>2, <1>7, <2>1 DEF IInv, Contents
  <2> QED
    BY <1>1, <1>2, <2>1, <2>2, <2>3, <2>4, <2>5 DEF Contents, Index
<1> QED
  BY <1>1, <1>4, <1>6, <1>9, <1>12, MainFacts DEF IInv, Delivered


(* The sum is the result that belongs to the place it is written to.       *)
LEMMA MainWriteStep ==
    ASSUME IInv, MainWrite
    PROVE  IInv'
<1> DEFINE x == (v + r) % Modulus
<1>1. /\ UNCHANGED <<hostVars, task, i_read, i_write, buffer, input, rng, drawn>>
      /\ mpc = "output" /\ Len(output) < Depth /\ output' = Append(output, x)
      /\ mpc' = "input" /\ v' = NoVal /\ r' = NoVal
  BY DEF MainWrite, CanWrite
<1>2. input' = input /\ rng' = rng /\ drawn' = drawn
  BY <1>1
<1>3. /\ Depth \in Nat /\ output \in Seq(Word) /\ Len(output) \in Nat /\ Len(input) \in Nat
      /\ Stored \in Nat /\ Base \in Nat /\ Modulus \in Nat \ {0} /\ Size \in Nat
      /\ Fed \in 0 .. Size
  BY TypeFacts DEF IInv
<1>4. HeldElement = 1 /\ HeldElement' = 0 /\ HeldNumber = 1 /\ HeldNumber' = 0
  BY <1>1 DEF HeldElement, HeldNumber
<1>5. /\ Fed = Stored + Len(output) + 1 + Len(input)
      /\ Len(drawn) = Base + Stored + Len(output) + 1
  BY <1>4 DEF IInv, Balance
<1>6. PICK i \in Index : i = Stored + Len(output) /\ Base + i + 1 = Len(drawn)
  <2> DEFINE l == Len(output)
             w == Stored
             n == Len(input)
             d == Len(drawn)
  <2>1. l \in Nat /\ w \in Nat /\ n \in Nat /\ w + l + 1 + n <= Size /\ d = Base + w + l + 1
    BY <1>3, <1>5
  <2> HIDE DEF l, w, n, d
  <2>2. w + l \in Index /\ Base + (w + l) + 1 = d
    BY <1>3, <2>1 DEF Index
  <2> QED
    BY <2>2 DEF l, w, d
<1>7. x = Sum(i) /\ x \in Word
  <2>1. v = SourceInput[i] /\ r = drawn[Len(drawn)]
    BY <1>1, <1>6 DEF IInv, Contents
  <2>2. x = Sum(i)
    BY <1>6, <2>1 DEF Sum
  <2>3. Len(drawn) \in Nat
    BY TypeFacts DEF IInv
  <2>4. Sum(i) \in Word
    BY <1>6, <2>3, SumFacts DEF IInv
  <2> QED
    BY <2>2, <2>4
<1> HIDE DEF x
<1>8. /\ output' \in Seq(Word) /\ Len(output') = Len(output) + 1
      /\ \A j \in 1 .. Len(output) : output'[j] = output[j]
      /\ output'[Len(output) + 1] = x
  BY <1>1, <1>3, <1>7, AppendFacts
<1>9. TypeOK'
  <2>1. Len(output') <= Depth
    BY <1>1, <1>3, <1>8
  <2>2. \A link \in {input', rng', output'} : link \in Seq(Word) /\ Len(link) <= Depth
    BY <1>2, <1>8, <2>1 DEF IInv, TypeOK
  <2>3. drawn' \in Seq(Number)
    BY <1>2 DEF IInv, TypeOK
  <2> QED
    BY <1>1, <2>2, <2>3, MainFacts DEF TypeOK, Index, Word
<1>10. /\ Stored' = Stored /\ Fed' = Fed /\ Base' = Base /\ buffer' = buffer
       /\ SourceInput' = SourceInput
  BY <1>1, MainFacts
<1>11. Balance'
  <2>1. /\ Fed = Stored + (Len(output) + 1) + 0 + Len(input)
        /\ Len(drawn) = Base + Stored + (Len(output) + 1) + 0
    BY <1>3, <1>5
  <2> QED
    BY <1>2, <1>4, <1>8, <1>10, <2>1 DEF Balance
<1>12. Contents'
  <2>1. \A k : Sum(k)' = Sum(k)
    BY <1>2, <1>10 DEF Sum
  <2>2. ASSUME NEW j \in 1 .. Len(output) + 1 PROVE output'[j] = Sum(Stored + j - 1)
    <3>1. CASE j \in 1 .. Len(output)
      BY <1>8, <3>1 DEF IInv, Contents
    <3>2. CASE j = Len(output) + 1
      <4>1. Stored + j - 1 = i
        BY <1>3, <1>6, <3>2
      <4> QED
        BY <1>7, <1>8, <3>2, <4>1
    <3> QED
      BY <1>3, <3>1, <3>2
  <2>3. ASSUME NEW j \in 1 .. Len(input)
        PROVE  input[j] = SourceInput[Stored + (Len(output) + 1) + 0 + j - 1]
    <3>1. input[j] = SourceInput[Stored + Len(output) + 1 + j - 1]
      BY <1>4 DEF IInv, Contents
    <3>2. Stored + Len(output) + 1 + j - 1 = Stored + (Len(output) + 1) + 0 + j - 1
      BY <1>3
    <3> QED
      BY <3>1, <3>2
  <2>4. /\ \A j \in 1 .. Len(input') :
               input'[j] = SourceInput[Stored' + Len(output') + HeldElement' + j - 1]
        /\ \A j \in 1 .. Len(output') : output'[j] = Sum(Stored' + j - 1)
    BY <1>2, <1>4, <1>8, <1>10, <2>2, <2>3
  <2>5. \A k \in Index : k < Stored' => buffer'[k] = Sum(k)
    BY <1>10 DEF IInv, Contents
  <2> QED
    BY <1>1, <1>10, <2>1, <2>4, <2>5 DEF Contents, Index
<1> QED
  BY <1>1, <1>2, <1>9, <1>11, <1>12, MainFacts DEF IInv, Delivered

-----------------------------------------------------------------------------
LEMMA InitIInv == Init => IInv
<1> SUFFICES ASSUME Init PROVE IInv
  OBVIOUS
<1>1. /\ hpc = "launch" /\ count = 0 /\ match = <<>> /\ i_read = 0 /\ i_write = 0
      /\ hw_results = [i \in Index |-> 0] /\ task = [k \in Kernel |-> "idle"]
      /\ buffer = [i \in Index |-> NoVal]
      /\ input = <<>> /\ rng = <<>> /\ output = <<>> /\ drawn = <<>>
      /\ mpc = "input" /\ v = NoVal /\ r = NoVal
  BY DEF Init
<1>2. Size \in Nat \ {0} /\ Launches \in Nat \ {0} /\ Depth \in Nat \ {0} /\ 0 \in Word
  BY SizeAssumption DEF Word
<1>3. \A S : <<>> \in Seq(S) /\ Len(<<>>) = 0
  OBVIOUS
<1>4. TypeOK
  <2>1. \A link \in {input, rng, output} : link \in Seq(Word) /\ Len(link) <= Depth
    <3>1. <<>> \in Seq(Word) /\ Len(<<>>) <= Depth
      BY <1>2, <1>3
    <3> QED
      BY <1>1, <3>1
  <2>2. match \in Seq(BOOLEAN) /\ Len(match) = count /\ drawn \in Seq(Number)
    BY <1>1, <1>3
  <2>3. count \in 0 .. Launches /\ i_read \in 0 .. Size /\ i_write \in 0 .. Size
    BY <1>1, <1>2
  <2> QED
    BY <1>1, <1>2, <2>1, <2>2, <2>3 DEF TypeOK
<1>5. Phase /\ Copied /\ Delivered
  BY <1>1, <1>2, <1>3 DEF Phase, Copied, Delivered
<1>6. Fed = 0 /\ Stored = 0 /\ HeldElement = 0 /\ HeldNumber = 0 /\ Base = 0
  BY <1>1, <1>2 DEF Fed, Stored, HeldElement, HeldNumber, Base
<1>7. Balance
  BY <1>1, <1>3, <1>6 DEF Balance
<1>8. Contents
  BY <1>1, <1>6 DEF Contents, Index
<1> QED
  BY <1>4, <1>5, <1>7, <1>8 DEF IInv

LEMMA NextIInv == IInv /\ [Next]_vars => IInv'
<1> SUFFICES ASSUME IInv, [Next]_vars PROVE IInv'
  OBVIOUS
<1>1. CASE Host
  BY <1>1, LaunchStep, FinishStep, MigrateStep, CompareStep DEF Host
<1>2. CASE \E k \in Kernel : Start(k) \/ Complete(k)
  BY <1>2, TaskStep
<1>3. CASE MemRead \/ MemWrite
  BY <1>3, MemReadStep, MemWriteStep
<1>4. CASE \E n \in Number : Generate(n)
  BY <1>4, GenerateStep
<1>5. CASE MainKernel
  BY <1>5, MainReadInputStep, MainReadRngStep, MainWriteStep DEF MainKernel
<1>6. CASE Exited \/ UNCHANGED vars
  <2>1. UNCHANGED <<hostVars, task, i_read, i_write, buffer, input, rng, output, mainVars>>
    BY <1>6 DEF Exited, vars
  <2>2. Fed' = Fed /\ Stored' = Stored
    BY <2>1 DEF Fed, Stored, hostVars
  <2>3. Balance' /\ Contents'
    BY <2>1, <2>2, DataSame DEF hostVars
  <2>4. Phase' /\ Copied' /\ Delivered'
    BY <2>1, MainFacts DEF IInv, Delivered
  <2>5. TypeOK'
    BY <2>1 DEF IInv, TypeOK, hostVars, mainVars, Index, Word
  <2> QED
    BY <2>3, <2>4, <2>5 DEF IInv
<1> QED
  BY <1>1, <1>2, <1>3, <1>4, <1>5, <1>6 DEF Next

LEMMA Inside == IInv => TypeOK /\ ResultsExact /\ QuietBetweenLaunches
<1> SUFFICES ASSUME IInv PROVE TypeOK /\ ResultsExact /\ QuietBetweenLaunches
  OBVIOUS
<1>1. Size \in Nat /\ Len(output) \in Nat /\ Len(input) \in Nat /\ Base \in Nat
  BY TypeFacts DEF IInv
<1>2. ResultsExact
  <2> SUFFICES ASSUME hpc = "compare", NEW i \in Index PROVE hw_results[i] = Sum(i)
    BY DEF ResultsExact, Sum, Base
  <2>1. Stored = Size /\ i < Stored
    <3>1. i_write = Size /\ task["mem_write"] = "idle"
      BY DEF IInv, Phase, Kernel
    <3> QED
      BY <1>1, <3>1 DEF Stored, Index
  <2> QED
    BY <2>1 DEF IInv, Contents, Copied
<1>3. QuietBetweenLaunches
  <2> SUFFICES ASSUME hpc \in {"launch", "exit"}
               PROVE  input = <<>> /\ output = <<>> /\ mpc = "input" /\ Len(drawn) = Base
    BY DEF QuietBetweenLaunches, Base
  <2>1. Fed = 0 /\ Stored = 0
    BY DEF Fed, Stored
  <2>2. HeldElement \in 0 .. 1 /\ 0 = 0 + Len(output) + HeldElement + Len(input)
    BY <2>1, TypeFacts DEF IInv, Balance
  <2>3. Len(output) = 0 /\ Len(input) = 0 /\ HeldElement = 0
    BY <1>1, <2>2
  <2>4. mpc = "input"
    BY <2>3 DEF HeldElement
  <2>5. HeldNumber = 0
    BY <2>4 DEF HeldNumber
  <2>6. Len(drawn) = Base
    BY <1>1, <2>1, <2>3, <2>5 DEF IInv, Balance
  <2>7. input = <<>> /\ output = <<>>
    BY <2>3, TypeFacts, EmptySeq DEF IInv
  <2> QED
    BY <2>4, <2>6, <2>7
<1> QED
  BY <1>2, <1>3 DEF IInv

LEMMA Invariance == Spec => []IInv
  BY InitIInv, NextIInv, PTL DEF Spec

(* Every variable keeps to its range: no link overflows, no task leaves    *)
(* its loop bounds, and every result that is copied back is a word         *)
(* (host.cpp, mem_read, rng_main, mem_write).                              *)
THEOREM TypeCorrect == Spec => []TypeOK
<1>1. IInv => TypeOK
  BY Inside
<1> QED
  BY <1>1, Invariance, PTL

(* The host compares the inputs plus consecutive numbers, whatever the two *)
(* tasks and the units interleave to and however long a launch is          *)
(* (host.cpp, loop over count).                                            *)
THEOREM HostResults == Spec => []ResultsExact
<1>1. IInv => ResultsExact
  BY Inside
<1> QED
  BY <1>1, Invariance, PTL

(* A launch leaves nothing behind for the next: no element in a link, no   *)
(* number drawn ahead (mem_read and mem_write agree on the size).          *)
THEOREM LaunchesSeparate == Spec => []QuietBetweenLaunches
<1>1. IInv => QuietBetweenLaunches
  BY Inside
<1> QED
  BY <1>1, Invariance, PTL

-----------------------------------------------------------------------------
(* The code generator.  Its inductive invariant says where the program is, *)
(* what the lists of the first pass hold - with the interfaces in order -  *)
(* and that code has been written for the markers behind the line at hand  *)
(* only, for each of them once: that is why the numbers of an output stay  *)
(* apart while the counters go on.                                         *)

(* The types of what is registered and written.                            *)
Entries == [arg : STRING, ln : Nat, obj : Nat \X Nat]
Interfaces == [arg : STRING, mask : SUBSET {"arg", "attr", "instance"},
               input : Entries, attr : Entries, instance : Seq(Entries)]
Defs == [arg : STRING, type : Definitions, mem_chn : Nat]
Regions == {"USER_APPLY_CODE_START", "USER_APPLY_CODE_END"}
IsMap(f, D, S) == DOMAIN f \subseteq D /\ f \in [DOMAIN f -> S]
Record(kernel, mem, mk, defs, marker, region) ==
    [kernel |-> kernel, mem |-> mem, mk |-> mk, defs |-> defs, marker |-> marker,
     region |-> region]
RegistryOK ==
    /\ reg = Record(reg.kernel, reg.mem, reg.mk, reg.defs, reg.marker, reg.region)
    /\ reg.kernel \in Seq(Entries) /\ reg.mem \in Seq(Interfaces) /\ reg.mk \in Seq(Entries)
    /\ reg.defs \in Seq(Defs)
    /\ IsMap(reg.marker, Range(Markers), Nat)
    /\ IsMap(reg.region, Regions, [ln : Nat, file : Nat])
Copies == [line : Nat \X Nat, number : Int]
RoleNames == {"own", "new"}
Codes == [code : Range(Markers), arg : STRING, role : RoleNames, number : Int]
Texts == Copies \cup Codes

(* e was registered at the line at hand or before it.                      *)
UpTo(e) == \/ e.obj[1] < file
           \/ e.obj[1] = file /\ e.obj[2] <= ln

ArgsDiffer(list) == \A n, k \in DOMAIN list : list[n].arg = list[k].arg => n = k

(* What is registered is in one of the files.                              *)
Places ==
    /\ \A n \in DOMAIN reg.kernel : reg.kernel[n].obj[1] \in DOMAIN files
    /\ \A n \in DOMAIN reg.mk : reg.mk[n].obj[1] \in DOMAIN files
    /\ \A k \in DOMAIN reg.region : /\ reg.region[k].file \in DOMAIN files
                                    /\ reg.region[k].ln \in 2 .. Len(files[reg.region[k].file])
    /\ InLines(reg.kernel) /\ InLines(reg.mk)

(* What is known of a memory interface.                                    *)
InOrder(m) ==
    /\ phase = "input" => UpTo(m.input) /\ ("attr" \in m.mask => UpTo(m.attr))
    /\ "attr" \in m.mask => Earlier(m.input, m.attr) /\ m.attr.ln = m.attr.obj[2]
    /\ \A k \in DOMAIN m.instance : "attr" \in m.mask /\ Earlier(m.attr, m.instance[k])

InterfacesInOrder ==
    /\ ArgsDiffer(reg.mem)
    /\ \A n \in DOMAIN reg.mem : InOrder(reg.mem[n])

(* Code is written at the line of its marker, once.                        *)
WrittenOnce ==
    phase = "output" =>
        \A u \in DOMAIN outputs : \A a \in DOMAIN outputs[u] :
            LET t == outputs[u][a]
            IN "code" \in DOMAIN t => t.code \in DOMAIN reg.marker /\ reg.marker[t.code] <= ln

(* Where the program is.                                                   *)
Position ==
    /\ files \in Inputs
    /\ phase \in {"input", "output", "done", "failed"}
    /\ file \in DOMAIN files /\ ln \in 1 .. Len(files[file]) + 1
    /\ phase = "output" => file = 1

Written ==
    /\ DOMAIN outputs \in {{}, {1}, Unit}
    /\ outputs \in [DOMAIN outputs -> Seq(Texts)]
    /\ counter \in [gmem : Nat, mem_id : Nat]
    /\ WrittenOnce /\ NumbersDistinct

RegisteredInv == 
    /\ RegistryOK /\ Places
    /\ InterfacesInOrder /\ ArgsDiffer(reg.defs)

GeneratorInv == Position /\ RegisteredInv /\ Written

(* f is the first k of the sequences s, one behind the other: at says of   *)
(* every element in which of them it is, and where.                        *)
Located(f, s, k, at) ==
    /\ at \in [DOMAIN f -> (1 .. k) \X Nat]
    /\ \A a \in DOMAIN f : /\ at[a][2] \in DOMAIN s[at[a][1]]
                           /\ f[a] = s[at[a][1]][at[a][2]]
    /\ \A a, b \in DOMAIN f : at[a] = at[b] => a = b

(* One more of them.                                                       *)
LEMMA LocatedNext ==
    ASSUME NEW T, NEW s, NEW k \in Nat, s[k + 1] \in Seq(T), NEW f \in Seq(T),
           NEW at, Located(f, s, k, at)
    PROVE  \E new : Located(f \o s[k + 1], s, k + 1, new)
<1> DEFINE m == Len(f)
           t == s[k + 1]
           e == f \o t
           new == [a \in DOMAIN e |-> IF a <= m THEN at[a] ELSE <<k + 1, a - m>>]
<1>1. /\ m \in Nat /\ DOMAIN f = 1 .. m /\ t \in Seq(T) /\ Len(t) \in Nat /\ DOMAIN t = 1 .. Len(t)
      /\ e \in Seq(T) /\ DOMAIN e = 1 .. m + Len(t)
      /\ \A a \in 1 .. m : e[a] = f[a]
      /\ \A a \in m + 1 .. m + Len(t) : e[a] = t[a - m]
  <2>1. t \in Seq(T)
    OBVIOUS
  <2> QED
    BY <2>1, ConcatFacts
<1>2. \A a \in DOMAIN e : new[a] = IF a <= m THEN at[a] ELSE <<k + 1, a - m>>
  OBVIOUS
<1>3. DOMAIN new = DOMAIN e
  OBVIOUS
<1> DEFINE dom == DOMAIN e
<1>4. ASSUME NEW a \in dom
      PROVE  \/ a \in 1 .. m /\ a <= m /\ new[a] = at[a] /\ e[a] = f[a]
             \/ /\ ~(a <= m) /\ a \in m + 1 .. m + Len(t) /\ a - m \in 1 .. Len(t)
                /\ new[a] = <<k + 1, a - m>> /\ e[a] = t[a - m]
  BY <1>1, <1>2
<1>5. \A a \in 1 .. m : /\ at[a] \in (1 .. k) \X Nat
                        /\ at[a][2] \in DOMAIN s[at[a][1]] /\ f[a] = s[at[a][1]][at[a][2]]
  BY <1>1 DEF Located
<1>6. \A a, b \in 1 .. m : at[a] = at[b] => a = b
  BY <1>1 DEF Located
<1> HIDE DEF new, e, m
<1>7. new \in [DOMAIN e -> (1 .. k + 1) \X Nat]
  <2>1. ASSUME NEW a \in dom PROVE new[a] \in (1 .. k + 1) \X Nat
    <3>1. CASE a \in 1 .. m /\ new[a] = at[a]
      <4>1. at[a] \in (1 .. k) \X Nat /\ 1 .. k \subseteq 1 .. k + 1
        BY <1>5, <3>1
      <4> QED
        BY <3>1, <4>1
    <3>2. CASE a - m \in 1 .. Len(t) /\ new[a] = <<k + 1, a - m>>
      <4>1. a - m \in Nat /\ k + 1 \in 1 .. k + 1
        BY <1>1, <3>2
      <4> QED
        BY <3>2, <4>1
    <3> QED
      BY <1>4, <3>1, <3>2
  <2>2. new = [a \in dom |-> new[a]]
    BY DEF new
  <2> QED
    BY <2>1, <2>2
<1>8. ASSUME NEW a \in dom
      PROVE  new[a][2] \in DOMAIN s[new[a][1]] /\ e[a] = s[new[a][1]][new[a][2]]
  <2>1. CASE a \in 1 .. m /\ new[a] = at[a] /\ e[a] = f[a]
    BY <1>5, <2>1
  <2>2. CASE a - m \in 1 .. Len(t) /\ new[a] = <<k + 1, a - m>> /\ e[a] = t[a - m]
    <3>1. new[a][1] = k + 1 /\ new[a][2] = a - m
      BY <2>2
    <3> QED
      BY <1>1, <2>2, <3>1
  <2> QED
    BY <1>4, <2>1, <2>2
<1>9. ASSUME NEW a \in dom, NEW b \in dom, new[a] = new[b] PROVE a = b
  <2>1. CASE a \in 1 .. m /\ b \in 1 .. m /\ new[a] = at[a] /\ new[b] = at[b]
    BY <1>6, <1>9, <2>1
  <2>2. CASE /\ a \in m + 1 .. m + Len(t) /\ b \in m + 1 .. m + Len(t)
             /\ new[a] = <<k + 1, a - m>> /\ new[b] = <<k + 1, b - m>>
    <3>1. new[a][2] = a - m /\ new[b][2] = b - m
      BY <2>2
    <3>2. a - m = b - m
      BY <1>9, <3>1
    <3> QED
      BY <1>1, <2>2, <3>2
  <2>3. ASSUME NEW c \in 1 .. m, NEW d, at[c] = <<k + 1, d>> PROVE FALSE
    <3>1. at[c][1] \in 1 .. k
      BY <1>5
    <3>2. at[c][1] = k + 1
      BY <2>3
    <3> QED
      BY <3>1, <3>2
  <2> QED
    BY <1>4, <1>9, <2>1, <2>2, <2>3
<1>10. Located(e, s, k + 1, new)
  BY <1>7, <1>8, <1>9 DEF Located
<1> QED
  BY <1>10 DEF e

(* FlattenSeq puts the sequences one behind the other.                     *)
LEMMA FlattenFacts ==
    ASSUME NEW T, NEW s \in Seq(Seq(T))
    PROVE  /\ FlattenSeq(s) \in Seq(T)
           /\ \E at : Located(FlattenSeq(s), s, Len(s), at)
<1> DEFINE N == Len(s)
           next == [k \in Nat |-> [x \in Seq(T) |-> IF k < N THEN x \o s[k + 1] ELSE x]]
<1>1. N \in Nat /\ DOMAIN s = 1 .. N /\ \A k \in 1 .. N : s[k] \in Seq(T)
  OBVIOUS
<1> HIDE DEF N
<1>2. next \in [Nat -> [Seq(T) -> Seq(T)]]
  <2>1. ASSUME NEW k \in Nat, NEW x \in Seq(T), k < N PROVE x \o s[k + 1] \in Seq(T)
    <3>1. s[k + 1] \in Seq(T)
      BY <1>1, <2>1
    <3> QED
      BY <3>1
  <2> QED
    BY <2>1
<1>3. \A k \in Nat, x \in Seq(T) : next[k][x] = IF k < N THEN x \o s[k + 1] ELSE x
  OBVIOUS
<1>4. <<>> \in Seq(T)
  OBVIOUS
<1> HIDE DEF next
<1>5. PICK g : Iterates(g, Seq(T), <<>>, next)
  BY <1>2, <1>4, IterationExists
<1>6. /\ g \in [Nat -> Seq(T)] /\ g[0] = <<>>
      /\ \A k \in Nat : k < N => g[k + 1] = g[k] \o s[k + 1]
  <2>1. g \in [Nat -> Seq(T)] /\ g[0] = <<>> /\ \A k \in Nat : g[k + 1] = next[k][g[k]]
    BY <1>5 DEF Iterates
  <2> QED
    BY <1>3, <2>1
<1> DEFINE S == {k \in Nat : k <= N => \E at : Located(g[k], s, k, at)}
<1>7. \A k \in Nat : k \in S
  <2>1. 0 \in S
    <3> DEFINE none == [a \in {} |-> <<1, 1>>]
    <3>1. DOMAIN <<>> = {}
      OBVIOUS
    <3>2. none \in [{} -> (1 .. 0) \X Nat]
      OBVIOUS
    <3> HIDE DEF none
    <3>3. Located(<<>>, s, 0, none)
      BY <3>1, <3>2 DEF Located
    <3> QED
      BY <1>6, <3>3
  <2>2. ASSUME NEW k \in S PROVE k + 1 \in S
    <3>1. k \in Nat /\ k + 1 \in Nat
      OBVIOUS
    <3>2. ASSUME k + 1 <= N PROVE \E at : Located(g[k + 1], s, k + 1, at)
      <4>1. k < N /\ k <= N /\ s[k + 1] \in Seq(T) /\ g[k] \in Seq(T)
        BY <1>1, <1>6, <3>1, <3>2
      <4>2. PICK at : Located(g[k], s, k, at)
        BY <4>1
      <4>3. g[k + 1] = g[k] \o s[k + 1]
        BY <1>6, <3>1, <4>1
      <4>4. \E new : Located(g[k] \o s[k + 1], s, k + 1, new)
        <5> HIDE DEF S
        <5> QED
          BY <3>1, <4>1, <4>2, LocatedNext
      <4> QED
        BY <4>3, <4>4
    <3> QED
      BY <3>1, <3>2
  <2>3. S \in SUBSET Nat
    OBVIOUS
  <2> HIDE DEF S
  <2> QED
    BY <2>1, <2>2, <2>3, Induction
<1>8. FlattenSeq(s) = g[N]
  <2>1. CASE N = 0
    <3>1. s = <<>> /\ Len(s) = 0
      BY <2>1 DEF N
    <3>2. FlattenSeq(s) = s
      BY <3>1 DEF FlattenSeq
    <3> QED
      BY <1>6, <2>1, <3>1, <3>2
  <2>2. CASE N # 0
    <3> DEFINE Parts(f) == [i \in 1 .. N |-> IF i = 1 THEN s[i] ELSE f[i - 1] \o s[i]]
               flatten == CHOOSE f : f = Parts(f)
               h == [i \in 1 .. N |-> g[i]]
    <3>1. FlattenSeq(s) = flatten[N]
      BY <2>2 DEF FlattenSeq, N
    <3>2. h = Parts(h)
      <4>1. ASSUME NEW i \in 1 .. N PROVE h[i] = IF i = 1 THEN s[i] ELSE h[i - 1] \o s[i]
        <5>1. h[i] = g[i] /\ i \in Nat /\ i - 1 \in Nat /\ i - 1 < N /\ (i - 1) + 1 = i
          BY <1>1
        <5>2. g[i] = g[i - 1] \o s[i]
          BY <1>6, <5>1
        <5>3. CASE i = 1
          <6>1. g[i - 1] = <<>> /\ s[i] \in Seq(T)
            BY <1>1, <1>6, <5>3
          <6>2. <<>> \o s[i] = s[i]
            BY <6>1
          <6> QED
            BY <5>1, <5>2, <5>3, <6>1, <6>2
        <5>4. CASE i # 1
          <6>1. h[i - 1] = g[i - 1]
            BY <1>1, <5>4
          <6> QED
            BY <5>1, <5>2, <5>4, <6>1
        <5> QED
          BY <5>3, <5>4
      <4> HIDE DEF h
      <4>2. h = [i \in 1 .. N |-> h[i]]
        BY DEF h
      <4> QED
        BY <4>1, <4>2
    <3> HIDE DEF h
    <3>3. flatten = Parts(flatten)
      BY <3>2
    <3> HIDE DEF flatten
    <3>4. \A i \in 1 .. N : flatten[i] = IF i = 1 THEN s[i] ELSE flatten[i - 1] \o s[i]
      BY <3>3
    <3> DEFINE E == {k \in Nat : k + 1 <= N => flatten[k + 1] = g[k + 1]}
    <3>5. 0 \in E
      <4>1. 1 \in 1 .. N /\ 0 \in Nat /\ 0 < N /\ 0 + 1 = 1
        BY <1>1, <2>2
      <4>2. flatten[1] = s[1] /\ g[1] = g[0] \o s[1] /\ s[1] \in Seq(T)
        BY <1>1, <1>6, <3>4, <4>1
      <4>3. <<>> \o s[1] = s[1]
        BY <4>2
      <4>4. flatten[0 + 1] = g[0 + 1]
        BY <1>6, <4>1, <4>2, <4>3
      <4> QED
        BY <4>4
    <3>6. ASSUME NEW k \in E PROVE k + 1 \in E
      <4>1. k \in Nat /\ k + 1 \in Nat /\ (k + 1) + 1 # 1 /\ ((k + 1) + 1) - 1 = k + 1
        OBVIOUS
      <4>2. ASSUME (k + 1) + 1 <= N PROVE flatten[(k + 1) + 1] = g[(k + 1) + 1]
        <5>1. (k + 1) + 1 \in 1 .. N /\ k + 1 < N /\ k + 1 <= N
          BY <1>1, <4>1, <4>2
        <5>2. flatten[(k + 1) + 1] = flatten[k + 1] \o s[(k + 1) + 1]
          BY <3>4, <4>1, <5>1
        <5>3. g[(k + 1) + 1] = g[k + 1] \o s[(k + 1) + 1]
          BY <1>6, <4>1, <5>1
        <5>4. flatten[k + 1] = g[k + 1]
          BY <5>1
        <5> QED
          BY <5>2, <5>3, <5>4
      <4> QED
        BY <4>1, <4>2
    <3>7. E \in SUBSET Nat
      OBVIOUS
    <3>8. \A k \in Nat : k \in E
      <4> HIDE DEF E
      <4> QED
        BY <3>5, <3>6, <3>7, Induction
    <3>9. N - 1 \in Nat /\ (N - 1) + 1 = N
      BY <1>1, <2>2
    <3>10. flatten[N] = g[N]
      BY <3>8, <3>9
    <3> QED
      BY <3>1, <3>10
  <2> QED
    BY <2>1, <2>2
<1>9. \E at : Located(g[N], s, N, at)
  BY <1>1, <1>7
<1>10. g[N] \in Seq(T)
  BY <1>1, <1>6
<1> QED
  BY <1>8, <1>9, <1>10 DEF N

(* The files of a run.                                                     *)
LEMMA FileFacts ==
    ASSUME files \in Inputs
    PROVE  /\ files \in Seq(Seq([kw : STRING, arg : STRING]))
           /\ DOMAIN files = 1 .. Len(files) /\ Len(files) \in Nat /\ 1 \in DOMAIN files
           /\ \A f \in DOMAIN files : /\ Len(files[f]) \in Nat
                                      /\ DOMAIN files[f] = 1 .. Len(files[f])
                                      /\ \A n \in DOMAIN files[f] :
                                            files[f][n] \in [kw : STRING, arg : STRING]
<1> DEFINE Line == [kw : STRING, arg : STRING]
<1>1. files # <<>> /\ files \in Seq(Seq(Line))
  BY InputAssumption
<1> HIDE DEF Line
<1>2. DOMAIN files = 1 .. Len(files) /\ Len(files) \in Nat /\ 1 \in DOMAIN files
  BY <1>1
<1>3. ASSUME NEW f \in DOMAIN files
      PROVE  /\ Len(files[f]) \in Nat /\ DOMAIN files[f] = 1 .. Len(files[f])
             /\ \A n \in DOMAIN files[f] : files[f][n] \in Line
  <2>1. files[f] \in Seq(Line)
    BY <1>1, <1>2
  <2> QED
    BY <2>1
<1> QED
  BY <1>1, <1>2, <1>3 DEF Line

(* The line at hand in the first pass, and its object.                     *)
LEMMA LineFacts ==
    ASSUME Position, Scanning
    PROVE  /\ file \in Nat /\ ln \in Nat /\ ln + 1 \in 2 .. Len(files[file])
           /\ phase = "input" /\ line.arg \in STRING
           /\ Entry \in Entries /\ Entry.arg = line.arg /\ Entry.ln = ln + 1
           /\ Entry.obj = <<file, ln + 1>> /\ Entry.obj[1] = file /\ Entry.obj[2] = ln + 1
<1>1. /\ file \in DOMAIN files /\ file \in Nat /\ ln \in Nat /\ ln >= 1
      /\ ln < Len(files[file]) /\ Len(files[file]) \in Nat
      /\ DOMAIN files[file] = 1 .. Len(files[file])
      /\ phase = "input"
  BY FileFacts DEF Position, Scanning
<1>2. ln \in DOMAIN files[file]
  BY <1>1
<1>3. line \in [kw : STRING, arg : STRING]
  BY <1>1, <1>2, FileFacts DEF Position, line
<1>4. line.arg \in STRING
  BY <1>3
<1>5. <<file, ln + 1>> \in Nat \X Nat /\ ln + 1 \in Nat
  BY <1>1
<1> QED
  BY <1>1, <1>4, <1>5 DEF Entry, Object, Entries

(* The next line, of the same file; nothing has been written yet.          *)
LEMMA NextLineFacts ==
    ASSUME Position, Written, Scanning, NextLine
    PROVE  Position' /\ Written' /\ files' = files /\ phase' = "input" /\ file' = file /\ ln' = ln + 1
<1>1. /\ files' = files /\ phase' = phase /\ file' = file /\ counter' = counter
      /\ outputs' = outputs /\ ln' = ln + 1
  BY DEF NextLine
<1>2. phase' = "input"
  BY <1>1 DEF Scanning
<1>3. ln' \in 1 .. Len(files'[file']) + 1
  BY <1>1, LineFacts DEF Position
<1>4. Position'
  BY <1>1, <1>2, <1>3 DEF Position
<1>5. Written'
  BY <1>1, <1>2 DEF Written, WrittenOnce, NumbersDistinct
<1> QED
  BY <1>1, <1>2, <1>4, <1>5

(* A record is what its fields are.                                        *)
LEMMA RecordFields ==
    ASSUME NEW kernel, NEW mem, NEW mk, NEW defs, NEW marker, NEW region
    PROVE  LET z == Record(kernel, mem, mk, defs, marker, region)
           IN /\ z.kernel = kernel /\ z.mem = mem /\ z.mk = mk /\ z.defs = defs
              /\ z.marker = marker /\ z.region = region
BY DEF Record

(* An entry more in a list.                                                *)
LEMMA InLinesAppend ==
    ASSUME Position, Scanning, NEW list \in Seq(Entries), InLines(list),
           \A n \in DOMAIN list : list[n].obj[1] \in DOMAIN files
    PROVE  /\ Append(list, Entry) \in Seq(Entries) /\ InLines(Append(list, Entry))
           /\ \A n \in DOMAIN Append(list, Entry) : Append(list, Entry)[n].obj[1] \in DOMAIN files
<1> DEFINE e == Entry
           new == Append(list, e)
<1>1. e \in Entries /\ e.ln \in 2 .. Len(files[e.obj[1]]) /\ e.obj[1] \in DOMAIN files
  BY LineFacts DEF Position
<1> HIDE DEF e
<1>2. /\ new \in Seq(Entries)
      /\ \A n \in DOMAIN new : (n \in DOMAIN list /\ new[n] = list[n]) \/ new[n] = e
  BY <1>1
<1> HIDE DEF new
<1>3. InLines(new)
  BY <1>1, <1>2 DEF InLines
<1>4. \A n \in DOMAIN new : new[n].obj[1] \in DOMAIN files
  BY <1>1, <1>2
<1> QED
  BY <1>2, <1>3, <1>4 DEF e, new

(* What is registered is known at the next line.                           *)
LEMMA InOrderNext ==
    ASSUME Position, Written, Scanning, NextLine, NEW m \in Interfaces, InOrder(m)
    PROVE  InOrder(m)'
<1>1. file' = file /\ ln' = ln + 1 /\ phase' = "input" /\ phase = "input" /\ file \in Nat /\ ln \in Nat
  BY NextLineFacts, LineFacts
<1>2. ASSUME NEW e \in Entries, UpTo(e) PROVE UpTo(e)'
  <2>1. e.obj[1] \in Nat /\ e.obj[2] \in Nat
    BY DEF Entries
  <2> QED
    BY <1>1, <1>2, <2>1 DEF UpTo
<1>3. m.input \in Entries /\ m.attr \in Entries
  BY DEF Interfaces
<1> QED
  BY <1>1, <1>2, <1>3 DEF InOrder, Earlier

(* A line at which no memory interface is registered.                      *)
LEMMA InterfacesNext ==
    ASSUME GeneratorInv, Scanning, NextLine, reg'.mem = reg.mem
    PROVE  InterfacesInOrder'
<1>1. Position /\ Written /\ InterfacesInOrder /\ reg.mem \in Seq(Interfaces)
  BY DEF GeneratorInv, RegisteredInv, RegistryOK
<1>2. ASSUME NEW n \in DOMAIN reg.mem PROVE InOrder(reg.mem[n])'
  <2>1. PICK m : m = reg.mem[n]
    OBVIOUS
  <2>2. m \in Interfaces /\ InOrder(m)
    BY <1>1, <2>1 DEF InterfacesInOrder
  <2>3. InOrder(m)'
    BY <1>1, <2>2, InOrderNext
  <2>4. (reg.mem[n])' = m
    BY <2>1
  <2> QED
    BY <2>3, <2>4 DEF InOrder, UpTo, Earlier
<1>3. ArgsDiffer(reg.mem)'
  BY <1>1 DEF InterfacesInOrder, ArgsDiffer
<1> QED
  BY <1>2, <1>3 DEF InterfacesInOrder

(* A line at which nothing is registered.                                  *)
LEMMA SkipStep == ASSUME GeneratorInv, SkipLine PROVE GeneratorInv'
<1>1. Position /\ Written /\ Scanning /\ NextLine /\ RegisteredInv
  BY DEF GeneratorInv, SkipLine
<1>2. Position' /\ Written' /\ files' = files /\ reg' = reg
  BY <1>1, NextLineFacts DEF SkipLine
<1>3. InterfacesInOrder'
  BY <1>1, <1>2, InterfacesNext
<1>4. RegistryOK' /\ Places' /\ ArgsDiffer(reg.defs)'
  BY <1>1, <1>2 DEF RegisteredInv, RegistryOK, Places, InLines, ArgsDiffer
<1> QED
  BY <1>2, <1>3, <1>4 DEF GeneratorInv, RegisteredInv

(* What the actions that register one thing change.                        *)
LEMMA Changed ==
    ASSUME RegistryOK, NEW new
    PROVE  /\ reg' = [reg EXCEPT !.kernel = new] =>
                 reg' = Record(new, reg.mem, reg.mk, reg.defs, reg.marker, reg.region)
           /\ reg' = [reg EXCEPT !.mem = new] =>
                 reg' = Record(reg.kernel, new, reg.mk, reg.defs, reg.marker, reg.region)
           /\ reg' = [reg EXCEPT !.mk = new] =>
                 reg' = Record(reg.kernel, reg.mem, new, reg.defs, reg.marker, reg.region)
           /\ reg' = [reg EXCEPT !.defs = new] =>
                 reg' = Record(reg.kernel, reg.mem, reg.mk, new, reg.marker, reg.region)
           /\ reg' = [reg EXCEPT !.marker = new] =>
                 reg' = Record(reg.kernel, reg.mem, reg.mk, reg.defs, new, reg.region)
           /\ reg' = [reg EXCEPT !.region = new] =>
                 reg' = Record(reg.kernel, reg.mem, reg.mk, reg.defs, reg.marker, new)
<1>1. reg = Record(reg.kernel, reg.mem, reg.mk, reg.defs, reg.marker, reg.region)
  BY DEF RegistryOK
<1> QED
  BY <1>1 DEF Record

(* A kernel argument.                                                      *)
LEMMA KernelStep == ASSUME GeneratorInv, RegisterKernelArg PROVE GeneratorInv'
<1>1. Position /\ Written /\ Scanning /\ NextLine /\ RegisteredInv
  BY DEF GeneratorInv, RegisterKernelArg
<1> DEFINE new == Append(reg.kernel, Entry)
<1>2. Position' /\ Written' /\ files' = files
  BY <1>1, NextLineFacts
<1>3. /\ new \in Seq(Entries) /\ InLines(new)
      /\ \A n \in DOMAIN new : new[n].obj[1] \in DOMAIN files
  BY <1>1, InLinesAppend DEF RegisteredInv, RegistryOK, Places
<1>4. reg' = [reg EXCEPT !.kernel = new]
  BY DEF RegisterKernelArg
<1> HIDE DEF new
<1>5. reg' = Record(new, reg.mem, reg.mk, reg.defs, reg.marker, reg.region)
  BY <1>1, <1>4, Changed DEF RegisteredInv
<1>6. /\ reg'.kernel = new /\ reg'.mem = reg.mem /\ reg'.mk = reg.mk /\ reg'.defs = reg.defs
      /\ reg'.marker = reg.marker /\ reg'.region = reg.region
  BY <1>5, RecordFields
<1>7. RegistryOK'
  BY <1>1, <1>3, <1>5, <1>6 DEF RegisteredInv, RegistryOK, IsMap
<1>8. Places' /\ ArgsDiffer(reg.defs)'
  BY <1>1, <1>2, <1>3, <1>6 DEF RegisteredInv, Places, InLines, ArgsDiffer
<1>9. InterfacesInOrder'
  BY <1>1, <1>6, InterfacesNext
<1> QED
  BY <1>2, <1>7, <1>8, <1>9 DEF GeneratorInv, RegisteredInv

(* A line of the makefile.                                                 *)
LEMMA MakefileStep == ASSUME GeneratorInv, RegisterMakefileInstance PROVE GeneratorInv'
<1>1. Position /\ Written /\ Scanning /\ NextLine /\ RegisteredInv
  BY DEF GeneratorInv, RegisterMakefileInstance
<1> DEFINE new == Append(reg.mk, Entry)
<1>2. Position' /\ Written' /\ files' = files
  BY <1>1, NextLineFacts
<1>3. /\ new \in Seq(Entries) /\ InLines(new)
      /\ \A n \in DOMAIN new : new[n].obj[1] \in DOMAIN files
  BY <1>1, InLinesAppend DEF RegisteredInv, RegistryOK, Places
<1>4. reg' = [reg EXCEPT !.mk = new]
  BY DEF RegisterMakefileInstance
<1> HIDE DEF new
<1>5. reg' = Record(reg.kernel, reg.mem, new, reg.defs, reg.marker, reg.region)
  BY <1>1, <1>4, Changed DEF RegisteredInv
<1>6. /\ reg'.kernel = reg.kernel /\ reg'.mem = reg.mem /\ reg'.mk = new /\ reg'.defs = reg.defs
      /\ reg'.marker = reg.marker /\ reg'.region = reg.region
  BY <1>5, RecordFields
<1>7. RegistryOK'
  BY <1>1, <1>3, <1>5, <1>6 DEF RegisteredInv, RegistryOK, IsMap
<1>8. Places' /\ ArgsDiffer(reg.defs)'
  BY <1>1, <1>2, <1>3, <1>6 DEF RegisteredInv, Places, InLines, ArgsDiffer
<1>9. InterfacesInOrder'
  BY <1>1, <1>6, InterfacesNext
<1> QED
  BY <1>2, <1>7, <1>8, <1>9 DEF GeneratorInv, RegisteredInv

(* A definition: Refused keeps the arguments apart.                        *)
LEMMA DefStep == ASSUME GeneratorInv, RegisterDef PROVE GeneratorInv'
<1>1. Position /\ Written /\ Scanning /\ NextLine /\ RegisteredInv
  BY DEF GeneratorInv, RegisterDef
<1> DEFINE arrays == {n \in DOMAIN reg.defs : reg.defs[n].type \in Arrays}
           d == [arg |-> line.arg, type |-> kw, mem_chn |-> Cardinality(arrays) % 4]
           new == Append(reg.defs, d)
<1>2. Position' /\ Written' /\ files' = files
  BY <1>1, NextLineFacts
<1>3. reg.defs \in Seq(Defs) /\ ArgsDiffer(reg.defs) /\ RegistryOK /\ Places
  BY <1>1 DEF RegisteredInv, RegistryOK
<1>4. d \in Defs /\ d.arg = line.arg
  <2>1. Cardinality(arrays) \in Nat
    <3>1. arrays \subseteq 1 .. Len(reg.defs) /\ Len(reg.defs) \in Nat
      BY <1>3
    <3>2. IsFiniteSet(1 .. Len(reg.defs))
      BY <3>1, FS_Interval
    <3>3. IsFiniteSet(arrays)
      BY <3>1, <3>2, FS_Subset
    <3> QED
      BY <3>3, FS_CardinalityType
  <2> DEFINE c == Cardinality(arrays)
  <2>2. c % 4 \in Nat
    <3> HIDE DEF c
    <3>1. c \in Nat
      BY <2>1 DEF c
    <3> QED
      BY <3>1
  <2>3. line.arg \in STRING /\ kw \in Definitions
    BY <1>1, LineFacts DEF RegisterDef
  <2> HIDE DEF c, arrays
  <2> QED
    BY <2>2, <2>3 DEF Defs, c
<1>5. reg' = [reg EXCEPT !.defs = new]
  BY DEF RegisterDef
<1> HIDE DEF d
<1>6. \A n \in DOMAIN reg.defs : reg.defs[n].arg # line.arg
  <2>1. kw \in Definitions /\ ~Refused
    BY DEF RegisterDef
  <2>2. line.arg \notin Registered(reg.defs)
    BY <2>1 DEF Refused
  <2> QED
    BY <2>2 DEF Registered
<1>7. /\ new \in Seq(Defs)
      /\ \A n \in DOMAIN new : \/ n \in DOMAIN reg.defs /\ n # Len(reg.defs) + 1 /\ new[n] = reg.defs[n]
                               \/ n = Len(reg.defs) + 1 /\ new[n] = d
  BY <1>3, <1>4
<1> HIDE DEF new
<1>8. ArgsDiffer(new)
  BY <1>3, <1>4, <1>6, <1>7 DEF ArgsDiffer
<1>9. reg' = Record(reg.kernel, reg.mem, reg.mk, new, reg.marker, reg.region)
  BY <1>3, <1>5, Changed
<1>10. /\ reg'.kernel = reg.kernel /\ reg'.mem = reg.mem /\ reg'.mk = reg.mk /\ reg'.defs = new
       /\ reg'.marker = reg.marker /\ reg'.region = reg.region
  BY <1>9, RecordFields
<1>11. RegistryOK'
  BY <1>3, <1>7, <1>9, <1>10 DEF RegistryOK, IsMap
<1>12. Places' /\ ArgsDiffer(reg.defs)'
  BY <1>2, <1>3, <1>8, <1>10 DEF Places, InLines, ArgsDiffer
<1>13. InterfacesInOrder'
  BY <1>1, <1>10, InterfacesNext
<1> QED
  BY <1>2, <1>11, <1>12, <1>13 DEF GeneratorInv, RegisteredInv

(* A marker.                                                               *)
LEMMA MarkerStep == ASSUME GeneratorInv, RegisterMarker PROVE GeneratorInv'
<1>1. Position /\ Written /\ Scanning /\ NextLine /\ RegisteredInv
  BY DEF GeneratorInv, RegisterMarker
<1> DEFINE old == reg.marker
           new == [m \in DOMAIN old \cup {kw} |-> IF m = kw THEN Object ELSE old[m]]
<1>2. Position' /\ Written' /\ files' = files
  BY <1>1, NextLineFacts
<1>3. IsMap(old, Range(Markers), Nat) /\ kw \in Range(Markers) /\ Object \in Nat
  BY <1>1, LineFacts DEF RegisteredInv, RegistryOK, RegisterMarker, Object
<1>4. reg' = [reg EXCEPT !.marker = new]
  BY DEF RegisterMarker
<1>5. IsMap(new, Range(Markers), Nat)
  <2> HIDE DEF old
  <2> QED
    BY <1>3 DEF IsMap
<1> HIDE DEF new
<1>6. reg' = Record(reg.kernel, reg.mem, reg.mk, reg.defs, new, reg.region)
  BY <1>1, <1>4, Changed DEF RegisteredInv
<1>7. /\ reg'.kernel = reg.kernel /\ reg'.mem = reg.mem /\ reg'.mk = reg.mk /\ reg'.defs = reg.defs
      /\ reg'.marker = new /\ reg'.region = reg.region
  BY <1>6, RecordFields
<1>8. RegistryOK'
  <2>1. /\ reg.kernel \in Seq(Entries) /\ reg.mem \in Seq(Interfaces) /\ reg.mk \in Seq(Entries)
        /\ reg.defs \in Seq(Defs) /\ IsMap(reg.region, Regions, [ln : Nat, file : Nat])
    BY <1>1 DEF RegisteredInv, RegistryOK
  <2>2. IsMap(reg.marker, Range(Markers), Nat)'
    BY <1>5, <1>7 DEF IsMap
  <2>3. IsMap(reg.region, Regions, [ln : Nat, file : Nat])'
    BY <1>7, <2>1 DEF IsMap
  <2> QED
    BY <1>6, <1>7, <2>1, <2>2, <2>3 DEF RegistryOK
<1>9. Places' /\ ArgsDiffer(reg.defs)'
  BY <1>1, <1>2, <1>7 DEF RegisteredInv, Places, InLines, ArgsDiffer
<1>10. InterfacesInOrder'
  BY <1>1, <1>7, InterfacesNext
<1> QED
  BY <1>2, <1>8, <1>9, <1>10 DEF GeneratorInv, RegisteredInv

(* An end of the code region.                                              *)
LEMMA RegionStep == ASSUME GeneratorInv, RegisterRegion PROVE GeneratorInv'
<1>1. Position /\ Written /\ Scanning /\ NextLine /\ RegisteredInv
  BY DEF GeneratorInv, RegisterRegion
<1> DEFINE old == reg.region
           place == [ln |-> Object, file |-> file]
           new == [m \in DOMAIN old \cup {kw} |-> IF m = kw THEN place ELSE old[m]]
<1>2. Position' /\ Written' /\ files' = files
  BY <1>1, NextLineFacts
<1>3. /\ IsMap(old, Regions, [ln : Nat, file : Nat]) /\ kw \in Regions
      /\ place \in [ln : Nat, file : Nat] /\ place.file \in DOMAIN files
      /\ place.ln \in 2 .. Len(files[place.file])
  <2>1. kw \in Regions
    BY DEF RegisterRegion, Regions
  <2>2. IsMap(old, Regions, [ln : Nat, file : Nat])
    BY <1>1 DEF RegisteredInv, RegistryOK
  <2>3. /\ file \in DOMAIN files /\ file \in Nat /\ Object \in Nat
        /\ Object \in 2 .. Len(files[file])
    BY <1>1, LineFacts DEF Object, Position
  <2> QED
    BY <2>1, <2>2, <2>3
<1>4. reg' = [reg EXCEPT !.region = new]
  BY DEF RegisterRegion
<1>5. \A k \in DOMAIN old : old[k].file \in DOMAIN files /\ old[k].ln \in 2 .. Len(files[old[k].file])
  BY <1>1 DEF RegisteredInv, Places
<1> HIDE DEF old, place
<1>6. IsMap(new, Regions, [ln : Nat, file : Nat])
  BY <1>3 DEF IsMap
<1>7. \A k \in DOMAIN new : new[k].file \in DOMAIN files /\ new[k].ln \in 2 .. Len(files[new[k].file])
  BY <1>3, <1>5
<1> HIDE DEF new
<1>8. reg' = Record(reg.kernel, reg.mem, reg.mk, reg.defs, reg.marker, new)
  BY <1>1, <1>4, Changed DEF RegisteredInv
<1>9. /\ reg'.kernel = reg.kernel /\ reg'.mem = reg.mem /\ reg'.mk = reg.mk /\ reg'.defs = reg.defs
      /\ reg'.marker = reg.marker /\ reg'.region = new
  BY <1>8, RecordFields
<1>10. RegistryOK'
  <2>1. /\ reg.kernel \in Seq(Entries) /\ reg.mem \in Seq(Interfaces) /\ reg.mk \in Seq(Entries)
        /\ reg.defs \in Seq(Defs) /\ IsMap(reg.marker, Range(Markers), Nat)
    BY <1>1 DEF RegisteredInv, RegistryOK
  <2>2. IsMap(reg.marker, Range(Markers), Nat)'
    BY <1>9, <2>1 DEF IsMap
  <2>3. IsMap(reg.region, Regions, [ln : Nat, file : Nat])'
    BY <1>6, <1>9 DEF IsMap
  <2> QED
    BY <1>8, <1>9, <2>1, <2>2, <2>3 DEF RegistryOK
<1>11. Places'
  BY <1>1, <1>2, <1>7, <1>9 DEF RegisteredInv, Places, InLines
<1>12. ArgsDiffer(reg.defs)'
  BY <1>1, <1>9 DEF RegisteredInv, ArgsDiffer
<1>13. InterfacesInOrder'
  BY <1>1, <1>9, InterfacesNext
<1> QED
  BY <1>2, <1>10, <1>11, <1>12, <1>13 DEF GeneratorInv, RegisteredInv

(* The interface that a pragma belongs to: arguments differ, so there is   *)
(* one at most, and the mask is its own.                                   *)
LEMMA MemOfFacts ==
    ASSUME ArgsDiffer(reg.mem), NEW arg, MaskOf(arg) # {}
    PROVE  /\ MemOf(arg) \in DOMAIN reg.mem /\ reg.mem[MemOf(arg)].arg = arg
           /\ MaskOf(arg) = reg.mem[MemOf(arg)].mask
<1> DEFINE S == {k \in DOMAIN reg.mem : reg.mem[k].arg = arg}
<1>1. MaskOf(arg) = UNION {reg.mem[n].mask : n \in S}
  BY DEF MaskOf
<1>2. PICK n : n \in S
  BY <1>1
<1>3. \A k \in S : k = n
  BY <1>2 DEF ArgsDiffer
<1>4. MemOf(arg) = n
  BY <1>2, <1>3 DEF MemOf
<1>5. S = {n}
  BY <1>2, <1>3
<1>6. MaskOf(arg) = reg.mem[n].mask
  BY <1>1, <1>5
<1> QED
  BY <1>2, <1>4, <1>6

(* The interfaces of the next line, when one is new or changed.            *)
LEMMA InterfaceChanged ==
    ASSUME GeneratorInv, Scanning, NextLine, NEW new \in Seq(Interfaces),
           reg' = [reg EXCEPT !.mem = new], NEW i \in DOMAIN new,
           \A n \in DOMAIN new : n # i => n \in DOMAIN reg.mem /\ new[n] = reg.mem[n],
           ArgsDiffer(new), InOrder(new[i])'
    PROVE  GeneratorInv'
<1>1. Position /\ Written /\ RegisteredInv
  BY DEF GeneratorInv
<1>2. Position' /\ Written' /\ files' = files
  BY <1>1, NextLineFacts
<1>3. reg' = Record(reg.kernel, new, reg.mk, reg.defs, reg.marker, reg.region)
  BY <1>1, Changed DEF RegisteredInv
<1>4. /\ reg'.kernel = reg.kernel /\ reg'.mem = new /\ reg'.mk = reg.mk /\ reg'.defs = reg.defs
      /\ reg'.marker = reg.marker /\ reg'.region = reg.region
  BY <1>3, RecordFields
<1>5. RegistryOK'
  BY <1>1, <1>3, <1>4 DEF RegisteredInv, RegistryOK, IsMap
<1>6. Places' /\ ArgsDiffer(reg.defs)'
  BY <1>1, <1>2, <1>4 DEF RegisteredInv, Places, InLines, ArgsDiffer
<1>7. ASSUME NEW n \in DOMAIN new PROVE InOrder(new[n])'
  <2>1. CASE n = i
    BY <2>1
  <2>2. CASE n # i
    <3>1. PICK m : m = new[n]
      OBVIOUS
    <3>2. m \in Interfaces /\ InOrder(m)
      <4>1. n \in DOMAIN reg.mem /\ m = reg.mem[n] /\ m \in Interfaces
        BY <2>2, <3>1
      <4>2. InOrder(reg.mem[n])
        BY <1>1, <4>1 DEF RegisteredInv, InterfacesInOrder
      <4> QED
        BY <4>1, <4>2
    <3>3. InOrder(m)'
      BY <1>1, <3>2, InOrderNext
    <3> QED
      BY <3>1, <3>3
  <2> QED
    BY <2>1, <2>2
<1>8. InterfacesInOrder'
  BY <1>4, <1>7 DEF InterfacesInOrder, ArgsDiffer, InOrder, UpTo, Earlier
<1> QED
  BY <1>2, <1>5, <1>6, <1>8 DEF GeneratorInv, RegisteredInv

(* A change of one interface is a change of the list.                      *)
LEMMA NestedExcept ==
    ASSUME NEW i, NEW m
    PROVE  [reg EXCEPT !.mem[i] = m] = [reg EXCEPT !.mem = [reg.mem EXCEPT ![i] = m]]
OBVIOUS

(* An argument: the attribute is not there yet.                            *)
LEMMA MemArgStep == ASSUME GeneratorInv, RegisterMemArg PROVE GeneratorInv'
<1>1. Position /\ Written /\ Scanning /\ NextLine /\ RegisteredInv
  BY DEF GeneratorInv, RegisterMemArg
<1>2. PICK uninitialised \in 0 .. Len(files[1]) + 1 :
          reg' = [reg EXCEPT !.mem = Append(@,
              [arg |-> line.arg, mask |-> {"arg"}, input |-> Entry,
               attr |-> [Entry EXCEPT !.ln = uninitialised], instance |-> <<>>])]
  BY DEF RegisterMemArg
<1>3. PICK e : e = Entry
  OBVIOUS
<1>4. PICK m : m = [arg |-> line.arg, mask |-> {"arg"}, input |-> e,
                    attr |-> [e EXCEPT !.ln = uninitialised], instance |-> <<>>]
  OBVIOUS
<1>5. PICK new : new = Append(reg.mem, m)
  OBVIOUS
<1>6. PICK i : i = Len(reg.mem) + 1
  OBVIOUS
<1>7. reg' = [reg EXCEPT !.mem = new]
  BY <1>2, <1>3, <1>4, <1>5
<1>8. reg.mem \in Seq(Interfaces) /\ ArgsDiffer(reg.mem)
  BY <1>1 DEF RegisteredInv, RegistryOK, InterfacesInOrder
<1>9. e \in Entries /\ line.arg \in STRING /\ uninitialised \in Nat
  <2>1. Len(files[1]) \in Nat
    BY <1>1, FileFacts DEF Position
  <2>2. uninitialised \in Nat
    BY <1>2, <2>1
  <2> QED
    BY <1>1, <1>3, <2>2, LineFacts
<1>10. m \in Interfaces /\ m.arg = line.arg
  <2> DEFINE f == [e EXCEPT !.ln = uninitialised]
  <2>1. f \in Entries /\ <<>> \in Seq(Entries)
    BY <1>9 DEF Entries
  <2>2. m = [arg |-> line.arg, mask |-> {"arg"}, input |-> e, attr |-> f, instance |-> <<>>]
    BY <1>4
  <2> HIDE DEF f
  <2> QED
    BY <1>9, <2>1, <2>2 DEF Interfaces
<1>11. InOrder(m)'
  <2>1. m.input = e /\ "attr" \notin m.mask /\ DOMAIN m.instance = {}
    BY <1>4
  <2>2. /\ e.obj[1] = file /\ e.obj[2] = ln + 1 /\ file' = file /\ ln' = ln + 1
        /\ ln \in Nat /\ file \in Nat
    BY <1>1, <1>3, LineFacts, NextLineFacts
  <2>3. UpTo(e)'
    BY <2>2 DEF UpTo
  <2> QED
    BY <2>1, <2>3 DEF InOrder
<1>12. \A n \in DOMAIN reg.mem : reg.mem[n].arg # line.arg
  <2>1. line.arg \notin Registered(reg.mem)
    BY DEF RegisterMemArg, Refused
  <2> QED
    BY <2>1 DEF Registered
<1>13. /\ new \in Seq(Interfaces) /\ i \in DOMAIN new /\ new[i] = m
       /\ \A n \in DOMAIN new : n # i => n \in DOMAIN reg.mem /\ new[n] = reg.mem[n]
  BY <1>5, <1>6, <1>8, <1>10
<1>14. ArgsDiffer(new)
  BY <1>8, <1>10, <1>12, <1>13 DEF ArgsDiffer
<1>15. InOrder(new[i])'
  BY <1>11, <1>13
<1> QED
  BY <1>1, <1>7, <1>13, <1>14, <1>15, InterfaceChanged

(* The attribute: there is no instance before it, so nothing is behind it  *)
(* that it would have to be in front of.                                   *)
LEMMA MemAttrStep == ASSUME GeneratorInv, RegisterMemAttr PROVE GeneratorInv'
<1>1. Position /\ Written /\ Scanning /\ NextLine /\ RegisteredInv /\ kw = "MSLR_INTERFACE_ATTR"
  BY DEF GeneratorInv, RegisterMemAttr
<1>2. reg.mem \in Seq(Interfaces) /\ ArgsDiffer(reg.mem) /\ InterfacesInOrder
  BY <1>1 DEF RegisteredInv, RegistryOK, InterfacesInOrder
<1>3. MaskOf(line.arg) = {"arg"}
  BY <1>1 DEF RegisterMemAttr, Refused, OutOfOrder
<1>4. PICK i : i = MemOf(line.arg)
  OBVIOUS
<1>5. i \in DOMAIN reg.mem /\ reg.mem[i].mask = {"arg"}
  BY <1>2, <1>3, <1>4, MemOfFacts
<1>6. PICK e : e = Entry
  OBVIOUS
<1>7. PICK old : old = reg.mem[i]
  OBVIOUS
<1>8. PICK m : m = [old EXCEPT !.mask = @ \cup {"attr"}, !.attr = e]
  OBVIOUS
<1>9. PICK new : new = [reg.mem EXCEPT ![i] = m]
  OBVIOUS
<1>10. reg' = [reg EXCEPT !.mem = new]
  <2>1. reg' = [reg EXCEPT !.mem[i] = [reg.mem[i] EXCEPT !.mask = reg.mem[i].mask \cup {"attr"},
                                                         !.attr = e]]
    BY <1>4, <1>6 DEF RegisterMemAttr
  <2>2. m = [reg.mem[i] EXCEPT !.mask = reg.mem[i].mask \cup {"attr"}, !.attr = e]
    BY <1>7, <1>8
  <2>3. reg' = [reg EXCEPT !.mem[i] = m]
    BY <2>1, <2>2
  <2> QED
    BY <1>9, <2>3, NestedExcept
<1>11. old \in Interfaces /\ InOrder(old) /\ "attr" \notin old.mask
  BY <1>2, <1>5, <1>7 DEF InterfacesInOrder
<1>12. e \in Entries
  BY <1>1, <1>6, LineFacts
<1>13. /\ m \in Interfaces /\ m.arg = old.arg /\ m.input = old.input /\ m.attr = e
       /\ m.instance = old.instance
  BY <1>8, <1>11, <1>12 DEF Interfaces
<1>14. InOrder(m)'
  <2>1. DOMAIN m.instance = {}
    BY <1>11, <1>13 DEF InOrder
  <2>2. /\ e.obj[1] = file /\ e.obj[2] = ln + 1 /\ e.ln = ln + 1 /\ file' = file /\ ln' = ln + 1
        /\ ln \in Nat /\ file \in Nat /\ phase = "input"
    BY <1>1, <1>6, LineFacts, NextLineFacts
  <2>3. UpTo(m.input)
    BY <1>11, <1>13, <2>2 DEF InOrder
  <2>4. m.input \in Entries
    BY <1>13 DEF Interfaces
  <2>5. m.input.obj[1] \in Nat /\ m.input.obj[2] \in Nat
    BY <2>4 DEF Entries
  <2>6. UpTo(m.input)' /\ UpTo(e)' /\ Earlier(m.input, e)
    BY <2>2, <2>3, <2>5 DEF UpTo, Earlier
  <2>7. Earlier(m.input, m.attr)' /\ m.attr.ln = m.attr.obj[2]
    BY <1>13, <2>2, <2>6 DEF Earlier
  <2> QED
    BY <1>13, <2>1, <2>6, <2>7 DEF InOrder
<1>15. /\ new \in Seq(Interfaces) /\ i \in DOMAIN new /\ new[i] = m
       /\ \A n \in DOMAIN new : n # i => n \in DOMAIN reg.mem /\ new[n] = reg.mem[n]
  BY <1>2, <1>5, <1>9, <1>13
<1>16. ArgsDiffer(new)
  <2>1. \A n \in DOMAIN new : n \in DOMAIN reg.mem /\ new[n].arg = reg.mem[n].arg
    BY <1>5, <1>7, <1>13, <1>15
  <2> QED
    BY <1>2, <2>1 DEF ArgsDiffer
<1>17. InOrder(new[i])'
  BY <1>14, <1>15
<1> QED
  BY <1>1, <1>10, <1>15, <1>16, <1>17, InterfaceChanged

(* An instance: the attribute is there, further up or in an earlier file.  *)
LEMMA MemInstanceStep == ASSUME GeneratorInv, RegisterMemInstance PROVE GeneratorInv'
<1>1. Position /\ Written /\ Scanning /\ NextLine /\ RegisteredInv
      /\ kw = "MSLR_INTERFACE_INSTANCE"
  BY DEF GeneratorInv, RegisterMemInstance
<1>2. reg.mem \in Seq(Interfaces) /\ ArgsDiffer(reg.mem) /\ InterfacesInOrder
  BY <1>1 DEF RegisteredInv, RegistryOK, InterfacesInOrder
<1>3. {"arg", "attr"} \subseteq MaskOf(line.arg)
  BY <1>1 DEF RegisterMemInstance, Refused, OutOfOrder
<1>4. PICK i : i = MemOf(line.arg)
  OBVIOUS
<1>5. i \in DOMAIN reg.mem /\ "attr" \in reg.mem[i].mask
  BY <1>2, <1>3, <1>4, MemOfFacts
<1>6. PICK e : e = Entry
  OBVIOUS
<1>7. PICK old : old = reg.mem[i]
  OBVIOUS
<1>8. PICK m : m = [old EXCEPT !.mask = @ \cup {"instance"}, !.instance = Append(@, e)]
  OBVIOUS
<1>9. PICK new : new = [reg.mem EXCEPT ![i] = m]
  OBVIOUS
<1>10. reg' = [reg EXCEPT !.mem = new]
  <2>1. reg' = [reg EXCEPT !.mem[i] = [reg.mem[i] EXCEPT !.mask = reg.mem[i].mask \cup {"instance"},
                                       !.instance = Append(reg.mem[i].instance, e)]]
    BY <1>4, <1>6 DEF RegisterMemInstance
  <2>2. m = [reg.mem[i] EXCEPT !.mask = reg.mem[i].mask \cup {"instance"},
                               !.instance = Append(reg.mem[i].instance, e)]
    BY <1>7, <1>8
  <2>3. reg' = [reg EXCEPT !.mem[i] = m]
    BY <2>1, <2>2
  <2> QED
    BY <1>9, <2>3, NestedExcept
<1>11. old \in Interfaces /\ InOrder(old) /\ "attr" \in old.mask
  BY <1>2, <1>5, <1>7 DEF InterfacesInOrder
<1>12. e \in Entries
  BY <1>1, <1>6, LineFacts
<1>13. /\ m \in Interfaces /\ m.arg = old.arg /\ m.input = old.input /\ m.attr = old.attr
       /\ m.instance = Append(old.instance, e) /\ "attr" \in m.mask
  <2> DEFINE mask == old.mask \cup {"instance"}
             list == Append(old.instance, e)
  <2>1. mask \in SUBSET {"arg", "attr", "instance"} /\ "attr" \in mask
    BY <1>11 DEF Interfaces
  <2>2. list \in Seq(Entries)
    BY <1>11, <1>12 DEF Interfaces
  <2>3. m = [old EXCEPT !.mask = mask, !.instance = list]
    BY <1>8
  <2> HIDE DEF mask, list
  <2>4. m \in Interfaces /\ m.arg = old.arg /\ m.input = old.input /\ m.attr = old.attr
        /\ m.instance = list /\ m.mask = mask
    BY <1>11, <2>1, <2>2, <2>3 DEF Interfaces
  <2> QED
    BY <2>1, <2>4 DEF list
<1>14. InOrder(m)'
  <2>1. /\ e.obj[1] = file /\ e.obj[2] = ln + 1 /\ file' = file /\ ln' = ln + 1
        /\ ln \in Nat /\ file \in Nat /\ phase = "input"
    BY <1>1, <1>6, LineFacts, NextLineFacts
  <2>2. /\ UpTo(m.input) /\ UpTo(m.attr) /\ Earlier(m.input, m.attr) /\ m.attr.ln = m.attr.obj[2]
        /\ \A k \in DOMAIN old.instance : Earlier(m.attr, old.instance[k])
    BY <1>11, <1>13, <2>1 DEF InOrder
  <2>3. m.input \in Entries /\ m.attr \in Entries /\ old.instance \in Seq(Entries)
    BY <1>11, <1>13 DEF Interfaces
  <2>4. /\ m.input.obj[1] \in Nat /\ m.input.obj[2] \in Nat
        /\ m.attr.obj[1] \in Nat /\ m.attr.obj[2] \in Nat
    BY <2>3 DEF Entries
  <2>5. UpTo(m.input)' /\ UpTo(m.attr)' /\ Earlier(m.attr, e)
    BY <2>1, <2>2, <2>4 DEF UpTo, Earlier
  <2>6. \A k \in DOMAIN m.instance : (k \in DOMAIN old.instance /\ m.instance[k] = old.instance[k])
                                     \/ m.instance[k] = e
    BY <1>12, <1>13, <2>3
  <2>7. \A k \in DOMAIN m.instance : Earlier(m.attr, m.instance[k])
    BY <2>2, <2>5, <2>6
  <2> QED
    BY <1>13, <2>2, <2>5, <2>7 DEF InOrder, Earlier
<1>15. /\ new \in Seq(Interfaces) /\ i \in DOMAIN new /\ new[i] = m
       /\ \A n \in DOMAIN new : n # i => n \in DOMAIN reg.mem /\ new[n] = reg.mem[n]
  BY <1>2, <1>5, <1>9, <1>13
<1>16. ArgsDiffer(new)
  <2>1. \A n \in DOMAIN new : n \in DOMAIN reg.mem /\ new[n].arg = reg.mem[n].arg
    BY <1>5, <1>7, <1>13, <1>15
  <2> QED
    BY <1>2, <2>1 DEF ArgsDiffer
<1>17. InOrder(new[i])'
  BY <1>14, <1>15
<1> QED
  BY <1>1, <1>10, <1>15, <1>16, <1>17, InterfaceChanged

(* The end of a file.                                                      *)
LEMMA FileStep == ASSUME GeneratorInv, NextFile PROVE GeneratorInv'
<1>1. Position /\ Written /\ RegisteredInv
  BY DEF GeneratorInv
<1>2. /\ phase = "input" /\ ln' = 1 /\ files' = files /\ reg' = reg /\ counter' = counter
      /\ file \in Nat /\ Len(files) \in Nat /\ DOMAIN files = 1 .. Len(files)
      /\ \A f \in DOMAIN files : 1 \in 1 .. Len(files[f]) + 1
  <2>1. \A f \in DOMAIN files : Len(files[f]) \in Nat
    BY <1>1, FileFacts DEF Position
  <2> QED
    BY <1>1, <2>1, FileFacts DEF NextFile, Position
<1>3. RegistryOK' /\ Places' /\ ArgsDiffer(reg.defs)' /\ ArgsDiffer(reg.mem)'
  BY <1>1, <1>2 DEF RegisteredInv, RegistryOK, Places, InLines, ArgsDiffer, InterfacesInOrder
<1>4. CASE file < Len(files)
  <2>1. file' = file + 1 /\ phase' = "input" /\ outputs' = outputs
    BY <1>2, <1>4 DEF NextFile
  <2>2. Position'
    BY <1>1, <1>2, <1>4, <2>1 DEF Position
  <2>3. Written'
    BY <1>1, <1>2, <2>1 DEF Written, WrittenOnce, NumbersDistinct
  <2>4. ASSUME NEW e \in Entries, UpTo(e) PROVE UpTo(e)'
    <3>1. e.obj[1] \in Nat
      BY DEF Entries
    <3> QED
      BY <1>2, <2>1, <2>4, <3>1 DEF UpTo
  <2>5. ASSUME NEW n \in DOMAIN reg.mem PROVE InOrder(reg.mem[n])'
    <3>1. PICK m : m = reg.mem[n]
      OBVIOUS
    <3>2. m \in Interfaces /\ InOrder(m)
      BY <1>1, <3>1 DEF RegisteredInv, RegistryOK, InterfacesInOrder
    <3>3. m.input \in Entries /\ m.attr \in Entries
      BY <3>2 DEF Interfaces
    <3>4. InOrder(m)'
      BY <1>2, <2>1, <2>4, <3>2, <3>3 DEF InOrder, Earlier
    <3> QED
      BY <1>2, <3>1, <3>4
  <2>6. InterfacesInOrder'
    BY <1>2, <1>3, <2>5 DEF InterfacesInOrder
  <2> QED
    BY <1>3, <2>2, <2>3, <2>6 DEF GeneratorInv, RegisteredInv
<1>5. CASE ~(file < Len(files))
  <2>1. file' = 1 /\ phase' = "output" /\ outputs' = [u \in Outputs |-> <<>>]
    BY <1>2, <1>5 DEF NextFile
  <2>2. Position'
    BY <1>1, <1>2, <2>1, FileFacts DEF Position
  <2>3. DOMAIN outputs' = Outputs /\ Outputs \in {{1}, Unit} /\ \A u \in Outputs : outputs'[u] = <<>>
    BY <2>1 DEF Outputs
  <2>4. outputs' \in [DOMAIN outputs' -> Seq(Texts)]
    <3>1. <<>> \in Seq(Texts)
      OBVIOUS
    <3> QED
      BY <2>1, <2>3, <3>1
  <2>5. WrittenOnce' /\ NumbersDistinct'
    <3>1. \A u \in DOMAIN outputs' : DOMAIN outputs'[u] = {}
      BY <2>3
    <3> QED
      BY <3>1 DEF WrittenOnce, NumbersDistinct
  <2>6. Written'
    BY <1>1, <1>2, <2>3, <2>4, <2>5 DEF Written
  <2>7. InterfacesInOrder'
    <3>1. ASSUME NEW n \in DOMAIN reg.mem PROVE InOrder(reg.mem[n])'
      <4>1. InOrder(reg.mem[n])
        BY <1>1 DEF RegisteredInv, InterfacesInOrder
      <4> QED
        BY <1>2, <2>1, <4>1 DEF InOrder, Earlier
    <3> QED
      BY <1>2, <1>3, <3>1 DEF InterfacesInOrder
  <2> QED
    BY <1>3, <2>2, <2>6, <2>7 DEF GeneratorInv, RegisteredInv
<1> QED
  BY <1>4, <1>5

(* What is registered stays when the first pass is over.                   *)
LEMMA RegisteredStays ==
    ASSUME RegisteredInv, files' = files, reg' = reg, phase' # "input"
    PROVE  RegisteredInv'
<1>1. RegistryOK' /\ Places' /\ ArgsDiffer(reg.defs)' /\ ArgsDiffer(reg.mem)'
  BY DEF RegisteredInv, RegistryOK, Places, InLines, ArgsDiffer, InterfacesInOrder
<1>2. ASSUME NEW n \in DOMAIN reg.mem PROVE InOrder(reg.mem[n])'
  <2>1. InOrder(reg.mem[n])
    BY DEF RegisteredInv, InterfacesInOrder
  <2> QED
    BY <2>1 DEF InOrder, Earlier
<1>3. InterfacesInOrder'
  BY <1>1, <1>2 DEF InterfacesInOrder
<1> QED
  BY <1>1, <1>3 DEF RegisteredInv

(* The program gives up or is done.                                        *)
LEMMA EndStep == ASSUME GeneratorInv, Refuse \/ Close PROVE GeneratorInv'
<1>1. /\ phase' \in {"failed", "done"}
      /\ files' = files /\ file' = file /\ ln' = ln /\ reg' = reg /\ counter' = counter
      /\ outputs' = outputs
  BY DEF Refuse, Close
<1>2. Position'
  BY <1>1 DEF GeneratorInv, Position
<1>3. Written'
  BY <1>1 DEF GeneratorInv, Written, WrittenOnce, NumbersDistinct
<1>4. RegisteredInv'
  BY <1>1, RegisteredStays DEF GeneratorInv
<1> QED
  BY <1>2, <1>3, <1>4 DEF GeneratorInv

-----------------------------------------------------------------------------
(* What is written: lines that are copied, and code.                       *)

(* The markers for which there is code in s.                               *)
CodesIn(s) == {s[a].code : a \in {b \in DOMAIN s : "code" \in DOMAIN s[b]}}

(* NumbersDistinct, for one output.                                        *)
Distinct(s) ==
    \A a, b \in DOMAIN s :
        "code" \in DOMAIN s[a] /\ "code" \in DOMAIN s[b] /\ a # b =>
            /\ s[a].code = "DUMP_MEM_ATTR" /\ s[b].code = "DUMP_MEM_ATTR" =>
                  s[a].number # s[b].number
            /\ s[a].code = "USER_APPLY_STREAM_ATTR" /\ s[b].code = "USER_APPLY_STREAM_ATTR" =>
                  (s[a].number = s[b].number <=> s[a].arg = s[b].arg)

(* A text with code for the markers in C only.                             *)
TextOf(s, C) == s \in Seq(Texts) /\ CodesIn(s) \subseteq C /\ Distinct(s)

(* Different markers do not get in each other's way.                       *)
LEMMA TextConcat ==
    ASSUME NEW C, NEW D, C \cap D = {}, NEW s, TextOf(s, C), NEW t, TextOf(t, D)
    PROVE  TextOf(s \o t, C \cup D)
<1> DEFINE m == Len(s)
           e == s \o t
<1>1. /\ m \in Nat /\ s \in Seq(Texts) /\ t \in Seq(Texts) /\ e \in Seq(Texts)
      /\ DOMAIN s = 1 .. m /\ DOMAIN t = 1 .. Len(t) /\ Len(t) \in Nat
      /\ DOMAIN e = 1 .. m + Len(t)
      /\ \A a \in 1 .. m : e[a] = s[a]
      /\ \A a \in m + 1 .. m + Len(t) : e[a] = t[a - m]
  BY ConcatFacts DEF TextOf
<1> HIDE DEF e, m
<1>2. ASSUME NEW a \in DOMAIN e
      PROVE  \/ a \in DOMAIN s /\ e[a] = s[a]
             \/ ~(a \in DOMAIN s) /\ a - m \in DOMAIN t /\ e[a] = t[a - m] /\ a \in Int
  BY <1>1
<1>3. \A a \in DOMAIN s : "code" \in DOMAIN s[a] => s[a].code \in C
  BY DEF TextOf, CodesIn
<1>4. \A a \in DOMAIN t : "code" \in DOMAIN t[a] => t[a].code \in D
  BY DEF TextOf, CodesIn
<1>5. CodesIn(e) \subseteq C \cup D
  <2>1. ASSUME NEW a \in DOMAIN e, "code" \in DOMAIN e[a] PROVE e[a].code \in C \cup D
    BY <1>2, <1>3, <1>4, <2>1
  <2> QED
    BY <2>1 DEF CodesIn
<1> DEFINE Apart(x, y) ==
             /\ x.code = "DUMP_MEM_ATTR" /\ y.code = "DUMP_MEM_ATTR" => x.number # y.number
             /\ x.code = "USER_APPLY_STREAM_ATTR" /\ y.code = "USER_APPLY_STREAM_ATTR" =>
                   (x.number = y.number <=> x.arg = y.arg)
<1>6. \A a, b \in DOMAIN s : "code" \in DOMAIN s[a] /\ "code" \in DOMAIN s[b] /\ a # b
                               => Apart(s[a], s[b])
  BY DEF TextOf, Distinct
<1>7. \A a, b \in DOMAIN t : "code" \in DOMAIN t[a] /\ "code" \in DOMAIN t[b] /\ a # b
                               => Apart(t[a], t[b])
  BY DEF TextOf, Distinct
<1>8. ASSUME NEW x, NEW y, (x.code \in C /\ y.code \in D) \/ (x.code \in D /\ y.code \in C)
      PROVE  Apart(x, y)
  BY <1>8
<1> HIDE DEF Apart
<1>9. ASSUME NEW a \in DOMAIN e, NEW b \in DOMAIN e, a # b,
             "code" \in DOMAIN e[a], "code" \in DOMAIN e[b]
      PROVE  Apart(e[a], e[b])
  <2>1. CASE a \in DOMAIN s /\ b \in DOMAIN s
    BY <1>2, <1>6, <1>9, <2>1
  <2>2. CASE a \notin DOMAIN s /\ b \notin DOMAIN s
    <3>1. a - m # b - m
      BY <1>1, <1>2, <1>9, <2>2
    <3> QED
      BY <1>2, <1>7, <1>9, <2>2, <3>1
  <2>3. PICK x, y : x = e[a] /\ y = e[b]
    OBVIOUS
  <2>4. CASE (a \in DOMAIN s) # (b \in DOMAIN s)
    <3>1. (x.code \in C /\ y.code \in D) \/ (x.code \in D /\ y.code \in C)
      BY <1>2, <1>3, <1>4, <1>9, <2>3, <2>4
    <3>2. Apart(x, y)
      BY <1>8, <3>1
    <3> QED
      BY <2>3, <3>2
  <2> QED
    BY <2>1, <2>2, <2>4
<1>10. Distinct(e)
  BY <1>9 DEF Distinct, Apart
<1> QED
  BY <1>1, <1>5, <1>10 DEF TextOf, e

(* Copied lines are not code.                                              *)
LEMMA CopiesText == ASSUME NEW s \in Seq(Copies) PROVE TextOf(s, {})
<1>1. s \in Seq(Texts)
  BY DEF Texts
<1>2. \A a \in DOMAIN s : "code" \notin DOMAIN s[a]
  <2> TAKE a \in DOMAIN s
  <2>1. s[a] \in Copies
    OBVIOUS
  <2>2. DOMAIN s[a] = {"line", "number"}
    BY <2>1 DEF Copies
  <2> QED
    BY <2>2
<1>3. CodesIn(s) = {} /\ Distinct(s)
  BY <1>2 DEF CodesIn, Distinct
<1> QED
  BY <1>1, <1>3 DEF TextOf

(* The first of a set of positions is one of them.                         *)
LEMMA FirstFacts == ASSUME NEW S \in SUBSET Nat, S # {} PROVE First(S) \in S
<1>1. \E n \in S : \A m \in S : n <= m
  BY LeastNatural
<1> QED
  BY <1>1 DEF First

(* What a parser is to write, and the entries it comes from.               *)
Marks == [ln : Nat, obj : Nat \X Nat, numbers : Seq(Int)]

(* What the kernel, memory and makefile parsers write is copied lines.     *)
LEMMA ExpandedFacts ==
    ASSUME NEW marks \in Seq(Marks)
    PROVE  Expanded(marks) \in Seq(Copies)
<1> DEFINE S == AtLine(marks)
           m == marks[First(S)]
           e == [n \in DOMAIN m.numbers |-> Copy(m.obj, m.numbers[n])]
<1>1. CASE S = {}
  BY <1>1 DEF Expanded
<1>2. CASE S # {}
  <2>1. First(S) \in DOMAIN marks
    <3>1. S \in SUBSET Nat
      BY DEF AtLine
    <3>2. First(S) \in S
      BY <1>2, <3>1, FirstFacts
    <3> QED
      BY <3>2 DEF AtLine
  <2>2. m \in Marks
    <3> HIDE DEF S
    <3> QED
      BY <2>1
  <2> HIDE DEF m
  <2>3. m.numbers \in Seq(Int) /\ m.obj \in Nat \X Nat
    BY <2>2 DEF Marks
  <2>4. e \in Seq(Copies)
    <3>1. DOMAIN m.numbers = 1 .. Len(m.numbers) /\ Len(m.numbers) \in Nat
          /\ \A n \in DOMAIN m.numbers : m.numbers[n] \in Int
      BY <2>3
    <3>2. \A n \in DOMAIN m.numbers : Copy(m.obj, m.numbers[n]) \in Copies
      BY <2>3, <3>1 DEF Copy, Copies
    <3> QED
      BY <3>1, <3>2
  <2> HIDE DEF e
  <2>5. Expanded(marks) = IF m.ln = ln THEN <<>> ELSE e
    BY <1>2 DEF Expanded, m, e
  <2> QED
    BY <2>4, <2>5
<1> QED
  BY <1>1, <1>2

(* The numbers of all units.                                               *)
LEMMA EachUnitFacts == EachUnit \in Seq(Int)
  BY UnitAssumption DEF EachUnit, Unit

(* An entry becomes a mark.                                                *)
LEMMA MarkFacts ==
    ASSUME NEW e \in Entries, NEW numbers \in Seq(Int)
    PROVE  Mark(e, numbers) \in Marks
  BY DEF Mark, Marks, Entries

(* The marks of what has been registered.                                  *)
LEMMA KernelMarksFacts == 
    ASSUME RegistryOK, NEW u \in Nat
    PROVE  KernelMarks(u) \in Seq(Marks)
<1>1. reg.kernel \in Seq(Entries) /\ <<u>> \in Seq(Int)
  BY DEF RegistryOK
<1>2. \A n \in DOMAIN reg.kernel : Mark(reg.kernel[n], <<u>>) \in Marks
  <2> TAKE n \in DOMAIN reg.kernel
  <2>1. reg.kernel[n] \in Entries
    BY <1>1
  <2> QED
    BY <1>1, <2>1, MarkFacts
<1> QED
  BY <1>1, <1>2 DEF KernelMarks

(* Those of the makefile parser.                                           *)
LEMMA MkMarksFacts == ASSUME RegistryOK PROVE MkMarks \in Seq(Marks)
<1>1. reg.mk \in Seq(Entries)
  BY DEF RegistryOK
<1>2. \A n \in DOMAIN reg.mk : Mark(reg.mk[n], EachUnit) \in Marks
  <2> TAKE n \in DOMAIN reg.mk
  <2>1. reg.mk[n] \in Entries
    BY <1>1
  <2> QED
    BY <2>1, EachUnitFacts, MarkFacts
<1> QED
  BY <1>1, <1>2 DEF MkMarks

(* Those of the memory parser: argument, attribute and every instance.     *)
LEMMA MemMarksFacts == ASSUME RegistryOK PROVE MemMarks \in Seq(Marks)
<1> DEFINE front(m) == <<Mark(m.input, EachUnit), Mark(m.attr, <<>>)>>
           back(m) == [k \in DOMAIN m.instance |-> Mark(m.instance[k], EachUnit)]
           all == [n \in DOMAIN reg.mem |-> front(reg.mem[n]) \o back(reg.mem[n])]
<1>1. reg.mem \in Seq(Interfaces)
  BY DEF RegistryOK
<1>2. ASSUME NEW m \in Interfaces PROVE front(m) \o back(m) \in Seq(Marks)
  <2>1. m.input \in Entries /\ m.attr \in Entries /\ m.instance \in Seq(Entries)
    BY DEF Interfaces
  <2>2. Mark(m.input, EachUnit) \in Marks /\ Mark(m.attr, <<>>) \in Marks
    <3>1. <<>> \in Seq(Int)
      OBVIOUS
    <3> QED
      BY <2>1, <3>1, EachUnitFacts, MarkFacts
  <2>3. \A k \in DOMAIN m.instance : Mark(m.instance[k], EachUnit) \in Marks
    <3> TAKE k \in DOMAIN m.instance
    <3>1. m.instance[k] \in Entries
      BY <2>1
    <3> QED
      BY <3>1, EachUnitFacts, MarkFacts
  <2>4. front(m) \in Seq(Marks)
    BY <2>2
  <2>5. back(m) \in Seq(Marks)
    BY <2>1, <2>3
  <2> HIDE DEF front, back
  <2> QED
    BY <2>4, <2>5
<1>3. all \in Seq(Seq(Marks))
  <2>1. \A n \in DOMAIN reg.mem : reg.mem[n] \in Interfaces
    BY <1>1
  <2> DEFINE piece(n) == front(reg.mem[n]) \o back(reg.mem[n])
  <2>2. \A n \in DOMAIN reg.mem : piece(n) \in Seq(Marks)
    <3> HIDE DEF front, back
    <3> QED
      BY <1>2, <2>1
  <2> HIDE DEF piece
  <2>3. [n \in DOMAIN reg.mem |-> piece(n)] \in Seq(Seq(Marks))
    BY <1>1, <2>2
  <2> QED
    BY <2>3 DEF piece
<1> HIDE DEF all
<1>4. FlattenSeq(all) \in Seq(Marks)
  BY <1>3, FlattenFacts
<1> QED
  BY <1>4 DEF MemMarks, all

(* The code region is copied.                                              *)
LEMMA RegionText ==
    ASSUME Position, RegistryOK, Places, HasRegion
    PROVE  CodeRegion \in Seq(Copies)
<1> DEFINE start == reg.region["USER_APPLY_CODE_START"]
           end == reg.region["USER_APPLY_CODE_END"]
           all == [n \in DOMAIN files[start.file] |-> n]
           inside == SubSeq(all, start.ln + 1, end.ln - 2)
<1>1. /\ start.file \in DOMAIN files /\ start.ln \in 2 .. Len(files[start.file])
      /\ end.file = start.file /\ end.ln \in 2 .. Len(files[start.file])
  BY DEF Places, HasRegion
<1>2. Len(files[start.file]) \in Nat /\ DOMAIN files[start.file] = 1 .. Len(files[start.file])
      /\ start.file \in Nat
  <2>1. files \in Inputs
    BY DEF Position
  <2> DEFINE f == start.file
  <2> HIDE DEF f
  <2>2. f \in DOMAIN files
    BY <1>1 DEF f
  <2>3. f \in Nat /\ Len(files[f]) \in Nat /\ DOMAIN files[f] = 1 .. Len(files[f])
    BY <2>1, <2>2, FileFacts
  <2> QED
    BY <2>3 DEF f
<1>3. CodeRegion = [n \in DOMAIN inside |-> Copy(<<start.file, inside[n]>>, Verbatim)]
  BY DEF CodeRegion
<1> HIDE DEF start, end
<1>4. DOMAIN inside = 1 .. (1 + (end.ln - 2) - (start.ln + 1))
      /\ \A n \in DOMAIN inside : inside[n] \in Nat
  <2> DEFINE a == start.ln + 1
             b == end.ln - 2
             N == Len(files[start.file])
  <2>1. a \in Nat /\ b \in Int /\ a >= 1 /\ b <= N /\ N \in Nat /\ all = [n \in 1 .. N |-> n]
    BY <1>1, <1>2
  <2> HIDE DEF a, b, N, all
  <2>2. SubSeq(all, a, b) = [i \in 1 .. (1 + b - a) |-> all[i + a - 1]]
    BY <2>1
  <2>3. \A n \in 1 .. (1 + b - a) : all[n + a - 1] \in Nat
    BY <2>1
  <2> QED
    BY <2>2, <2>3 DEF a, b
<1> DEFINE L == 1 + (end.ln - 2) - (start.ln + 1)
<1>5. L \in Int
  BY <1>1, <1>2
<1> HIDE DEF inside
<1>6. \A n \in DOMAIN inside : Copy(<<start.file, inside[n]>>, Verbatim) \in Copies
  BY <1>2, <1>4 DEF Copy, Copies, Verbatim
<1>7. \E k \in Nat : 1 .. L = 1 .. k
  <2> HIDE DEF L
  <2>1. CASE L >= 0
    BY <1>5, <2>1
  <2>2. CASE L < 0
    BY <1>5, <2>2
  <2> QED
    BY <1>5, <2>1, <2>2
<1>8. PICK k \in Nat : DOMAIN inside = 1 .. k
  BY <1>4, <1>7
<1> QED
  BY <1>3, <1>6, <1>8

(* The role is one that a definition has in the code for a marker.         *)
HasRole(marker, d, role) ==
    \/ role = "own" /\ d.type \in WritesFor(marker)
    \/ role = "new" /\ d.type = "DEF_ARRAY" /\ marker \in WritesForNew

(* A definition has no role twice.                                        *)
LEMMA RolesFacts ==
    ASSUME NEW marker, NEW d
    PROVE  /\ Roles(marker, d) \in Seq(RoleNames)
           /\ \A z \in DOMAIN Roles(marker, d) : HasRole(marker, d, Roles(marker, d)[z])
           /\ \A z, q \in DOMAIN Roles(marker, d) :
                 Roles(marker, d)[z] = Roles(marker, d)[q] => z = q
<1> DEFINE own == d.type \in WritesFor(marker)
           new == d.type = "DEF_ARRAY" /\ marker \in WritesForNew
           f == IF own THEN <<"own">> ELSE <<>>
           g == IF new THEN <<"new">> ELSE <<>>
           s == f \o g
           one(role) == <<role>>
<1>1. Roles(marker, d) = s
  BY DEF Roles
<1>2. \A role : HasRole(marker, d, role) <=> (role = "own" /\ own) \/ (role = "new" /\ new)
  BY DEF HasRole
<1> HIDE DEF own, new
<1>3. /\ f \in Seq(RoleNames) /\ Len(f) = (IF own THEN 1 ELSE 0) /\ (own => f[1] = "own")
      /\ g \in Seq(RoleNames) /\ Len(g) = (IF new THEN 1 ELSE 0) /\ (new => g[1] = "new")
  <2>1. "own" \in RoleNames /\ "new" \in RoleNames
    BY DEF RoleNames
  <2>2. \A role \in RoleNames : one(role) \in Seq(RoleNames) /\ Len(one(role)) = 1 /\ one(role)[1] = role
    BY SingleFacts
  <2>3. f = (IF own THEN one("own") ELSE <<>>) /\ g = (IF new THEN one("new") ELSE <<>>)
    OBVIOUS
  <2>4. <<>> \in Seq(RoleNames) /\ Len(<<>>) = 0
    OBVIOUS
  <2> HIDE DEF one, f, g
  <2>5. f \in Seq(RoleNames) /\ Len(f) = (IF own THEN 1 ELSE 0) /\ (own => f[1] = "own")
    <3>1. CASE own
      <4>1. f = one("own")
        BY <2>3, <3>1
      <4> QED
        BY <2>1, <2>2, <3>1, <4>1
    <3>2. CASE ~own
      <4>1. f = <<>>
        BY <2>3, <3>2
      <4> QED
        BY <2>4, <3>2, <4>1
    <3> QED
      BY <3>1, <3>2
  <2>6. g \in Seq(RoleNames) /\ Len(g) = (IF new THEN 1 ELSE 0) /\ (new => g[1] = "new")
    <3>1. CASE new
      <4>1. g = one("new")
        BY <2>3, <3>1
      <4> QED
        BY <2>1, <2>2, <3>1, <4>1
    <3>2. CASE ~new
      <4>1. g = <<>>
        BY <2>3, <3>2
      <4> QED
        BY <2>4, <3>2, <4>1
    <3> QED
      BY <3>1, <3>2
  <2> QED
    BY <2>5, <2>6
<1> HIDE DEF f, g
<1>4. /\ s \in Seq(RoleNames) /\ DOMAIN s = 1 .. Len(f) + Len(g)
      /\ \A a \in 1 .. Len(f) : s[a] = f[a]
      /\ \A a \in Len(f) + 1 .. Len(f) + Len(g) : s[a] = g[a - Len(f)]
  BY <1>3, ConcatFacts DEF s
<1> HIDE DEF s
<1>5. CASE own /\ new
  <2>1. DOMAIN s = {1, 2} /\ s[1] = "own" /\ s[2] = "new"
    BY <1>3, <1>4, <1>5
  <2> QED
    BY <1>1, <1>2, <1>4, <1>5, <2>1
<1>6. CASE own /\ ~new
  <2>1. DOMAIN s = {1} /\ s[1] = "own"
    BY <1>3, <1>4, <1>6
  <2> QED
    BY <1>1, <1>2, <1>4, <1>6, <2>1
<1>7. CASE ~own /\ new
  <2>1. DOMAIN s = {1} /\ s[1] = "new"
    BY <1>3, <1>4, <1>7
  <2> QED
    BY <1>1, <1>2, <1>4, <1>7, <2>1
<1>8. CASE ~own /\ ~new
  <2>1. DOMAIN s = {}
    BY <1>3, <1>4, <1>8
  <2> QED
    BY <1>1, <1>4, <2>1
<1> QED
  BY <1>5, <1>6, <1>7, <1>8

(* The counters do not go back, and go on at a definition that is counted. *)
LEMMA BeforeGrows ==
    ASSUME reg.defs \in Seq(Defs), NEW T, NEW n \in Nat
    PROVE  /\ Before(n, T) \in Nat
           /\ n \in DOMAIN reg.defs =>
                 \A k \in Nat : n < k =>
                    /\ Before(n, T) <= Before(k, T)
                    /\ reg.defs[n].type \in T => Before(n, T) + 1 <= Before(k, T)
<1> DEFINE N == Len(reg.defs)
           S(k) == {j \in DOMAIN reg.defs : j < k /\ reg.defs[j].type \in T}
<1>1. N \in Nat /\ DOMAIN reg.defs = 1 .. N
  OBVIOUS
<1>2. \A k : Before(k, T) = Cardinality(S(k))
  BY DEF Before
<1>3. \A k \in Nat : IsFiniteSet(S(k)) /\ Cardinality(S(k)) \in Nat
  <2> TAKE k \in Nat
  <2>1. S(k) \in SUBSET (1 .. N)
    BY <1>1
  <2>2. IsFiniteSet(1 .. N)
    BY <1>1, FS_Interval
  <2>3. IsFiniteSet(S(k))
    BY <2>1, <2>2, FS_Subset
  <2> QED
    BY <2>3, FS_CardinalityType
<1>4. ASSUME n \in DOMAIN reg.defs, NEW k \in Nat, n < k
      PROVE  /\ Cardinality(S(n)) <= Cardinality(S(k))
             /\ reg.defs[n].type \in T => Cardinality(S(n)) + 1 <= Cardinality(S(k))
  <2>1. S(n) \in SUBSET S(k)
    BY <1>1, <1>4
  <2>2. Cardinality(S(n)) <= Cardinality(S(k))
    BY <1>3, <2>1, FS_Subset
  <2>3. ASSUME reg.defs[n].type \in T PROVE Cardinality(S(n)) + 1 <= Cardinality(S(k))
    <3>1. S(n) \cup {n} \in SUBSET S(k) /\ n \notin S(n)
      BY <1>1, <1>4, <2>1, <2>3
    <3>2. Cardinality(S(n) \cup {n}) = Cardinality(S(n)) + 1
      BY <1>3, <3>1, FS_AddElement
    <3>3. Cardinality(S(n) \cup {n}) <= Cardinality(S(k))
      BY <1>3, <3>1, FS_Subset
    <3> QED
      BY <3>2, <3>3
  <2> QED
    BY <2>2, <2>3
<1> HIDE DEF S
<1>5. Before(n, T) \in Nat
  BY <1>2, <1>3
<1>6. ASSUME n \in DOMAIN reg.defs, NEW k \in Nat, n < k
      PROVE  /\ Before(n, T) <= Before(k, T)
             /\ reg.defs[n].type \in T => Before(n, T) + 1 <= Before(k, T)
  BY <1>2, <1>4, <1>6
<1> QED
  BY <1>5, <1>6

(* The arithmetic of it: a and d count arrays and those written back.      *)
LEMMA IdsApart ==
    ASSUME NEW c \in Int, NEW a \in Int, NEW d \in Int, NEW a2 \in Int, NEW d2 \in Int,
           NEW i \in {1, 2}, NEW j \in {1, 2},
           a + 1 <= a2, d <= d2, i = 2 => d + 1 <= d2
    PROVE  c + a + d + i < c + a2 + d2 + j
  OBVIOUS

(* The markers for which NumbersDistinct is about numbers.                 *)
MemIdMarker == "DUMP_MEM_ATTR"
BundleMarker == "USER_APPLY_STREAM_ATTR"

(* What NumberOf makes of the counters.                                    *)
LEMMA NumberOfFacts ==
    ASSUME reg.defs \in Seq(Defs), counter \in [gmem : Nat, mem_id : Nat], NEW u \in Nat
    PROVE  /\ \E c \in Int : \A n, role :
                 NumberOf(MemIdMarker, u, n, role) =
                    c + Before(n, Arrays) + Before(n, Duplex) + (IF role = "own" THEN 1 ELSE 2)
           /\ \E c \in Int : \A n, role :
                 NumberOf(BundleMarker, u, n, role) = c + Before(n, Arrays)
<1>1. Len(reg.defs) + 1 \in Nat
  OBVIOUS
<1>2. GmemsUsed \in Nat /\ MemIdsUsed \in Nat
  BY <1>1, BeforeGrows DEF GmemsUsed, MemIdsUsed
<1>3. counter.gmem \in Nat /\ counter.mem_id \in Nat
  OBVIOUS
<1> DEFINE g == (u - 1) * GmemsUsed
           m == (u - 1) * MemIdsUsed
           cm == counter.mem_id + m
           cg == counter.gmem + g
<1>4. g \in Int /\ m \in Int
  BY <1>2
<1> HIDE DEF g, m
<1>5. cm \in Int /\ cg \in Int
  BY <1>3, <1>4
<1>6. \A n, role : NumberOf(MemIdMarker, u, n, role) =
          cm + Before(n, Arrays) + Before(n, Duplex) + (IF role = "own" THEN 1 ELSE 2)
  BY DEF NumberOf, MemIdMarker, m
<1>7. \A n, role : NumberOf(BundleMarker, u, n, role) = cg + Before(n, Arrays)
  BY DEF NumberOf, BundleMarker, g
<1> QED
  BY <1>5, <1>6, <1>7

(* It is a number in every case.                                          *)
LEMMA NumberIsInt ==
    ASSUME reg.defs \in Seq(Defs), counter \in [gmem : Nat, mem_id : Nat], NEW u \in Nat,
           NEW marker, NEW n \in DOMAIN reg.defs, NEW role
    PROVE  NumberOf(marker, u, n, role) \in Int
<1>1. n \in Nat /\ reg.defs[n] \in Defs
  OBVIOUS
<1>2. reg.defs[n].mem_chn \in Int
  BY <1>1 DEF Defs
<1>3. Before(n, Arrays) \in Nat /\ Before(n, Duplex) \in Nat
  BY <1>1, BeforeGrows
<1>4. CASE marker = MemIdMarker
  <2>1. PICK c \in Int : NumberOf(marker, u, n, role) =
             c + Before(n, Arrays) + Before(n, Duplex) + (IF role = "own" THEN 1 ELSE 2)
    BY <1>4, NumberOfFacts
  <2> QED
    BY <1>3, <2>1
<1>5. CASE marker = BundleMarker
  <2>1. PICK c \in Int : NumberOf(marker, u, n, role) = c + Before(n, Arrays)
    BY <1>5, NumberOfFacts
  <2> QED
    BY <1>3, <2>1
<1>6. CASE marker # MemIdMarker /\ marker # BundleMarker
  BY <1>2, <1>6 DEF NumberOf, MemIdMarker, BundleMarker, Verbatim
<1> QED
  BY <1>4, <1>5, <1>6

(* The ids of an earlier definition are smaller.                           *)
LEMMA IdsGrow ==
    ASSUME reg.defs \in Seq(Defs), counter \in [gmem : Nat, mem_id : Nat], NEW u \in Nat,
           NEW n \in DOMAIN reg.defs, NEW k \in DOMAIN reg.defs, n < k,
           NEW q, HasRole(MemIdMarker, reg.defs[n], q), NEW p
    PROVE  NumberOf(MemIdMarker, u, n, q) < NumberOf(MemIdMarker, u, k, p)
<1> DEFINE a == Before(n, Arrays)
           d == Before(n, Duplex)
           a2 == Before(k, Arrays)
           d2 == Before(k, Duplex)
           i == IF q = "own" THEN 1 ELSE 2
           j == IF p = "own" THEN 1 ELSE 2
<1>1. n \in Nat /\ k \in Nat
  OBVIOUS
<1>2. a \in Int /\ d \in Int /\ a2 \in Int /\ d2 \in Int
  BY <1>1, BeforeGrows
<1>3. reg.defs[n].type \in Arrays /\ (q # "own" => reg.defs[n].type \in Duplex)
  <2>1. WritesFor(MemIdMarker) = Arrays
    BY DEF WritesFor, MemIdMarker
  <2>2. "DEF_ARRAY" \in Arrays /\ "DEF_ARRAY" \in Duplex
    BY DEF Arrays, Duplex
  <2> QED
    BY <2>1, <2>2 DEF HasRole
<1>4. a + 1 <= a2 /\ d <= d2 /\ (q # "own" => d + 1 <= d2)
  BY <1>1, <1>3, BeforeGrows
<1>5. PICK c \in Int : \A m, role : NumberOf(MemIdMarker, u, m, role) =
         c + Before(m, Arrays) + Before(m, Duplex) + (IF role = "own" THEN 1 ELSE 2)
  BY NumberOfFacts
<1>6. NumberOf(MemIdMarker, u, n, q) = c + a + d + i /\ NumberOf(MemIdMarker, u, k, p) = c + a2 + d2 + j
  BY <1>5
<1>7. i \in {1, 2} /\ j \in {1, 2} /\ (i = 2 => d + 1 <= d2)
  BY <1>4
<1> HIDE DEF a, d, a2, d2, i, j
<1>8. c + a + d + i < c + a2 + d2 + j
  BY <1>2, <1>4, <1>7, IdsApart
<1> QED
  BY <1>6, <1>8

(* And so are those of one definition.                                    *)
LEMMA SumsDiffer ==
    ASSUME NEW c \in Int, NEW a \in Int, NEW d \in Int, NEW i \in Int, NEW j \in Int,
           c + a + d + i = c + a + d + j
    PROVE  i = j
  OBVIOUS

(* So no two of them are equal.                                            *)
LEMMA IdsDiffer ==
    ASSUME reg.defs \in Seq(Defs), counter \in [gmem : Nat, mem_id : Nat], NEW u \in Nat,
           NEW n \in DOMAIN reg.defs, NEW k \in DOMAIN reg.defs,
           NEW q, HasRole(MemIdMarker, reg.defs[n], q),
           NEW p, HasRole(MemIdMarker, reg.defs[k], p),
           NumberOf(MemIdMarker, u, n, q) = NumberOf(MemIdMarker, u, k, p)
    PROVE  n = k /\ q = p
<1> DEFINE x == NumberOf(MemIdMarker, u, n, q)
           y == NumberOf(MemIdMarker, u, k, p)
<1>1. x \in Int /\ y \in Int /\ x = y /\ n \in Nat /\ k \in Nat
  BY NumberIsInt
<1>2. ~(n < k)
  <2>1. SUFFICES ASSUME n < k PROVE FALSE
    OBVIOUS
  <2>2. x < y
    BY <2>1, IdsGrow
  <2> HIDE DEF x, y
  <2> QED
    BY <1>1, <2>2
<1>3. ~(k < n)
  <2>1. SUFFICES ASSUME k < n PROVE FALSE
    OBVIOUS
  <2>2. y < x
    BY <2>1, IdsGrow
  <2> HIDE DEF x, y
  <2> QED
    BY <1>1, <2>2
<1>4. n = k
  BY <1>1, <1>2, <1>3
<1>5. q \in RoleNames /\ p \in RoleNames
  BY DEF HasRole, RoleNames
<1>6. ASSUME q # p PROVE FALSE
  <2> DEFINE b == Before(n, Arrays)
             d == Before(n, Duplex)
             i == IF q = "own" THEN 1 ELSE 2
             j == IF p = "own" THEN 1 ELSE 2
  <2>1. b \in Int /\ d \in Int
    BY <1>1, BeforeGrows
  <2>2. PICK c \in Int : \A m, role : NumberOf(MemIdMarker, u, m, role) =
           c + Before(m, Arrays) + Before(m, Duplex) + (IF role = "own" THEN 1 ELSE 2)
    BY NumberOfFacts
  <2>3. x = c + b + d + i
    BY <2>2
  <2>4. y = c + b + d + j
    BY <1>4, <2>2
  <2>5. i \in Int /\ j \in Int /\ i # j
    BY <1>5, <1>6 DEF RoleNames
  <2> HIDE DEF b, d, i, j, x, y
  <2>6. c + b + d + i = c + b + d + j
    BY <1>1, <2>3, <2>4
  <2> QED
    BY <2>1, <2>5, <2>6, SumsDiffer
<1> QED
  BY <1>4, <1>6

(* Arrays do not share a bundle.                                           *)
LEMMA BundlesApart ==
    ASSUME reg.defs \in Seq(Defs), ArgsDiffer(reg.defs),
           counter \in [gmem : Nat, mem_id : Nat], NEW u \in Nat,
           NEW n \in DOMAIN reg.defs, NEW k \in DOMAIN reg.defs,
           NEW q, HasRole(BundleMarker, reg.defs[n], q),
           NEW p, HasRole(BundleMarker, reg.defs[k], p)
    PROVE  NumberOf(BundleMarker, u, n, q) = NumberOf(BundleMarker, u, k, p)
              <=> reg.defs[n].arg = reg.defs[k].arg
<1>1. n \in Nat /\ k \in Nat
  OBVIOUS
<1>2. Before(n, Arrays) \in Int /\ Before(k, Arrays) \in Int
  BY <1>1, BeforeGrows
<1>3. reg.defs[n].type \in Arrays /\ reg.defs[k].type \in Arrays
  <2>1. WritesFor(BundleMarker) = Arrays
    BY DEF WritesFor, BundleMarker
  <2>2. "DEF_ARRAY" \in Arrays
    BY DEF Arrays
  <2> QED
    BY <2>1, <2>2 DEF HasRole
<1>4. /\ n < k => Before(n, Arrays) + 1 <= Before(k, Arrays)
      /\ k < n => Before(k, Arrays) + 1 <= Before(n, Arrays)
  BY <1>1, <1>3, BeforeGrows
<1>5. PICK c \in Int : \A m, role : NumberOf(BundleMarker, u, m, role) = c + Before(m, Arrays)
  BY NumberOfFacts
<1>6. NumberOf(BundleMarker, u, n, q) = NumberOf(BundleMarker, u, k, p) <=> n = k
  BY <1>1, <1>2, <1>4, <1>5
<1>7. reg.defs[n].arg = reg.defs[k].arg <=> n = k
  BY DEF ArgsDiffer
<1> QED
  BY <1>6, <1>7

(* The code for a marker.                                                  *)
LEMMA GeneratedText ==
    ASSUME RegistryOK, ArgsDiffer(reg.defs), counter \in [gmem : Nat, mem_id : Nat],
           NEW u \in Nat, NEW marker \in Range(Markers)
    PROVE  TextOf(Generated(marker, u), {marker})
<1> DEFINE roles(n) == Roles(marker, reg.defs[n])
           piece(n) == [z \in DOMAIN roles(n) |->
                           Code(marker, reg.defs[n].arg, roles(n)[z],
                                NumberOf(marker, u, n, roles(n)[z]))]
           all == [n \in DOMAIN reg.defs |-> piece(n)]
           e == FlattenSeq(all)
<1>1. reg.defs \in Seq(Defs)
  BY DEF RegistryOK
<1>2. \A n \in DOMAIN reg.defs : /\ roles(n) \in Seq(RoleNames)
                                 /\ \A z \in DOMAIN roles(n) : HasRole(marker, reg.defs[n], roles(n)[z])
                                 /\ \A z, q \in DOMAIN roles(n) : roles(n)[z] = roles(n)[q] => z = q
  BY RolesFacts
<1> HIDE DEF roles
<1>3. ASSUME NEW n \in DOMAIN reg.defs, NEW role \in RoleNames
      PROVE  Code(marker, reg.defs[n].arg, role, NumberOf(marker, u, n, role)) \in Codes
  <2>1. reg.defs[n].arg \in STRING
    <3>1. reg.defs[n] \in Defs
      BY <1>1
    <3> QED
      BY <3>1 DEF Defs
  <2>2. NumberOf(marker, u, n, role) \in Int
    BY <1>1, NumberIsInt
  <2> QED
    BY <2>1, <2>2 DEF Code, Codes
<1>4. \A n \in DOMAIN reg.defs : piece(n) \in Seq(Codes)
  <2> TAKE n \in DOMAIN reg.defs
  <2>1. /\ \E N \in Nat : DOMAIN roles(n) = 1 .. N
        /\ \A z \in DOMAIN roles(n) : roles(n)[z] \in RoleNames
    BY <1>2
  <2>2. \A z \in DOMAIN roles(n) : Code(marker, reg.defs[n].arg, roles(n)[z],
                                        NumberOf(marker, u, n, roles(n)[z])) \in Codes
    BY <1>3, <2>1
  <2> QED
    BY <2>1, <2>2
<1>5. all \in Seq(Seq(Codes)) /\ Len(all) \in Nat
  <2> HIDE DEF piece
  <2> QED
    BY <1>1, <1>4
<1>6. DOMAIN all = DOMAIN reg.defs /\ DOMAIN all = 1 .. Len(all)
      /\ \A n \in DOMAIN reg.defs : all[n] = piece(n)
  <2> HIDE DEF piece
  <2> QED
    BY <1>1, <1>5
<1> HIDE DEF all
<1>7. e \in Seq(Codes) /\ \E at : Located(e, all, Len(all), at)
  BY <1>5, FlattenFacts
<1>8. PICK at : Located(e, all, Len(all), at)
  BY <1>7
<1> HIDE DEF e
<1> DEFINE d(a) == at[a][1]
           z(a) == at[a][2]
           q(a) == roles(d(a))[z(a)]
<1>9. ASSUME NEW a \in DOMAIN e
      PROVE  /\ d(a) \in DOMAIN reg.defs /\ z(a) \in DOMAIN roles(d(a))
             /\ e[a] = Code(marker, reg.defs[d(a)].arg, q(a), NumberOf(marker, u, d(a), q(a)))
             /\ HasRole(marker, reg.defs[d(a)], q(a))
             /\ at[a] = <<d(a), z(a)>>
  <2>1. at[a] \in (1 .. Len(all)) \X Nat
    BY <1>8 DEF Located
  <2>2. d(a) \in DOMAIN reg.defs /\ at[a] = <<d(a), z(a)>>
    BY <1>6, <2>1
  <2>3. z(a) \in DOMAIN all[d(a)] /\ e[a] = all[d(a)][z(a)]
    BY <1>8 DEF Located
  <2> HIDE DEF d, z
  <2>4. all[d(a)] = piece(d(a))
    BY <1>6, <2>2
  <2>5. DOMAIN piece(d(a)) = DOMAIN roles(d(a))
    OBVIOUS
  <2>6. z(a) \in DOMAIN roles(d(a))
    BY <2>3, <2>4, <2>5
  <2>7. e[a] = Code(marker, reg.defs[d(a)].arg, q(a), NumberOf(marker, u, d(a), q(a)))
    BY <2>3, <2>4, <2>6
  <2> QED
    BY <1>2, <2>2, <2>6, <2>7
<1> HIDE DEF d, z
<1>10. \A a \in DOMAIN e : /\ e[a].code = marker /\ e[a].arg = reg.defs[d(a)].arg
                           /\ e[a].number = NumberOf(marker, u, d(a), q(a))
  BY <1>9 DEF Code
<1>11. ASSUME NEW a \in DOMAIN e, NEW b \in DOMAIN e, a # b
       PROVE  d(a) # d(b) \/ q(a) # q(b)
  <2>1. at[a] # at[b]
    BY <1>8, <1>11 DEF Located
  <2>2. d(a) # d(b) \/ z(a) # z(b)
    BY <1>9, <2>1
  <2> QED
    BY <1>2, <1>9, <2>2
<1>12. ASSUME NEW a \in DOMAIN e, NEW b \in DOMAIN e, a # b, marker = MemIdMarker
       PROVE  e[a].number # e[b].number
  <2>1. d(a) # d(b) \/ q(a) # q(b)
    BY <1>11, <1>12
  <2>2. PICK n1, q1, n2, q2 : n1 = d(a) /\ q1 = q(a) /\ n2 = d(b) /\ q2 = q(b)
    OBVIOUS
  <2>3. /\ n1 \in DOMAIN reg.defs /\ HasRole(MemIdMarker, reg.defs[n1], q1)
        /\ n2 \in DOMAIN reg.defs /\ HasRole(MemIdMarker, reg.defs[n2], q2)
    BY <1>9, <1>12, <2>2
  <2>4. NumberOf(MemIdMarker, u, n1, q1) # NumberOf(MemIdMarker, u, n2, q2)
    BY <1>1, <2>1, <2>2, <2>3, IdsDiffer
  <2> QED
    BY <1>10, <1>12, <2>2, <2>4
<1>13. ASSUME NEW a \in DOMAIN e, NEW b \in DOMAIN e, marker = BundleMarker
       PROVE  e[a].number = e[b].number <=> e[a].arg = e[b].arg
  <2>1. PICK n1, q1, n2, q2 : n1 = d(a) /\ q1 = q(a) /\ n2 = d(b) /\ q2 = q(b)
    OBVIOUS
  <2>2. /\ n1 \in DOMAIN reg.defs /\ HasRole(BundleMarker, reg.defs[n1], q1)
        /\ n2 \in DOMAIN reg.defs /\ HasRole(BundleMarker, reg.defs[n2], q2)
    BY <1>9, <1>13, <2>1
  <2>3. NumberOf(BundleMarker, u, n1, q1) = NumberOf(BundleMarker, u, n2, q2)
           <=> reg.defs[n1].arg = reg.defs[n2].arg
    BY <1>1, <2>2, BundlesApart
  <2> QED
    BY <1>10, <1>13, <2>1, <2>3
<1>14. e \in Seq(Texts)
  BY <1>7 DEF Texts
<1>15. CodesIn(e) \subseteq {marker}
  BY <1>10 DEF CodesIn
<1>16. Distinct(e)
  BY <1>10, <1>12, <1>13 DEF Distinct, MemIdMarker, BundleMarker
<1>17. Generated(marker, u) = e
  BY DEF Generated, e, all, roles
<1> QED
  BY <1>14, <1>15, <1>16, <1>17 DEF TextOf

(* More markers may have code.                                            *)
LEMMA TextGrows ==
    ASSUME NEW s, NEW C, TextOf(s, C), NEW D, C \subseteq D
    PROVE  TextOf(s, D)
  BY DEF TextOf

(* The number of an output is a natural number.                            *)
LEMMA OutputFacts ==
    ASSUME Written
    PROVE  DOMAIN outputs \subseteq Nat /\ Cardinality(DOMAIN outputs) \in Nat
<1> DEFINE D == DOMAIN outputs
<1>1. D = {} \/ D = {1} \/ D = 1 .. SLR_NUM
  BY DEF Written, Unit
<1> HIDE DEF D
<1>2. SLR_NUM \in Nat
  BY UnitAssumption
<1>3. IsFiniteSet({}) /\ IsFiniteSet({1}) /\ IsFiniteSet(1 .. SLR_NUM)
  <2>1. IsFiniteSet({}) /\ IsFiniteSet({1})
    BY FS_EmptySet, FS_Singleton
  <2>2. 1 \in Int /\ SLR_NUM \in Int
    BY <1>2
  <2>3. IsFiniteSet(1 .. SLR_NUM)
    BY <2>2, FS_Interval
  <2> QED
    BY <2>1, <2>3
<1>4. D \subseteq Nat
  BY <1>1, <1>2
<1>5. IsFiniteSet(D)
  BY <1>1, <1>3
<1>6. Cardinality(D) \in Nat
  BY <1>5, FS_CardinalityType
<1> QED
  BY <1>4, <1>6 DEF D

(* The markers that lie behind the line at hand, and those at it.          *)
Behind == {m \in DOMAIN reg.marker : reg.marker[m] <= ln}
AtHand == {m \in DOMAIN reg.marker : reg.marker[m] = ln + 1}

(* They are not the same.                                                 *)
LEMMA MarkersApart ==
    ASSUME GeneratorInv, phase = "output"
    PROVE  ln \in Nat /\ Behind \cap AtHand = {}
<1>1. ln \in Nat
  <2>1. files \in Inputs /\ file \in DOMAIN files /\ ln \in 1 .. Len(files[file]) + 1
    BY DEF GeneratorInv, Position
  <2>2. Len(files[file]) \in Nat
    BY <2>1, FileFacts
  <2> QED
    BY <2>1, <2>2
<1>2. \A m \in DOMAIN reg.marker : reg.marker[m] \in Nat
  BY DEF GeneratorInv, RegisteredInv, RegistryOK, IsMap
<1> QED
  BY <1>1, <1>2 DEF Behind, AtHand

(* What the parser of the user's code writes is code for the marker at     *)
(* hand, or the code region.                                               *)
LEMMA CustomizedText ==
    ASSUME GeneratorInv, ~(1 \in MarkersAtLine /\ ~HasRegion), NEW u \in Nat
    PROVE  TextOf(Customized(u), AtHand)
<1>1. RegistryOK /\ Places /\ Position /\ ArgsDiffer(reg.defs)
      /\ counter \in [gmem : Nat, mem_id : Nat]
  BY DEF GeneratorInv, RegisteredInv, Written
<1>2. CASE MarkersAtLine = {}
  <2>1. <<>> \in Seq(Copies)
    OBVIOUS
  <2>2. TextOf(<<>>, {})
    BY <2>1, CopiesText
  <2>3. Customized(u) = <<>>
    BY <1>2 DEF Customized
  <2> QED
    BY <2>2, <2>3, TextGrows
<1>3. CASE MarkersAtLine # {}
  <2>1. PICK n : n = First(MarkersAtLine)
    OBVIOUS
  <2>2. n \in MarkersAtLine
    <3>1. DOMAIN Markers \subseteq Nat
      BY DEF Markers
    <3>2. MarkersAtLine \in SUBSET Nat
      BY <3>1 DEF MarkersAtLine
    <3> QED
      BY <1>3, <2>1, <3>2, FirstFacts
  <2>3. PICK marker : marker = Markers[n]
    OBVIOUS
  <2>4. marker \in Range(Markers) /\ marker \in AtHand
    BY <2>2, <2>3 DEF MarkersAtLine, AtHand, Range
  <2>5. Customized(u) = IF marker = "USER_APPLY_CAL" THEN CodeRegion ELSE Generated(marker, u)
    BY <1>3, <2>1, <2>3 DEF Customized
  <2>6. CASE marker = "USER_APPLY_CAL"
    <3>1. 1 \in DOMAIN Markers /\ Markers[1] = marker
      BY <2>6 DEF Markers
    <3>2. 1 \in MarkersAtLine
      BY <2>4, <3>1 DEF MarkersAtLine, AtHand
    <3>3. CodeRegion \in Seq(Copies)
      BY <1>1, <3>2, RegionText
    <3>4. TextOf(CodeRegion, {})
      BY <3>3, CopiesText
    <3> QED
      BY <2>5, <2>6, <3>4, TextGrows
  <2>7. CASE marker # "USER_APPLY_CAL"
    <3>1. TextOf(Generated(marker, u), {marker})
      BY <1>1, <2>4, GeneratedText
    <3>2. {marker} \subseteq AtHand
      BY <2>4
    <3> QED
      BY <2>5, <2>7, <3>1, <3>2, TextGrows
  <2> QED
    BY <2>6, <2>7
<1> QED
  BY <1>2, <1>3

(* Lines that are copied add no code.                                     *)
LEMMA CopiesBehind ==
    ASSUME NEW s, NEW C, TextOf(s, C), NEW t \in Seq(Copies)
    PROVE  TextOf(s \o t, C)
<1>1. TextOf(t, {}) /\ C \cap {} = {} /\ C \cup {} = C
  BY CopiesText
<1>2. TextOf(s \o t, C \cup {})
  BY <1>1, TextConcat
<1> QED
  BY <1>1, <1>2

(* What an output has so far.                                              *)
LEMMA OutputText ==
    ASSUME GeneratorInv, phase = "output", NEW u \in DOMAIN outputs
    PROVE  TextOf(outputs[u], Behind)
<1>1. outputs[u] \in Seq(Texts)
  BY DEF GeneratorInv, Written
<1>2. CodesIn(outputs[u]) \subseteq Behind
  BY DEF GeneratorInv, Written, WrittenOnce, CodesIn, Behind
<1>3. Distinct(outputs[u])
  BY DEF GeneratorInv, Written, NumbersDistinct, Distinct
<1> QED
  BY <1>1, <1>2, <1>3 DEF TextOf

(* A line: code is added for the marker at hand only.                      *)
LEMMA LineText ==
    ASSUME GeneratorInv, phase = "output", ~(1 \in MarkersAtLine /\ ~HasRegion),
           NEW u \in DOMAIN outputs
    PROVE  TextOf(outputs[u] \o Expanded(KernelMarks(u)) \o Expanded(MemMarks)
                    \o Customized(u) \o Expanded(MkMarks)
                    \o (IF Taken(u) THEN <<>> ELSE <<Copy(<<1, ln>>, Verbatim)>>),
                  Behind \cup AtHand)
<1> DEFINE k == Expanded(KernelMarks(u))
           m == Expanded(MemMarks)
           c == Customized(u)
           f == Expanded(MkMarks)
           l == IF Taken(u) THEN <<>> ELSE <<Copy(<<1, ln>>, Verbatim)>>
           o == outputs[u]
<1>1. RegistryOK /\ Written
  BY DEF GeneratorInv, RegisteredInv
<1>2. u \in Nat /\ ln \in Nat /\ Behind \cap AtHand = {}
  BY <1>1, OutputFacts, MarkersApart
<1>3. k \in Seq(Copies)
  BY <1>1, <1>2, KernelMarksFacts, ExpandedFacts
<1>4. m \in Seq(Copies)
  BY <1>1, MemMarksFacts, ExpandedFacts
<1>5. f \in Seq(Copies)
  BY <1>1, MkMarksFacts, ExpandedFacts
<1>6. l \in Seq(Copies)
  <2>1. Copy(<<1, ln>>, Verbatim) \in Copies
    BY <1>2 DEF Copy, Copies, Verbatim
  <2>2. <<Copy(<<1, ln>>, Verbatim)>> \in Seq(Copies)
    BY <2>1
  <2>3. <<>> \in Seq(Copies)
    OBVIOUS
  <2> QED
    BY <2>2, <2>3
<1>7. TextOf(c, AtHand)
  BY <1>2, CustomizedText
<1>8. TextOf(o, Behind)
  BY OutputText
<1> HIDE DEF k, m, c, f, l, o
<1>9. TextOf(o \o k \o m, Behind)
  BY <1>3, <1>4, <1>8, CopiesBehind
<1>10. TextOf(o \o k \o m \o c, Behind \cup AtHand)
  BY <1>2, <1>7, <1>9, TextConcat
<1>11. TextOf(o \o k \o m \o c \o f \o l, Behind \cup AtHand)
  BY <1>5, <1>6, <1>10, CopiesBehind
<1> QED
  BY <1>11 DEF k, m, c, f, l, o

(* What follows for the outputs when each has become a text.               *)
LEMMA WrittenNext ==
    ASSUME DOMAIN outputs' = DOMAIN outputs, DOMAIN outputs \in {{}, {1}, Unit},
           counter' \in [gmem : Nat, mem_id : Nat],
           NEW C, \A u \in DOMAIN outputs : TextOf(outputs'[u], C),
           outputs' = [u \in DOMAIN outputs' |-> outputs'[u]],
           phase' = "output" => C \subseteq Behind'
    PROVE  Written'
<1>1. outputs' \in [DOMAIN outputs' -> Seq(Texts)]
  BY DEF TextOf
<1>2. WrittenOnce'
  <2>1. SUFFICES ASSUME phase' = "output", NEW u \in DOMAIN outputs', NEW a \in DOMAIN outputs'[u],
                        "code" \in DOMAIN outputs'[u][a]
                 PROVE  outputs'[u][a].code \in Behind'
    BY DEF WrittenOnce, Behind
  <2>2. outputs'[u][a].code \in CodesIn(outputs'[u])
    BY <2>1 DEF CodesIn
  <2> QED
    BY <2>1, <2>2 DEF TextOf
<1>3. NumbersDistinct'
  <2>1. \A u \in DOMAIN outputs' : Distinct(outputs'[u])
    BY DEF TextOf
  <2> QED
    BY <2>1 DEF NumbersDistinct, Distinct
<1> QED
  BY <1>1, <1>2, <1>3 DEF Written

(* A line is written.                                                      *)
LEMMA WriteStep == ASSUME GeneratorInv, WriteLine PROVE GeneratorInv'
<1>1. Position /\ Written /\ RegisteredInv
  BY DEF GeneratorInv
<1> DEFINE new(u) == outputs[u]
          \o Expanded(KernelMarks(u)) \o Expanded(MemMarks)
          \o Customized(u) \o Expanded(MkMarks)
          \o (IF Taken(u) THEN <<>> ELSE <<Copy(<<1, ln>>, Verbatim)>>)
<1>2. /\ phase = "output" /\ ln <= Len(files[1]) /\ ~(1 \in MarkersAtLine /\ ~HasRegion)
      /\ outputs' = [u \in DOMAIN outputs |-> new(u)]
      /\ counter' = IF MarkersAtLine = {} THEN counter
                    ELSE CountersAfter(Markers[First(MarkersAtLine)])
      /\ ln' = ln + 1
      /\ files' = files /\ phase' = phase /\ file' = file /\ reg' = reg
  BY DEF WriteLine, Writing
<1>3. \A u \in DOMAIN outputs : TextOf(new(u), Behind \cup AtHand)
  BY <1>2, LineText
<1> HIDE DEF new
<1>4. ln \in Nat /\ file = 1 /\ 1 \in DOMAIN files /\ Len(files[1]) \in Nat
  BY <1>1, <1>2, FileFacts, MarkersApart DEF Position
<1>5. Position'
  BY <1>1, <1>2, <1>4 DEF Position
<1>6. Behind \cup AtHand \subseteq Behind'
  <2>1. \A m \in DOMAIN reg.marker : reg.marker[m] \in Nat
    BY <1>1 DEF RegisteredInv, RegistryOK, IsMap
  <2> QED
    BY <1>2, <1>4, <2>1 DEF Behind, AtHand
<1>7. counter' \in [gmem : Nat, mem_id : Nat]
  <2> DEFINE D == Cardinality(DOMAIN outputs)
             g == D * GmemsUsed
             i == D * MemIdsUsed
  <2>1. counter \in [gmem : Nat, mem_id : Nat]
    BY <1>1 DEF Written
  <2>2. GmemsUsed \in Nat /\ MemIdsUsed \in Nat
    <3>1. reg.defs \in Seq(Defs)
      BY <1>1 DEF RegisteredInv, RegistryOK
    <3>2. Len(reg.defs) + 1 \in Nat
      BY <3>1
    <3> QED
      BY <3>1, <3>2, BeforeGrows DEF GmemsUsed, MemIdsUsed
  <2>3. D \in Nat
    BY <1>1, OutputFacts
  <2> HIDE DEF D
  <2>4. g \in Nat /\ i \in Nat
    BY <2>2, <2>3
  <2>5. \A marker : CountersAfter(marker) =
           [gmem |-> counter.gmem + IF marker = "USER_APPLY_STREAM_ATTR" THEN g ELSE 0,
            mem_id |-> counter.mem_id + IF marker = "DUMP_MEM_ATTR" THEN i ELSE 0]
    BY DEF CountersAfter, D
  <2> HIDE DEF g, i
  <2>6. \A marker : CountersAfter(marker) \in [gmem : Nat, mem_id : Nat]
    BY <2>1, <2>4, <2>5
  <2> QED
    BY <1>2, <2>1, <2>6
<1>8. Written'
  <2>1. DOMAIN outputs' = DOMAIN outputs /\ DOMAIN outputs \in {{}, {1}, Unit}
        /\ outputs' = [u \in DOMAIN outputs' |-> outputs'[u]]
    BY <1>1, <1>2 DEF Written
  <2>2. PICK C : C = Behind \cup AtHand
    OBVIOUS
  <2>3. \A u \in DOMAIN outputs : TextOf(outputs'[u], C)
    BY <1>2, <1>3, <2>2
  <2>4. C \subseteq Behind'
    BY <1>6, <2>2
  <2> QED
    BY <1>7, <2>1, <2>3, <2>4, WrittenNext
<1>9. RegisteredInv'
  BY <1>1, <1>2, RegisteredStays
<1> QED
  BY <1>5, <1>8, <1>9 DEF GeneratorInv

(* The program gives up at a line.                                         *)
LEMMA NoRegionStep == ASSUME GeneratorInv, NoRegion PROVE GeneratorInv'
<1>1. Position /\ Written /\ RegisteredInv
  BY DEF GeneratorInv
<1> DEFINE new(u) == outputs[u] \o Expanded(KernelMarks(u)) \o Expanded(MemMarks)
<1>2. /\ phase = "output"
      /\ outputs' = [u \in DOMAIN outputs |-> new(u)]
      /\ phase' = "failed"
      /\ files' = files /\ file' = file /\ ln' = ln /\ reg' = reg /\ counter' = counter
  BY DEF NoRegion, Writing
<1>3. \A u \in DOMAIN outputs : TextOf(new(u), Behind)
  <2> TAKE u \in DOMAIN outputs
  <2>1. TextOf(outputs[u], Behind)
    BY <1>2, OutputText
  <2>2. u \in Nat /\ RegistryOK
    BY <1>1, OutputFacts DEF RegisteredInv
  <2>3. Expanded(KernelMarks(u)) \in Seq(Copies) /\ Expanded(MemMarks) \in Seq(Copies)
    BY <2>2, KernelMarksFacts, MemMarksFacts, ExpandedFacts
  <2> QED
    BY <2>1, <2>3, CopiesBehind
<1> HIDE DEF new
<1>4. Position'
  BY <1>1, <1>2 DEF Position
<1>5. Written'
  <2>1. DOMAIN outputs' = DOMAIN outputs /\ DOMAIN outputs \in {{}, {1}, Unit}
        /\ outputs' = [u \in DOMAIN outputs' |-> outputs'[u]]
        /\ counter' \in [gmem : Nat, mem_id : Nat]
    BY <1>1, <1>2 DEF Written
  <2>2. PICK C : C = Behind
    OBVIOUS
  <2>3. \A u \in DOMAIN outputs : TextOf(outputs'[u], C)
    BY <1>2, <1>3, <2>2
  <2> QED
    BY <1>2, <2>1, <2>3, WrittenNext
<1>6. RegisteredInv'
  BY <1>1, <1>2, RegisteredStays
<1> QED
  BY <1>4, <1>5, <1>6 DEF GeneratorInv

(* Nothing is registered when the program starts.                          *)
LEMMA StartsEmpty == ASSUME GeneratorInit PROVE GeneratorInv
<1>1. /\ files \in Inputs /\ phase = "input" /\ file = 1 /\ ln = 1
      /\ reg = Record(<<>>, <<>>, <<>>, <<>>, <<>>, <<>>)
      /\ counter = [gmem |-> 6, mem_id |-> 0] /\ outputs = <<>>
  BY DEF GeneratorInit, Record
<1>2. /\ reg.kernel = <<>> /\ reg.mem = <<>> /\ reg.mk = <<>> /\ reg.defs = <<>>
      /\ reg.marker = <<>> /\ reg.region = <<>>
  BY <1>1, RecordFields
<1>3. DOMAIN <<>> = {} /\ \A S : <<>> \in Seq(S) /\ <<>> \in [{} -> S]
  OBVIOUS
<1>4. Position
  <2>1. 1 \in DOMAIN files /\ Len(files[1]) \in Nat
    BY <1>1, FileFacts
  <2> QED
    BY <1>1, <2>1 DEF Position
<1>5. RegistryOK
  BY <1>1, <1>2, <1>3 DEF RegistryOK, IsMap
<1>6. Places /\ InterfacesInOrder /\ ArgsDiffer(reg.defs)
  BY <1>2, <1>3 DEF Places, InLines, InterfacesInOrder, ArgsDiffer
<1>7. Written
  BY <1>1, <1>3 DEF Written, WrittenOnce, NumbersDistinct
<1> QED
  BY <1>4, <1>5, <1>6, <1>7 DEF GeneratorInv, RegisteredInv

(* Every step of the two passes keeps the invariant.                     *)
LEMMA GeneratorStep == ASSUME GeneratorInv, [GeneratorNext]_generatorVars PROVE GeneratorInv'
<1>1. CASE UNCHANGED generatorVars
  <2>1. files' = files /\ phase' = phase /\ file' = file /\ ln' = ln /\ reg' = reg
        /\ counter' = counter /\ outputs' = outputs
    BY <1>1 DEF generatorVars
  <2>2. Position' /\ Written'
    BY <2>1 DEF GeneratorInv, Position, Written, WrittenOnce, NumbersDistinct
  <2>3. RegisteredInv'
    BY <2>1 DEF GeneratorInv, RegisteredInv, RegistryOK, Places, InLines, ArgsDiffer, InterfacesInOrder,
                InOrder, UpTo, Earlier
  <2> QED
    BY <2>2, <2>3 DEF GeneratorInv
<1>2. CASE Register
  BY <1>2, KernelStep, MemArgStep, MemAttrStep, MemInstanceStep, MakefileStep, DefStep,
     MarkerStep, RegionStep DEF Register
<1>3. CASE SkipLine \/ Refuse \/ NextFile \/ WriteLine \/ NoRegion \/ Close
  BY <1>3, SkipStep, EndStep, FileStep, WriteStep, NoRegionStep
<1> QED
  BY <1>1, <1>2, <1>3 DEF GeneratorNext

(* The inductive invariant holds in both passes, whatever the input      *)
(* files are and however many outputs are written (input_file,           *)
(* file_output).                                                         *)
THEOREM GeneratorCorrect == GeneratorSpec => []GeneratorInv
<1>1. GeneratorInit => GeneratorInv
  BY StartsEmpty
<1>2. GeneratorInv /\ [GeneratorNext]_generatorVars => GeneratorInv'
  BY GeneratorStep
<1> QED
  BY <1>1, <1>2, PTL DEF GeneratorSpec

(* The program stays within its files, every registered line is a line   *)
(* behind its pragma, and there is one output, or one for every unit     *)
(* (input_file, file_output).                                            *)
THEOREM GeneratorTypeCorrect == GeneratorSpec => []GeneratorTypeOK
<1>1. GeneratorInv => GeneratorTypeOK
  <2>1. SUFFICES ASSUME GeneratorInv PROVE GeneratorTypeOK
    OBVIOUS
  <2>2. \A n \in DOMAIN reg.mem : reg.mem[n].mask \in SUBSET {"arg", "attr", "instance"}
    <3> TAKE n \in DOMAIN reg.mem
    <3>1. reg.mem[n] \in Interfaces
      BY <2>1 DEF GeneratorInv, RegisteredInv, RegistryOK
    <3> QED
      BY <3>1 DEF Interfaces
  <2>3. DOMAIN reg.marker \subseteq Range(Markers) /\ InLines(reg.kernel) /\ InLines(reg.mk)
    BY <2>1 DEF GeneratorInv, RegisteredInv, RegistryOK, IsMap, Places
  <2> QED
    BY <2>1, <2>2, <2>3 DEF GeneratorTypeOK, GeneratorInv, Position, Written
<1> QED
  BY <1>1, GeneratorCorrect, PTL

(* For all input files: an instance is registered behind the attribute   *)
(* and that behind the argument of its interface, and no interface with  *)
(* an instance has a line number that was not initialised                *)
(* (get_dependency_mask, register_mem_instance).                         *)
THEOREM InstancesInOrder == GeneratorSpec => []InstancesLast
<1>1. GeneratorInv => InstancesLast
  BY DEF GeneratorInv, RegisteredInv, InterfacesInOrder, InOrder, InstancesLast
<1> QED
  BY <1>1, GeneratorCorrect, PTL

(* For all input files and any number of units: in every output, the     *)
(* memory ids are pairwise different, and definitions have the same      *)
(* memory bundle only if they are the same (output_to_file,              *)
(* mem_id_offset and gmem_counter).                                      *)
THEOREM NumbersApart == GeneratorSpec => []NumbersDistinct
<1>1. GeneratorInv => NumbersDistinct
  BY DEF GeneratorInv, Written
<1> QED
  BY <1>1, GeneratorCorrect, PTL

=============================================================================
