--------------------------- MODULE CodeGenerator ---------------------------
(***************************************************************************)
(* The code generator (fpga/rng/src/automation): a first pass scans all    *)
(* input files for THUNDERHLS pragmas and registers them with the line     *)
(* behind them, their object; a second pass goes through the first file    *)
(* again and writes one output per compute unit, in which pragmas and      *)
(* objects have been replaced.                                             *)
(*                                                                         *)
(* A line is a keyword ("plain" for ordinary text) and its argument.  The  *)
(* text that is written is either a line of a file, with the number put    *)
(* into its place holders, or code generated for a definition.  Wording is *)
(* left out, and with it APPLY_BASE_TYPE, which only names a type.         *)
(***************************************************************************)
EXTENDS Integers, SequencesExt

CONSTANTS Inputs,     (* the lists of input files the program is run with    *)
          SLR_NUM     (* compute units                                       *)

ASSUME UnitAssumption == SLR_NUM \in Nat \ {0}

ASSUME InputAssumption ==
    \A input \in Inputs : input # <<>> /\ input \in Seq(Seq([kw : STRING, arg : STRING]))

Unit == 1 .. SLR_NUM

(* All parsers' keywords, in the order of their registration.              *)
Keywords == <<"MULTIPLE_CU_INDEX",
    "MSLR_INTERFACE_ARG", "MSLR_INTERFACE_ATTR", "MSLR_INTERFACE_INSTANCE",
    "DEF_SCALAR", "DEF_ARRAY", "DEF_INPUT_ONLY_ARRAY", "APPLY_BASE_TYPE",
    "USER_APPLY_ARG", "USER_APPLY_STREAM_ATTR", "USER_APPLY_SCALAR_ATTR",
    "USER_APPLY_READ_FROM_STREAM", "USER_APPLY_COV_FOR_CAL", "USER_APPLY_CAL",
    "USER_APPLY_COV_FOR_WRITE", "USER_APPLY_WRITE_TO_STREAM", "USER_APPLY_WRITE",
    "USER_APPLY_CODE_START", "USER_APPLY_CODE_END", "MAKEFILE_USER_APPLY",
    "DUMP_MEM_ATTR", "DUMP_MEM_SCALAR", "USER_APPLY_CL_KERNEL", "MAKEFILE_MEM_INSTANCE">>

(* A line contains a keyword also when it contains a longer one.           *)
HasKeyword(text, keyword) ==
    \/ text.kw = keyword
    \/ text.kw = "USER_APPLY_WRITE_TO_STREAM" /\ keyword = "USER_APPLY_WRITE"

First(S) == CHOOSE n \in S : \A m \in S : n <= m

(* A slip: the search goes on after a match.                               *)
IdentifyLast(text) ==
    LET found == {n \in DOMAIN Keywords : HasKeyword(text, Keywords[n])}
    IN IF found = {} THEN "plain" ELSE Keywords[CHOOSE n \in found : \A m \in found : m <= n]

(* identify_pragmas: the first keyword found.                              *)
Identify(text) ==
    LET found == {n \in DOMAIN Keywords : HasKeyword(text, Keywords[n])}
    IN IF found = {} THEN "plain" ELSE Keywords[First(found)]

(* The markers of customize.cpp, in the order in which they are looked at, *)
(* and what each writes for a definition: something for the definition     *)
(* itself if its type is listed, then something for the "new" copy of an   *)
(* array that is written back.                                             *)
Markers == <<"USER_APPLY_CAL", "USER_APPLY_WRITE_TO_STREAM", "USER_APPLY_COV_FOR_WRITE",
    "USER_APPLY_COV_FOR_CAL", "USER_APPLY_READ_FROM_STREAM", "USER_APPLY_ARG",
    "USER_APPLY_STREAM_ATTR", "USER_APPLY_SCALAR_ATTR", "USER_APPLY_WRITE",
    "DUMP_MEM_SCALAR", "DUMP_MEM_ATTR", "USER_APPLY_CL_KERNEL", "MAKEFILE_USER_APPLY">>
Definitions == {"DEF_SCALAR", "DEF_ARRAY", "DEF_INPUT_ONLY_ARRAY"}
Arrays == {"DEF_ARRAY", "DEF_INPUT_ONLY_ARRAY"}

WritesFor(marker) ==
    IF marker \in {"USER_APPLY_WRITE_TO_STREAM", "USER_APPLY_COV_FOR_WRITE", "USER_APPLY_WRITE"}
        THEN {"DEF_ARRAY"}
    ELSE IF marker \in {"USER_APPLY_SCALAR_ATTR", "DUMP_MEM_SCALAR"} THEN {"DEF_SCALAR"}
    ELSE IF marker \in {"USER_APPLY_ARG", "USER_APPLY_CL_KERNEL"} THEN Definitions
    ELSE Arrays

WritesForNew == {"USER_APPLY_READ_FROM_STREAM", "USER_APPLY_ARG", "USER_APPLY_STREAM_ATTR",
                 "DUMP_MEM_ATTR", "USER_APPLY_CL_KERNEL", "MAKEFILE_USER_APPLY"}

VARIABLES files,       (* the input files                                    *)
          phase, file, (* which pass, and the file it is in                  *)
          ln,          (* the line it is at                                  *)
          reg,         (* what has been registered: kernel, mem, mk (lists), *)
                       (* defs (a list), marker (lines), region (lines)      *)
          counter,     (* gmem_counter and mem_id_offset                     *)
          outputs      (* the output files                                   *)

generatorVars == <<files, phase, file, ln, reg, counter, outputs>>

-----------------------------------------------------------------------------
(* The first pass.  The line at hand and the line behind it are looked at  *)
(* together, so the last line of a file is never at hand.                  *)

line == files[file][ln]
kw == Identify(line)
Object == ln + 1

Scanning == phase = "input" /\ ln < Len(files[file])

NextLine == ln' = ln + 1 /\ UNCHANGED <<files, phase, file, counter, outputs>>

(* A slip: the object is taken to be the line of the pragma.               *)
EntryAtPragma == [arg |-> line.arg, ln |-> ln, obj |-> <<file, ln>>]

Entry == [arg |-> line.arg, ln |-> Object, obj |-> <<file, Object>>]

Registered(list) == {list[n].arg : n \in DOMAIN list}
MaskOf(arg) == UNION {reg.mem[n].mask : n \in {k \in DOMAIN reg.mem : reg.mem[k].arg = arg}}
MemOf(arg) == CHOOSE n \in DOMAIN reg.mem : reg.mem[n].arg = arg

(* A slip: an instance is accepted after arg alone.                        *)
OutOfOrderButInstance ==
    \/ kw = "MSLR_INTERFACE_ATTR" /\ MaskOf(line.arg) # {"arg"}
    \/ kw = "MSLR_INTERFACE_INSTANCE" /\ "arg" \notin MaskOf(line.arg)

(* get_dependency_mask: attr is set once, after arg; instances follow both.*)
OutOfOrder ==
    \/ kw = "MSLR_INTERFACE_ATTR" /\ MaskOf(line.arg) # {"arg"}
    \/ kw = "MSLR_INTERFACE_INSTANCE" /\ ~({"arg", "attr"} \subseteq MaskOf(line.arg))

(* What the registration functions refuse: a second definition or marker,  *)
(* and parts of a memory interface out of order.                           *)
Refused ==
    \/ kw = "MULTIPLE_CU_INDEX" /\ line.arg \in Registered(reg.kernel)
    \/ kw = "MSLR_INTERFACE_ARG" /\ line.arg \in Registered(reg.mem)
    \/ OutOfOrder
    \/ kw \in Definitions /\ line.arg \in Registered(reg.defs)
    \/ kw \in Range(Markers) /\ kw \in DOMAIN reg.marker
    \/ kw \in {"USER_APPLY_CODE_START", "USER_APPLY_CODE_END"} /\ kw \in DOMAIN reg.region

Refuse ==
    /\ Scanning /\ Refused
    /\ phase' = "failed"
    /\ UNCHANGED <<files, file, ln, reg, counter, outputs>>

SkipLine ==
    /\ Scanning /\ kw \in {"plain", "APPLY_BASE_TYPE"}
    /\ UNCHANGED reg
    /\ NextLine

RegisterKernelArg ==
    /\ Scanning /\ kw = "MULTIPLE_CU_INDEX" /\ ~Refused
    /\ reg' = [reg EXCEPT !.kernel = Append(@, Entry)]
    /\ NextLine

(* The line number of attr is not initialised: it may be any.              *)
RegisterMemArg ==
    /\ Scanning /\ kw = "MSLR_INTERFACE_ARG" /\ ~Refused
    /\ \E uninitialised \in 0 .. Len(files[1]) + 1 :
          reg' = [reg EXCEPT !.mem = Append(@,
              [arg |-> line.arg, mask |-> {"arg"}, input |-> Entry,
               attr |-> [Entry EXCEPT !.ln = uninitialised], instance |-> <<>>])]
    /\ NextLine

RegisterMemAttr ==
    /\ Scanning /\ kw = "MSLR_INTERFACE_ATTR" /\ ~Refused
    /\ LET n == MemOf(line.arg)
           m == reg.mem[n]
       IN reg' = [reg EXCEPT !.mem[n] =
                     [m EXCEPT !.mask = m.mask \cup {"attr"}, !.attr = Entry]]
    /\ NextLine

RegisterMemInstance ==
    /\ Scanning /\ kw = "MSLR_INTERFACE_INSTANCE" /\ ~Refused
    /\ LET n == MemOf(line.arg)
           m == reg.mem[n]
       IN reg' = [reg EXCEPT !.mem[n] = [m EXCEPT !.mask = m.mask \cup {"instance"},
                                                  !.instance = Append(m.instance, Entry)]]
    /\ NextLine

RegisterMakefileInstance ==
    /\ Scanning /\ kw = "MAKEFILE_MEM_INSTANCE"
    /\ reg' = [reg EXCEPT !.mk = Append(@, Entry)]
    /\ NextLine

(* Arrays are spread over four memory channels.                            *)
RegisterDef ==
    /\ Scanning /\ kw \in Definitions /\ ~Refused
    /\ LET arrays == {n \in DOMAIN reg.defs : reg.defs[n].type \in Arrays}
       IN reg' = [reg EXCEPT !.defs = Append(@,
                     [arg |-> line.arg, type |-> kw, mem_chn |-> Cardinality(arrays) % 4])]
    /\ NextLine

RegisterMarker ==
    /\ Scanning /\ kw \in Range(Markers) /\ ~Refused
    /\ reg' = [reg EXCEPT !.marker =
                  [m \in DOMAIN @ \cup {kw} |-> IF m = kw THEN Object ELSE @[m]]]
    /\ NextLine

RegisterRegion ==
    /\ Scanning /\ kw \in {"USER_APPLY_CODE_START", "USER_APPLY_CODE_END"} /\ ~Refused
    /\ reg' = [reg EXCEPT !.region =
                  [m \in DOMAIN @ \cup {kw} |->
                      IF m = kw THEN [ln |-> Object, file |-> file] ELSE @[m]]]
    /\ NextLine

(* How many files to write: several as soon as one pragma asks for it.     *)
Outputs == IF reg.kernel # <<>> THEN Unit ELSE {1}

NextFile ==
    /\ phase = "input" /\ ln >= Len(files[file])
    /\ ln' = 1
    /\ IF file < Len(files)
          THEN file' = file + 1 /\ UNCHANGED <<phase, outputs>>
          ELSE /\ phase' = "output" /\ file' = 1
               /\ outputs' = [u \in Outputs |-> <<>>]
    /\ UNCHANGED <<files, reg, counter>>

-----------------------------------------------------------------------------
(* The second pass.                                                        *)

Copy(place, number) == [line |-> place, number |-> number]
Code(marker, arg, role, number) ==
    [code |-> marker, arg |-> arg, role |-> role, number |-> number]

Verbatim == -1   (* no place holder is filled                              *)

(* An entry with the numbers its object is written with: the unit for a    *)
(* kernel argument, one of each for memory interfaces and the makefile;    *)
(* the attribute is dropped.                                               *)
Mark(entry, numbers) == [ln |-> entry.ln, obj |-> entry.obj, numbers |-> numbers]
EachUnit == [j \in Unit |-> j - 1]

KernelMarks(u) == [n \in DOMAIN reg.kernel |-> Mark(reg.kernel[n], <<u>>)]
MemMarks == FlattenSeq([n \in DOMAIN reg.mem |->
    <<Mark(reg.mem[n].input, EachUnit), Mark(reg.mem[n].attr, <<>>)>>
        \o [k \in DOMAIN reg.mem[n].instance |-> Mark(reg.mem[n].instance[k], EachUnit)]])
MkMarks == [n \in DOMAIN reg.mk |-> Mark(reg.mk[n], EachUnit)]

(* output_to_file of the kernel, memory and makefile parsers: the first    *)
(* entry whose pragma or object is the current line decides.  The pragma   *)
(* is replaced by the object, the object's own line is dropped.            *)
AtLine(marks) == {n \in DOMAIN marks : marks[n].ln \in {ln, ln + 1}}
Expanded(marks) ==
    IF AtLine(marks) = {} THEN <<>>
    ELSE LET m == marks[First(AtLine(marks))]
         IN IF m.ln = ln THEN <<>>
            ELSE [n \in DOMAIN m.numbers |-> Copy(m.obj, m.numbers[n])]

(* output_to_file of customize.cpp: the marker at the current line.        *)
MarkersAtLine == {n \in DOMAIN Markers :
                     Markers[n] \in DOMAIN reg.marker /\ reg.marker[Markers[n]] = ln + 1}

CodeRegion ==
    LET start == reg.region["USER_APPLY_CODE_START"]
        end == reg.region["USER_APPLY_CODE_END"]
        inside == SubSeq([n \in DOMAIN files[start.file] |-> n], start.ln + 1, end.ln - 2)
    IN [n \in DOMAIN inside |-> Copy(<<start.file, inside[n]>>, Verbatim)]

HasRegion ==
    /\ DOMAIN reg.region = {"USER_APPLY_CODE_START", "USER_APPLY_CODE_END"}
    /\ reg.region["USER_APPLY_CODE_START"].file = reg.region["USER_APPLY_CODE_END"].file
    /\ reg.region["USER_APPLY_CODE_START"].ln <= reg.region["USER_APPLY_CODE_END"].ln

(* For one definition: its roles, and the numbers that go with them.       *)
Roles(marker, d) ==
    (IF d.type \in WritesFor(marker) THEN <<"own">> ELSE <<>>)
        \o (IF d.type = "DEF_ARRAY" /\ marker \in WritesForNew THEN <<"new">> ELSE <<>>)

(* defs in front of the n-th, for which a counter has been advanced.       *)
Before(n, types) == Cardinality({k \in DOMAIN reg.defs : k < n /\ reg.defs[k].type \in types})
Duplex == {"DEF_ARRAY"}
GmemsUsed == Before(Len(reg.defs) + 1, Arrays)
MemIdsUsed == GmemsUsed + Before(Len(reg.defs) + 1, Duplex)

(* A slip: the "new" copy of an array does not get an id of its own.       *)
NumberOfDropsNew(marker, u, n, role) ==
    IF marker = "USER_APPLY_STREAM_ATTR" THEN counter.gmem + Before(n, Arrays)
    ELSE IF marker = "DUMP_MEM_ATTR" THEN counter.mem_id + Before(n, Arrays) + 1
    ELSE Verbatim

(* The counters run on from one output to the next: u is the output.       *)
NumberOf(marker, u, n, role) ==
    IF marker = "USER_APPLY_STREAM_ATTR"
        THEN counter.gmem + (u - 1) * GmemsUsed + Before(n, Arrays)
    ELSE IF marker = "DUMP_MEM_ATTR"
        THEN counter.mem_id + (u - 1) * MemIdsUsed + Before(n, Arrays) + Before(n, Duplex)
                 + (IF role = "own" THEN 1 ELSE 2)
    ELSE IF marker = "MAKEFILE_USER_APPLY" THEN reg.defs[n].mem_chn
    ELSE Verbatim

Generated(marker, u) ==
    FlattenSeq([n \in DOMAIN reg.defs |->
        LET d == reg.defs[n]
            roles == Roles(marker, d)
        IN [r \in DOMAIN roles |-> Code(marker, d.arg, roles[r], NumberOf(marker, u, n, roles[r]))]])

(* The counters are static: they keep their value for the next output.     *)
CountersAfter(marker) ==
    [gmem |-> counter.gmem +
        IF marker = "USER_APPLY_STREAM_ATTR" THEN Cardinality(DOMAIN outputs) * GmemsUsed ELSE 0,
     mem_id |-> counter.mem_id +
        IF marker = "DUMP_MEM_ATTR" THEN Cardinality(DOMAIN outputs) * MemIdsUsed ELSE 0]

Writing == phase = "output" /\ ln <= Len(files[1])

(* One line: every parser writes what it has for it; the line is copied    *)
(* when none has.                                                          *)
Customized(u) ==
    IF MarkersAtLine = {} THEN <<>>
    ELSE LET marker == Markers[First(MarkersAtLine)]
         IN IF marker = "USER_APPLY_CAL" THEN CodeRegion ELSE Generated(marker, u)

Taken(u) == AtLine(KernelMarks(u)) # {} \/ AtLine(MemMarks) # {}
                \/ MarkersAtLine # {} \/ AtLine(MkMarks) # {}

WriteLine ==
    /\ Writing /\ ~(1 \in MarkersAtLine /\ ~HasRegion)
    /\ outputs' = [u \in DOMAIN outputs |-> outputs[u]
          \o Expanded(KernelMarks(u)) \o Expanded(MemMarks)
          \o Customized(u) \o Expanded(MkMarks)
          \o (IF Taken(u) THEN <<>> ELSE <<Copy(<<1, ln>>, Verbatim)>>)]
    /\ counter' = IF MarkersAtLine = {} THEN counter
                  ELSE CountersAfter(Markers[First(MarkersAtLine)])
    /\ ln' = ln + 1
    /\ UNCHANGED <<files, phase, file, reg>>

(* Without a code region the program exits, with all lines so far written. *)
NoRegion ==
    /\ Writing /\ 1 \in MarkersAtLine /\ ~HasRegion
    /\ outputs' = [u \in DOMAIN outputs |->
          outputs[u] \o Expanded(KernelMarks(u)) \o Expanded(MemMarks)]
    /\ phase' = "failed"
    /\ UNCHANGED <<files, file, ln, reg, counter>>

Close ==
    /\ phase = "output" /\ ln > Len(files[1])
    /\ phase' = "done"
    /\ UNCHANGED <<files, file, ln, reg, counter, outputs>>

GeneratorInit ==
    /\ files \in Inputs
    /\ phase = "input" /\ file = 1 /\ ln = 1
    /\ reg = [kernel |-> <<>>, mem |-> <<>>, mk |-> <<>>, defs |-> <<>>,
              marker |-> <<>>, region |-> <<>>]
    /\ counter = [gmem |-> 6, mem_id |-> 0]
    /\ outputs = <<>>

Register ==
    \/ RegisterKernelArg \/ RegisterMemArg \/ RegisterMemAttr \/ RegisterMemInstance
    \/ RegisterMakefileInstance \/ RegisterDef \/ RegisterMarker \/ RegisterRegion

GeneratorNext == SkipLine \/ Refuse \/ Register \/ NextFile \/ WriteLine \/ NoRegion \/ Close

GeneratorSpec == GeneratorInit /\ [][GeneratorNext]_generatorVars /\ WF_generatorVars(GeneratorNext)

-----------------------------------------------------------------------------
InLines(list) == \A n \in DOMAIN list : list[n].ln \in 2 .. Len(files[list[n].obj[1]])

GeneratorTypeOK ==
    /\ phase \in {"input", "output", "done", "failed"}
    /\ file \in DOMAIN files
    /\ ln \in 1 .. Len(files[file]) + 1
    /\ InLines(reg.kernel) /\ InLines(reg.mk)
    /\ \A n \in DOMAIN reg.mem : reg.mem[n].mask \in SUBSET {"arg", "attr", "instance"}
    /\ DOMAIN reg.marker \subseteq Range(Markers)
    /\ DOMAIN outputs \in {{}, {1}, Unit}

(* What the pragmas ask for, read off the files in one go.                 *)
AsksFor(n) == IF n \in 1 .. Len(files[1]) - 1 THEN files[1][n].kw ELSE "plain"
HasObject == {"MULTIPLE_CU_INDEX", "MSLR_INTERFACE_ARG", "MSLR_INTERFACE_ATTR",
              "MSLR_INTERFACE_INSTANCE", "MAKEFILE_MEM_INSTANCE"}
PragmasAt(kind) ==
    {at \in UNION {{f} \X DOMAIN files[f] : f \in DOMAIN files} :
        at[2] < Len(files[at[1]]) /\ files[at[1]][at[2]].kw = kind}

RegionLines ==
    LET start == PragmasAt("USER_APPLY_CODE_START")
        end == PragmasAt("USER_APPLY_CODE_END")
    IN IF start = {} \/ end = {} THEN <<>>
       ELSE LET a == CHOOSE at \in start : TRUE
                b == CHOOSE at \in end : TRUE
            IN [n \in 1 .. b[2] - a[2] - 2 |-> [line |-> <<a[1], a[2] + 1 + n>>]]

Named(marker, d) == [r \in DOMAIN Roles(marker, d) |->
                        [code |-> marker, arg |-> d.arg, role |-> Roles(marker, d)[r]]]

Image(n, u) ==
    LET object(numbers) == [k \in DOMAIN numbers |->
                               [line |-> <<1, n + 1>>, number |-> numbers[k]]]
    IN IF AsksFor(n - 1) \in HasObject \/ AsksFor(n) = "MSLR_INTERFACE_ATTR" THEN <<>>
       ELSE IF AsksFor(n) = "MULTIPLE_CU_INDEX" THEN object(<<u>>)
       ELSE IF AsksFor(n) \in HasObject THEN object(EachUnit)
       ELSE IF AsksFor(n) = "USER_APPLY_CAL" THEN RegionLines
       ELSE IF AsksFor(n) \in Range(Markers)
           THEN FlattenSeq([d \in DOMAIN reg.defs |-> Named(AsksFor(n), reg.defs[d])])
       ELSE <<[line |-> <<1, n>>]>>

(* Numbers of generated code and of verbatim lines are not compared here.  *)
WithoutNumber(text) ==
    IF "code" \in DOMAIN text THEN [code |-> text.code, arg |-> text.arg, role |-> text.role]
    ELSE IF text.number = Verbatim THEN [line |-> text.line] ELSE text

(* The two lines that a memory argument without its attribute may cost:    *)
(* those that the uninitialised line number is compared with.              *)
Doubtful ==
    UNION {{reg.mem[n].attr.ln - 1, reg.mem[n].attr.ln} :
              n \in {k \in DOMAIN reg.mem : "attr" \notin reg.mem[k].mask}}

(* The two passes agree: every output is, line by line, what the pragmas   *)
(* of the first file ask for - no line lost, repeated or replaced by the   *)
(* pragmas of another place, and every unit with its own number - at every *)
(* point of the second pass, so also when the program gives up in it       *)
(* (file_output).  Whatever the uninitialised line number of an attribute  *)
(* that was never registered is, it can only drop the two lines it is      *)
(* compared with: it never adds a line, and never takes one from elsewhere *)
(* (output_to_file of mem_interface.cpp).                                  *)
OutputIsExpansion ==
    phase # "input" =>
        \A u \in DOMAIN outputs : \E lost \in SUBSET (Doubtful \cap DOMAIN files[1]) :
            LET written == [n \in DOMAIN outputs[u] |-> WithoutNumber(outputs[u][n])]
                expected == FlattenSeq([n \in DOMAIN files[1] |->
                                           IF n \in lost THEN <<>> ELSE Image(n, u)])
            IN /\ IsPrefix(written, expected)
               /\ phase = "done" => written = expected

(* e was registered before f: in an earlier file, or further up.           *)
Earlier(e, f) == \/ e.obj[1] < f.obj[1]
                 \/ e.obj[1] = f.obj[1] /\ e.obj[2] < f.obj[2]

(* An instance is never registered before the argument and the attribute   *)
(* of its memory interface, in whatever files they are: with an instance,  *)
(* no line number is left uninitialised (get_dependency_mask,              *)
(* register_mem_instance).                                                 *)
InstancesLast ==
    \A n \in DOMAIN reg.mem : \A k \in DOMAIN reg.mem[n].instance :
        LET m == reg.mem[n]
        IN /\ Earlier(m.input, m.attr) /\ Earlier(m.attr, m.instance[k])
           /\ m.attr.ln = m.attr.obj[2]

(* The memory ids that one output defines are pairwise different, also for *)
(* arrays that have two of them, and arrays do not share a memory bundle   *)
(* (output_to_file, mem_id_offset and gmem_counter).                       *)
NumbersDistinct ==
    \A u \in DOMAIN outputs : \A a, b \in DOMAIN outputs[u] :
        LET s == outputs[u][a]  t == outputs[u][b]
        IN "code" \in DOMAIN s /\ "code" \in DOMAIN t /\ a # b =>
              /\ s.code = "DUMP_MEM_ATTR" /\ t.code = "DUMP_MEM_ATTR" => s.number # t.number
              /\ s.code = "USER_APPLY_STREAM_ATTR" /\ t.code = "USER_APPLY_STREAM_ATTR" =>
                    (s.number = t.number <=> s.arg = t.arg)

=============================================================================
