-------------------------- MODULE MCCodeGenerator --------------------------
(* Input files for model checking CodeGenerator.  The first file is put    *)
(* together from blocks: a pragma with the ordinary line behind it, or a   *)
(* marker alone, which may so be followed by the next pragma.  The second  *)
(* one defines the arguments and the code region, with or without ordinary *)
(* lines in between.                                                       *)
EXTENDS CodeGenerator

Plain == [kw |-> "plain", arg |-> ""]
Pragma(keyword, arg) == [kw |-> keyword, arg |-> arg]
Block(keyword, arg) == <<Pragma(keyword, arg), Plain>>

MCBlocks == {<<Plain>>,
    Block("MULTIPLE_CU_INDEX", "a"), Block("MSLR_INTERFACE_ARG", "m"),
    Block("MSLR_INTERFACE_ATTR", "m"), Block("MSLR_INTERFACE_INSTANCE", "m"),
    Block("MAKEFILE_MEM_INSTANCE", ""), Block("DUMP_MEM_ATTR", ""),
    Block("USER_APPLY_STREAM_ATTR", ""), Block("USER_APPLY_WRITE_TO_STREAM", ""),
    Block("USER_APPLY_CAL", ""),
    <<Pragma("DUMP_MEM_ATTR", "")>>, <<Pragma("USER_APPLY_STREAM_ATTR", "")>>,
    <<Pragma("USER_APPLY_CAL", "")>>}

(* A pragma on the last line, which has no object, is never seen.          *)
MCEnds == {<<>>, <<Pragma("MULTIPLE_CU_INDEX", "b")>>}

MCFirst == {x \o y \o z \o e : x \in MCBlocks, y \in MCBlocks, z \in MCBlocks, e \in MCEnds}

MCRegion == <<Pragma("USER_APPLY_CODE_START", ""), Plain, Plain, Plain,
              Pragma("USER_APPLY_CODE_END", ""), Plain>>
MCDefs == Block("DEF_ARRAY", "d") \o Block("DEF_INPUT_ONLY_ARRAY", "i") \o Block("DEF_SCALAR", "s")

MCSecond == {MCDefs \o MCRegion, MCDefs \o <<MCRegion[5]>> \o SubSeq(MCRegion, 1, 3),
             <<Pragma("DEF_ARRAY", "d"), Pragma("DEF_INPUT_ONLY_ARRAY", "i")>> \o MCRegion,
             Block("DEF_SCALAR", "d") \o Block("DEF_ARRAY", "d")}

MCInputs == {<<first>> : first \in MCFirst}
            \cup {<<first, second>> : first \in MCFirst, second \in MCSecond}

=============================================================================
