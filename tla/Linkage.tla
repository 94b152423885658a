------------------------------ MODULE Linkage ------------------------------
(***************************************************************************)
(* The stream connections that gen_link.c writes for CUs compute units     *)
(* (fpga/rng/src/automation), and the order in which the units follow one  *)
(* another along them.                                                     *)
(***************************************************************************)
EXTENDS Integers

(* The port of a kernel; nr tells kernels, or ports, of a kind apart.      *)
Port(kernel, nr, port) == [kernel |-> kernel, nr |-> nr, port |-> port]

SIn(u) == Port("rng_instance", u, "s_in")
SOut(u) == Port("rng_instance", u, "s_out")
OIn(u) == Port("rng_instance", u, "o_in")
OOut(u) == Port("rng_instance", u, "o_out")

Merge == Port("ssrng_state_merge", 0, "out")
RngStart == Port("rng_start", 0, "output")
RngEnd == Port("rng_end", 0, "input")
RngMain == Port("rng_main", 0, "rng")

Connection(from, to) == [from |-> from, to |-> to]

(* The connections that do not depend on the number of units.              *)
Fixed ==
    {Connection(Port("ssrng_state_update", k, "output"), Port("ssrng_state_merge", k, "in")) :
        k \in 0 .. 8}
    \cup {Connection(Port("mem_read", 0, "stream"), Port("rng_main", 0, "input")),
          Connection(Port("rng_main", 0, "output"), Port("mem_write", 0, "stream"))}

(* Root states from unit 1 to unit CUs, ...                                *)
RootConnections(CUs) ==
    {Connection(Merge, SIn(1)), Connection(SOut(CUs), RngEnd)}
    \cup {Connection(SOut(u), SIn(u + 1)) : u \in 1 .. CUs - 1}

(* ... and packets from unit CUs to unit 1.                                *)
PacketConnections(CUs) ==
    {Connection(RngStart, OIn(CUs)), Connection(OOut(1), RngMain)}
    \cup {Connection(OOut(u + 1), OIn(u)) : u \in 1 .. CUs - 1}

Connections(CUs) == Fixed \cup RootConnections(CUs) \cup PacketConnections(CUs)

-----------------------------------------------------------------------------
(* The unit behind a port that writes.                                     *)
Behind(CUs, out) ==
    CHOOSE u \in 1 .. CUs : \E in \in {SIn(u), OIn(u)} : Connection(out, in) \in Connections(CUs)

(* The units in the order in which root states, and packets, reach them.   *)
RootOrder(CUs) ==
    LET unit[n \in 1 .. CUs] == Behind(CUs, IF n = 1 THEN Merge ELSE SOut(unit[n - 1]))
    IN unit

PacketOrder(CUs) ==
    LET unit[n \in 1 .. CUs] == Behind(CUs, IF n = 1 THEN RngStart ELSE OOut(unit[n - 1]))
    IN unit

=============================================================================
