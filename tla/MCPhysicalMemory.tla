-------------------------- MODULE MCPhysicalMemory --------------------------
(***************************************************************************)
(* Instances of PhysicalMemory: two CPUs, words of 4 bits (masks of 2),    *)
(* and the arguments their calls use.                                      *)
(***************************************************************************)
EXTENDS PhysicalMemory

CONSTANTS c1, c2

\* A range over two pages from an unaligned address, one page whose bit is in
\* the high half, and a range that runs past what the loop accepts.
MCReserveRanges == {[address |-> 1, bytes |-> 2], [address |-> 6, bytes |-> 1],
                    [address |-> 4, bytes |-> 6]}

\* No bytes at all, too.
MCReserveArgs == MCReserveRanges \cup {[address |-> 2, bytes |-> 0]}
=============================================================================
