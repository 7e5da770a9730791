---------------------------- MODULE MCBootMemory ----------------------------
(***************************************************************************)
(* Pages of 4 bytes, words of 8 bits: the low memory and the kernel have   *)
(* two pages each, and 16 pages of memory need one of the table.  The int  *)
(* masks leave the pages 0 .. 3 of each word to be allocated, so the first *)
(* pages behind the kernel that matter are 8 .. 11; they are below the     *)
(* table's length in words in the large maps.                              *)
(***************************************************************************)
EXTENDS BootMemory

Usable(from, to)   == [address |-> from, length |-> to - from, type |-> 1]
Unusable(from, to) == [address |-> from, length |-> to - from, type |-> 2]

\* The hole at the end of the low memory, one above the kernel, and the rest; the
\* holes start and end inside pages too.
MCMaps ==
    {<<Usable(0, 6), Unusable(6, 8), Usable(8, x), Unusable(x, y), Usable(y, z)>> :
        x \in {12, 16, 18, 24, 36}, y \in {40, 43}, z \in {64, 142, 240}}
    \cup {<<Usable(y, 128), Unusable(20, y), Usable(8, 20), Usable(0, 8)>> : y \in {24, 30}}
    \cup {<<Usable(0, 6), Unusable(6, 8), Usable(8, z)>> : z \in {14, 18, 64}}
    \cup {<<Usable(0, 8), Usable(8, x), Unusable(x, x + n), Usable(x + n, z)>> :
              x \in {17, 43, 46, 64}, n \in {2, 20}, z \in {400, 640}}
    \cup {<<Usable(0, 20), Unusable(70, 72), Usable(y, 600), Unusable(20, 30)>> : y \in {30, 33}}
    \cup {<<>>}

MCBehinds == {[address |-> 200, length |-> 0, type |-> 0], Usable(150, 200),
              Unusable(17, 22), [address |-> 12, length |-> 0, type |-> 2]}

Tag(type, size) == [type |-> type, size |-> size]
MapTag   == Tag(MULTIBOOT_TAG_TYPE_MEMORY_MAP, 40)
EndTag   == Tag(MULTIBOOT_TAG_TYPE_END, 8)
Good(tags) == [pointer |-> 1, unused |-> 0, total_size |-> 64, tags |-> tags]

MCInfos == {Good(<<MapTag, EndTag>>),
            Good(<<Tag(1, 9), Tag(2, 16), MapTag, EndTag>>),
            Good(<<Tag(1, 12), EndTag>>), Good(<<EndTag, MapTag>>),
            [Good(<<MapTag, EndTag>>) EXCEPT !.pointer = 0],
            [Good(<<MapTag, EndTag>>) EXCEPT !.unused = 1],
            [Good(<<MapTag, EndTag>>) EXCEPT !.total_size = 7],
            [Good(<<MapTag, EndTag>>) EXCEPT !.total_size = 100]}
=============================================================================
