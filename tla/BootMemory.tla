----------------------------- MODULE BootMemory -----------------------------
(***************************************************************************)
(* The first part of kernel_main (main.c): it finds the memory map among   *)
(* the tags of the multiboot2 information (multiboot2.c), places the table *)
(* of the page allocator, initializes it, reserves what is in use, and     *)
(* goes on to cpu_initialize, which allocates pages.  One step is one      *)
(* iteration of a loop or one call; there is one processor, and interrupts *)
(* are disabled.                                                           *)
(*                                                                         *)
(* The loops over the map compare i * entry_size with the size of the      *)
(* whole tag, its header included: they read one entry behind the last     *)
(* one, which may be anything (behind).                                    *)
(***************************************************************************)
EXTENDS Integers, Sequences, FiniteSetsExt

CONSTANTS PageSize,        \* 4096
          HalfBits,        \* 32: the width of the int masks
          BitsPerByte,     \* 8
          AddressModulus,  \* 2^64
          KernelBase,      \* KERNEL_BASE_ADDRESS, where the low memory ends
          KernelSize,      \* KERNEL_SIZE
          TagHeader,       \* sizeof(struct multiboot_tag_memory_map)
          EntrySize,       \* sizeof(struct multiboot_tag_memory_map_entry)
          MaxTotalSize,    \* 100000
          Infos,           \* what multiboot2_info may point to
          Maps,            \* memory maps
          Behinds          \* what may be behind the map

MULTIBOOT_TAG_TYPE_END        == 0
MULTIBOOT_TAG_TYPE_MEMORY_MAP == 6

Region   == [address : Nat, length : Nat, type : Nat]
InfoType == [pointer : Nat, unused : Nat, total_size : Nat,
             tags : Seq([type : Nat, size : Nat])]
WordBits  == 2 * HalfBits
Bits      == 0 .. (WordBits - 1)
KernelEnd == KernelBase + KernelSize

ASSUME BootAssumption ==
    /\ PageSize \in Nat \ {0} /\ HalfBits \in Nat \ {0} /\ BitsPerByte \in Nat \ {0}
    /\ AddressModulus \in Nat \ {0}
    /\ PageSize <= AddressModulus
    /\ KernelBase \in Nat /\ KernelSize \in Nat
    /\ PageSize * BitsPerByte <= KernelEnd /\ KernelEnd <= AddressModulus   \* 32KiB, 2^64
    /\ TagHeader \in Nat /\ EntrySize \in Nat /\ 0 < TagHeader /\ TagHeader <= EntrySize
    /\ MaxTotalSize \in Nat
    /\ Infos \subseteq InfoType
    /\ Maps \subseteq Seq(Region)
    /\ Behinds \subseteq Region

VARIABLES info, map, behind,   \* the machine
          pc, address,         \* where multiboot2_info_get is
          i,                   \* the loops over the map
          max_memory_address,
          allocation_table_start,
          allocation_table, allocation_index,
          taken                \* the pages that memory_physical_allocate returned

given == <<info, map, behind>>
memory == <<allocation_table, allocation_index, taken>>
vars == <<given, pc, address, i, max_memory_address, allocation_table_start, memory>>

Nowhere == -1   \* (void *)0xFFFFFFFF

Init == /\ info \in Infos /\ map \in Maps /\ behind \in Behinds
        /\ pc = "available"
        /\ address = 0 /\ i = 0
        /\ max_memory_address = 0
        /\ allocation_table_start = Nowhere
        /\ allocation_table = <<>> /\ allocation_index = 0
        /\ taken = {}
-----------------------------------------------------------------------------
\* The multiboot2 information.
ALIGN_TO_NEXT(n, to) == (((n - 1) \div to) * to) + to

multiboot2_info_available ==
    /\ info.pointer # 0 /\ info.unused = 0
    /\ info.total_size < MaxTotalSize /\ info.total_size >= 8

\* Where the tags are; between them is padding, which is zero.
TagStart(tags, k) ==
    LET end[n \in 0 .. Len(tags)] ==
            IF n = 0 THEN 8 ELSE end[n - 1] + ALIGN_TO_NEXT(tags[n].size, 8)
    IN  end[k - 1]
TagAt(a) == LET there == {k \in DOMAIN info.tags : TagStart(info.tags, k) = a}
            IN  IF there = {} THEN [type |-> MULTIBOOT_TAG_TYPE_END, size |-> 0]
                ELSE info.tags[Min(there)]

CheckInfo == /\ pc = "available"
             /\ pc' = IF multiboot2_info_available THEN "tags" ELSE "unavailable"
             /\ address' = 8
             /\ UNCHANGED <<given, i, max_memory_address, allocation_table_start, memory>>

\* Mistake: the size of a tag is not rounded up.
NextTagUnaligned ==
    /\ pc = "tags"
    /\ LET tag == TagAt(address) IN
           /\ pc' = CASE tag.type = MULTIBOOT_TAG_TYPE_END -> "no map"
                      [] tag.type = MULTIBOOT_TAG_TYPE_MEMORY_MAP -> "measure"
                      [] OTHER -> "tags"
           /\ address' = IF pc' = "tags" THEN address + tag.size ELSE address
    /\ UNCHANGED <<given, i, max_memory_address, allocation_table_start, memory>>

\* multiboot2_info_get(MULTIBOOT_TAG_TYPE_MEMORY_MAP), one iteration.
multiboot2_info_get ==
    /\ pc = "tags"
    /\ LET tag == TagAt(address) IN
           /\ pc' = CASE tag.type = MULTIBOOT_TAG_TYPE_END -> "no map"
                      [] tag.type = MULTIBOOT_TAG_TYPE_MEMORY_MAP -> "measure"
                      [] OTHER -> "tags"
           /\ address' = IF pc' = "tags" THEN address + ALIGN_TO_NEXT(tag.size, 8) ELSE address
    /\ UNCHANGED <<given, i, max_memory_address, allocation_table_start, memory>>
-----------------------------------------------------------------------------
\* The loops over the map.
More  == i * EntrySize < TagHeader + Len(map) * EntrySize
Entry == IF i < Len(map) THEN map[i + 1] ELSE behind
End(r) == (r.address + r.length) % AddressModulus

\* Loop at l: body, and at the end of the loop, go to next.
Loop(l, next) == /\ pc = l
                 /\ pc' = IF More THEN l ELSE next
                 /\ i' = IF More THEN i + 1 ELSE 0

Measure ==
    /\ Loop("measure", "place")
    /\ max_memory_address' = IF More /\ Entry.type = 1 /\ End(Entry) > max_memory_address
                             THEN End(Entry) ELSE max_memory_address
    /\ UNCHANGED <<given, address, allocation_table_start, memory>>

allocation_table_size == (max_memory_address \div PageSize) \div BitsPerByte

\* The region is usable, long enough for the table, and above the low memory.
Fits == /\ Entry.type = 1
        /\ Entry.length >= allocation_table_size
        /\ Entry.address >= KernelBase

\* At the start of the region, the table would overlap the kernel; and the region
\* ends with the kernel.
Overlaps   == Entry.address + allocation_table_size >= KernelBase /\ Entry.address < KernelEnd
OnlyKernel == KernelEnd >= End(Entry)

\* Mistake: the kernel is not looked at.
PlaceAnywhere ==
    /\ pc = "place"
    /\ \/ ~More /\ pc' = "no place" /\ i' = 0 /\ UNCHANGED allocation_table_start
       \/ /\ More /\ Fits
          /\ pc' = "initialize" /\ i' = 0
          /\ allocation_table_start' = Entry.address
       \/ More /\ ~Fits /\ i' = i + 1 /\ UNCHANGED <<pc, allocation_table_start>>
    /\ UNCHANGED <<given, address, max_memory_address, memory>>

\* The table goes to the first region it fits in, or directly behind the kernel
\* (whether the rest of the region is long enough or not).
Place ==
    /\ pc = "place"
    /\ \/ ~More /\ pc' = "no place" /\ i' = 0 /\ UNCHANGED allocation_table_start
       \/ /\ More /\ Fits /\ ~(Overlaps /\ OnlyKernel)
          /\ pc' = "initialize" /\ i' = 0
          /\ allocation_table_start' = IF Overlaps THEN KernelEnd ELSE Entry.address
       \/ /\ More /\ (Fits => Overlaps /\ OnlyKernel)
          /\ i' = i + 1
          /\ UNCHANGED <<pc, allocation_table_start>>
    /\ UNCHANGED <<given, address, max_memory_address, memory>>
-----------------------------------------------------------------------------
\* The page allocator, as in PhysicalMemory: a word is the set of its one bits.
TableLength == (max_memory_address \div PageSize) \div WordBits
Words       == 0 .. (TableLength - 1)

memory_physical_initialize ==
    /\ pc = "initialize"
    /\ pc' = "reserve table"
    /\ allocation_table' = [w \in Words |-> {}]
    /\ allocation_index' = 0
    /\ UNCHANGED <<given, address, i, max_memory_address, allocation_table_start, taken>>

IntMask(b) == IF b % HalfBits = HalfBits - 1 THEN (HalfBits - 1) .. (WordBits - 1)
                                             ELSE {b % HalfBits}

\* The indices that memory_physical_reserve goes through: it stops at the index
\* TableLength, a number of words.
ReservedIndices(r) ==
    LET count == (((r.bytes + (r.address % PageSize) - 1) % AddressModulus) \div PageSize) + 1
        first == r.address \div PageSize
    IN  {p \in 0 .. (TableLength - 1) : p >= first /\ p < first + count}

memory_physical_reserve(r) ==
    allocation_table' = [w \in Words |-> allocation_table[w] \cup
        UNION {IntMask(p % WordBits) : p \in {q \in ReservedIndices(r) : q \div WordBits = w}}]

Reserve(at, r, next) ==
    /\ pc = at /\ pc' = next
    /\ memory_physical_reserve(r)
    /\ UNCHANGED <<given, address, i, max_memory_address, allocation_table_start,
                   allocation_index, taken>>

TableRange  == [address |-> allocation_table_start, bytes |-> allocation_table_size]
LowRange    == [address |-> 0, bytes |-> KernelBase - 1]
KernelRange == [address |-> KernelBase, bytes |-> KernelSize]

\* Mistake: the length of the table in words is taken for its size in bytes.
TableInWords == Reserve("reserve table", [TableRange EXCEPT !.bytes = TableLength], "reserve low")

ReserveTable  == Reserve("reserve table", TableRange, "reserve low")
ReserveLow    == Reserve("reserve low", LowRange, "reserve kernel")
ReserveKernel == Reserve("reserve kernel", KernelRange, "reserve regions")

\* The regions of the map that are not usable.
ReserveRegions ==
    /\ Loop("reserve regions", "cpu")
    /\ IF More /\ Entry.type # 1
       THEN memory_physical_reserve([address |-> Entry.address, bytes |-> Entry.length])
       ELSE UNCHANGED allocation_table
    /\ UNCHANGED <<given, address, max_memory_address, allocation_table_start,
                   allocation_index, taken>>

\* cpu_initialize and what follows: the first zero bit from the cursor on.
memory_physical_allocate ==
    /\ pc = "cpu"
    /\ \E w \in Words :
        /\ allocation_table[w] # Bits
        /\ \A v \in Words :
               (v - allocation_index) % TableLength < (w - allocation_index) % TableLength
                   => allocation_table[v] = Bits
        /\ \E b \in Bits \ allocation_table[w] :
            /\ \A c \in Bits : c < b => c \in allocation_table[w]
            /\ allocation_table' = [allocation_table EXCEPT ![w] = @ \cup IntMask(b)]
            /\ taken' = taken \cup {w * WordBits + b}
        /\ allocation_index' = w
    /\ UNCHANGED <<given, pc, address, i, max_memory_address, allocation_table_start>>

Boot == \/ CheckInfo \/ multiboot2_info_get \/ Measure \/ Place
        \/ memory_physical_initialize \/ ReserveTable \/ ReserveLow \/ ReserveKernel
        \/ ReserveRegions

Next == Boot \/ memory_physical_allocate

Spec == Init /\ [][Next]_vars

-----------------------------------------------------------------------------
TypeOK ==
    /\ info \in Infos /\ map \in Maps /\ behind \in Behinds
    /\ pc \in {"available", "tags", "measure", "place", "initialize", "reserve table",
               "reserve low", "reserve kernel", "reserve regions", "cpu",
               "unavailable", "no map", "no place"}
    /\ address \in Nat
    /\ i \in 0 .. (Len(map) + 1)
    /\ max_memory_address \in 0 .. (AddressModulus - 1)
    /\ allocation_table_start \in Nat \cup {Nowhere}
    /\ pc \notin {"reserve table", "reserve low", "reserve kernel", "reserve regions", "cpu"}
       \/ allocation_table \in [Words -> SUBSET Bits]

\* The memory maps among the tags up to the end tag.
MapTags == {k \in DOMAIN info.tags :
               /\ info.tags[k].type = MULTIBOOT_TAG_TYPE_MEMORY_MAP
               /\ \A l \in 1 .. k : info.tags[l].type # MULTIBOOT_TAG_TYPE_END}

\* multiboot2.c: the first memory map before the end tag is found, whatever the sizes
\* of the tags before it; main.c gives up only if there is none.
FindsTheMap == /\ pc = "no map" => MapTags = {}
               /\ pc \notin {"available", "tags", "unavailable", "no map"}
                      => address = TagStart(info.tags, Min(MapTags))

Regions == {map[k] : k \in DOMAIN map}

\* main.c, "Move allocation table after the kernel if it overlaps with the
\* kernel": the table does not overlap the kernel or the low memory.
TableBehindKernel == allocation_table_start = Nowhere \/ allocation_table_start >= KernelEnd

\* main.c: boot only fails for want of a place when no region above the low memory
\* has room for the table.
PlaceIfAny == pc = "no place" =>
    \A r \in Regions : r.type = 1 /\ r.address >= KernelBase
        => \/ r.length < allocation_table_size
           \/ End(r) - KernelEnd < allocation_table_size

\* main.c: the table is placed where it may be, and wherever it can be.
TablePlaced == TableBehindKernel /\ PlaceIfAny

\* Pages of a range.
PagesOf(r) == {p \in 0 .. (TableLength * WordBits - 1) :
                  (p + 1) * PageSize > r.address /\ p * PageSize < r.address + r.bytes}
Reserved == PagesOf(TableRange) \cup PagesOf(LowRange) \cup PagesOf(KernelRange)
      \cup UNION {PagesOf([address |-> r.address, bytes |-> r.length]) :
                     r \in {s \in Regions : s.type # 1}}

\* main.c and memory_physical.c together: no page of the kernel, of the low memory,
\* of the table and of an unusable region is ever allocated, as far as the index of
\* a page is below the table's length in words (all of it on 128MiB or more, for
\* the kernel; the table behind it needs more).
ReservedKept == \A p \in taken : p < TableLength => p \notin Reserved

\* main.c, "Find first memory region that can fit allocation table": the table is in
\* usable memory.
TableInRam == allocation_table_start # Nowhere =>
    \E r \in Regions \cup {behind} :
        /\ r.type = 1
        /\ r.address <= allocation_table_start
        /\ allocation_table_start + allocation_table_size <= End(r)

\* main.c, "Reserve memory for all non-usable (type != 1) memory regions".
OnlyRamTaken == \A p \in taken : \E r \in Regions :
    r.type = 1 /\ r.address <= p * PageSize /\ (p + 1) * PageSize <= End(r)

=============================================================================
