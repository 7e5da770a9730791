------------------------------ MODULE MCPaging ------------------------------
(***************************************************************************)
(* Call sequences for Paging, on tables of 3 entries: what the kernel does  *)
(* at start up, and the calls of later code.                               *)
(***************************************************************************)
EXTENDS Paging

Plain(op, va, pa, bytes) == [op |-> op, va |-> va, pa |-> pa, bytes |-> bytes,
                             level |-> 1, replace |-> FALSE, user |-> FALSE]
Huge(c, k) == [c EXCEPT !.level = k]

\* cpu_initialize and scheduler_execute: all memory, the allocator's frames and so the
\* tables too, is mapped at address 0 with huge pages; the local APIC, which is behind
\* the memory, at the start of the second level 4 entry.
MemoryPages == 8
Device(n) == (MemoryPages * Span(2) + n) * PageSize
KernelBoot2MB == <<Huge(Plain("map_physical_at", 0, 0, MemoryPages * Size(2)), 2),
                   Plain("map_physical_at", Size(4), Device(1), 1)>>

NoBoot == <<>>

\* Stacks (paging_map) and device registers (paging_map_physical), some that
\* fill a table, some that need several.
KernelCalls == {Plain("map", 0, 0, 2 * PageSize),
                Plain("map", 0, 0, Size(2) + 1),
                Plain("map_physical", 0, Device(3), 1),
                Plain("map_physical", 0, Device(3) + 1, 1),
                Plain("map", 0, 0, 0)}

\* Huge pages at addresses of their own, next to and in place of each other.
HugeCalls == {Huge(Plain("map_physical_at", Size(2), 2 * Size(2), 2 * Size(2)), 2),
              [Huge(Plain("map_physical_at", Size(2), 4 * Size(2), 2 * Size(2)), 2)
                  EXCEPT !.replace = TRUE],
              Huge(Plain("map_physical_at", Size(3) + 1, Size(2), 1), 2),
              Huge(Plain("map_physical_at", 2 * Size(3), Size(3), Size(3)), 3),
              Huge(Plain("map_physical_at", 2 * Size(3), Size(3) + 1, Size(3)), 3),
              Huge(Plain("map_at", 3 * Size(3), 0, 1), 3),
              Plain("map_at", 0, 0, 2 * PageSize),
              Plain("map_at", 0, 0, 0),
              Plain("map", 0, 0, 0)}

\* A page, then a 2MiB page, at the cursor.
MixedCalls == {Plain("map", 0, 0, PageSize),
               Huge(Plain("map_physical", 0, 2 * Size(2), Size(2)), 2)}

\* One page at an address whose level 2 and level 3 indices differ.
AtCalls == {Plain("map_at", Size(2), 0, PageSize)}

\* Two pages without PAGING_FLAG_REPLACE, when the second is in use.
OverlapCalls == {Plain("map_physical_at", PageSize, 9 * PageSize, PageSize),
                 Plain("map_physical_at", 0, 11 * PageSize, 2 * PageSize)}

\* One page in the second level 4 entry, then 1GiB pages that run into it.
LongCalls == {Plain("map_physical_at", Size(4), 7 * PageSize, 1),
              Huge(Plain("map_physical_at", 0, 0, (TableEntries + 1) * Size(3)), 3)}

\* The stack of a process: scheduler_execute asks for user access.
UserCalls == {[Plain("map", 0, 0, 2 * PageSize) EXCEPT !.user = TRUE]}

Plan(hugepages, boot, calls) == [hugepages |-> hugepages, boot |-> boot, calls |-> calls,
                                 unmapping |-> TRUE]

\* A machine without 1GiB pages, whose kernel then maps stacks and registers; and one
\* with them, whose callers use huge pages.
KernelsOwn == Plan(FALSE, KernelBoot2MB, KernelCalls)
MCPlans == {KernelsOwn, Plan(TRUE, NoBoot, HugeCalls)}

\* The first one is of the kind that PagingProofs is about.
ASSUME KernelsOwnAssumption == KernelPlan(KernelsOwn) /\ AddressesFit

\* All frames that the allocator can give in the run are memory that is mapped: those up
\* to MaxFrames, and the seven of the longest call that starts there, three of them tables.
ASSUME MemoryAssumption == MaxFrames + 7 < MemoryPages * Span(2)

\* One caller with calls of one kind.
MixedPlans   == {Plan(TRUE, NoBoot, MixedCalls)}
AtPlans      == {Plan(TRUE, NoBoot, AtCalls)}
OverlapPlans == {Plan(TRUE, NoBoot, OverlapCalls)}
LongPlans    == {Plan(TRUE, NoBoot, LongCalls)}
UserPlans    == {Plan(TRUE, NoBoot, UserCalls)}
=============================================================================
