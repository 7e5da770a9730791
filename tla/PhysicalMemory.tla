--------------------------- MODULE PhysicalMemory ---------------------------
(***************************************************************************)
(* The physical page allocator, memory_physical.c: one bit per page in a   *)
(* table of 64-bit words, a cursor into it and a count of used pages, all  *)
(* under one lock (Mutex, which lock.c implements: see SpinLock).          *)
(*                                                                         *)
(* A word is the set of its bits that are one, a page the pair of its word *)
(* and its bit.  A word has WordBits = 2 * HalfBits bits: the bit masks of *)
(* the code are 32-bit ints in 64-bit words, and that proportion is what   *)
(* their wrap-around and sign extension depend on.                         *)
(*                                                                         *)
(* An actor waits for the lock outside (its wait changes nothing), runs    *)
(* the body of a call step by step while it is the holder, and frees only  *)
(* pages it holds.  held and reserved are history variables: the pages     *)
(* that calls returned and nobody freed, and the pages passed to reserve.  *)
(***************************************************************************)
EXTENDS Mutex, Integers, FiniteSets

CONSTANTS TableLength,      \* allocation_table_length: words of the table
          HalfBits,         \* 32: the width of the int masks
          PageSize,         \* 4096
          AddressModulus,   \* 2^64: the range of an address
          CountModulus,     \* 2^64: the range of used_physical_pages
          Ops,              \* the operations the callers use
          ReserveArgs,      \* arguments of memory_physical_reserve
          ConsecutiveArgs,  \* arguments of memory_physical_allocate_consecutive
          OverrunWords,     \* bound: words past the table that are modelled
          MaxHeld           \* bound: pages an actor holds when it asks for more

WordBits == 2 * HalfBits
Bits     == 0 .. (WordBits - 1)
Words    == 0 .. (TableLength - 1)
Cells    == 0 .. (TableLength + OverrunWords - 1)   \* memory past the table too
Pages    == Words \X Bits
OpNames  == {"reserve", "free", "allocate", "consecutive", "allocated"}

Index(p)  == p[1] * WordBits + p[2]
PageAt(i) == <<i \div WordBits, i % WordBits>>

ASSUME PhysicalMemoryAssumption ==
    /\ TableLength \in Nat \ {0}
    /\ HalfBits \in Nat \ {0}
    /\ PageSize \in Nat \ {0}
    /\ AddressModulus \in Nat \ {0}
    /\ CountModulus \in Nat \ {0}
    /\ OverrunWords \in Nat
    /\ MaxHeld \in Nat
    /\ Ops \subseteq OpNames
    /\ ReserveArgs \subseteq [address : Nat, bytes : Nat]
    /\ \A r \in ReserveArgs : r.address + r.bytes <= AddressModulus
    /\ ConsecutiveArgs \subseteq Nat \ {0}

VARIABLES allocation_table, allocation_index, used_physical_pages,
          pc,          \* where each actor is in the code
          spot,        \* its local spot (reserve: index)
          limit,       \* reserve: the index to stop at; consecutive: chunk_count
          consecutive, \* its local consecutive
          asked,       \* consecutive: the number of pages it asked for
          answer,      \* what memory_physical_allocated said last, and the truth
          held, reserved

shared == <<allocation_table, allocation_index, used_physical_pages>>
locals == <<spot, limit, consecutive, asked>>
vars   == <<holder, shared, pc, locals, answer, held, reserved>>

HeldPages == UNION {held[a] : a \in Actors}

\* memory_physical_initialize: the table is zeroed; what lies behind it is
\* whatever the memory there contains.
Init == /\ MutexInit
        /\ allocation_table \in {t \in [Cells -> SUBSET Bits] : \A w \in Words : t[w] = {}}
        /\ allocation_index = 0
        /\ used_physical_pages = 0
        /\ pc = [a \in Actors |-> "idle"]
        /\ spot = [a \in Actors |-> 0]
        /\ limit = [a \in Actors |-> 0]
        /\ consecutive = [a \in Actors |-> 0]
        /\ asked = [a \in Actors |-> 0]
        /\ answer = [said |-> 0, was |-> 0]
        /\ held = [a \in Actors |-> {}]
        /\ reserved = {}

\* 1 << bit, an int: the x86 shift uses the count modulo 32, and 1 << 31 is
\* negative, so it is sign-extended to the bits 31..63 of the 64-bit word.
IntMask(b) == IF b % HalfBits = HalfBits - 1 THEN (HalfBits - 1) .. (WordBits - 1)
                                             ELSE {b % HalfBits}

Mark(p)   == allocation_table' = [allocation_table EXCEPT ![p[1]] = @ \cup IntMask(p[2])]

\* Mistake: the whole word is cleared.
UnmarkWord(p) == allocation_table' = [allocation_table EXCEPT ![p[1]] = {}]

Unmark(p) == allocation_table' = [allocation_table EXCEPT ![p[1]] = @ \ IntMask(p[2])]
Marked(p) == allocation_table[p[1]] \cap IntMask(p[2]) # {}

Count(n)   == used_physical_pages' = (used_physical_pages + n) % CountModulus
Goto(a, l) == pc' = [pc EXCEPT ![a] = l]
Set(f, a, v) == [f EXCEPT ![a] = v]
-----------------------------------------------------------------------------
\* memory_physical_reserve(physical_address, bytes): its first page and the
\* index after its last one.  Callers reserve memory that nobody holds.
\* (Zero bytes at an aligned address wrap around to the whole address space.)
StartIndex(r) == r.address \div PageSize
PageCount(r)  ==
    (((r.bytes + (r.address % PageSize) - 1) % AddressModulus) \div PageSize) + 1

\* The pages the caller means.
RangeOf(r) == {p \in Pages : /\ (Index(p) + 1) * PageSize > r.address
                              /\ Index(p) * PageSize < r.address + r.bytes}

memory_physical_reserve(a, r) ==
    /\ pc[a] = "idle"
    /\ RangeOf(r) \cap HeldPages = {}
    /\ Acquire(a)
    /\ Goto(a, "reserve")
    /\ spot' = Set(spot, a, StartIndex(r))
    /\ limit' = Set(limit, a, StartIndex(r) + PageCount(r))
    /\ reserved' = reserved \cup RangeOf(r)
    /\ UNCHANGED <<shared, consecutive, asked, answer, held>>

\* Mistake: the page behind the one looked at is marked.
ReserveNextPage(a) ==
    /\ pc[a] = "reserve"
    /\ spot[a] < limit[a] /\ spot[a] < TableLength
    /\ IF Marked(PageAt(spot[a]))
       THEN UNCHANGED <<allocation_table, used_physical_pages>>
       ELSE Mark(PageAt(spot[a] + 1)) /\ Count(1)
    /\ spot' = Set(spot, a, spot[a] + 1)
    /\ UNCHANGED <<holder, allocation_index, pc, limit, consecutive, asked, answer, held, reserved>>

\* One iteration of the loop.  The index of a PAGE is compared with the length
\* of the table in WORDS.
ReservePage(a) ==
    /\ pc[a] = "reserve"
    /\ spot[a] < limit[a] /\ spot[a] < TableLength
    /\ IF Marked(PageAt(spot[a]))
       THEN UNCHANGED <<allocation_table, used_physical_pages>>
       ELSE Mark(PageAt(spot[a])) /\ Count(1)
    /\ spot' = Set(spot, a, spot[a] + 1)
    /\ UNCHANGED <<holder, allocation_index, pc, limit, consecutive, asked, answer, held, reserved>>

ReserveDone(a) ==
    /\ pc[a] = "reserve"
    /\ spot[a] >= limit[a] \/ spot[a] >= TableLength
    /\ Release(a)
    /\ Goto(a, "idle")
    /\ spot' = Set(spot, a, 0)
    /\ limit' = Set(limit, a, 0)
    /\ UNCHANGED <<shared, consecutive, asked, answer, held, reserved>>

\* Mistake: the counter is left alone.
FreeUncounted(a, p) ==
    /\ pc[a] = "idle"
    /\ holder = NoActor
    /\ p \in held[a]
    /\ held' = [held EXCEPT ![a] = @ \ {p}]
    /\ IF p[1] < TableLength /\ Marked(p) THEN Unmark(p) ELSE UNCHANGED allocation_table
    /\ UNCHANGED <<holder, allocation_index, used_physical_pages, pc, locals, answer, reserved>>

\* memory_physical_free: the whole body runs under the lock.  A page past the
\* table, or one whose bit is zero, only produces a warning.
memory_physical_free(a, p) ==
    /\ pc[a] = "idle"
    /\ holder = NoActor
    /\ p \in held[a]
    /\ held' = [held EXCEPT ![a] = @ \ {p}]
    /\ IF p[1] < TableLength /\ Marked(p)
       THEN Unmark(p) /\ Count(-1)
       ELSE UNCHANGED <<allocation_table, used_physical_pages>>
    /\ UNCHANGED <<holder, allocation_index, pc, locals, answer, reserved>>

\* memory_physical_allocate, up to the scan of the words.
memory_physical_allocate(a) ==
    /\ pc[a] = "idle"
    /\ Cardinality(held[a]) < MaxHeld
    /\ allocation_index \in Cells
    /\ Acquire(a)
    /\ Goto(a, "scan")
    /\ spot' = Set(spot, a, allocation_index)
    /\ UNCHANGED <<shared, limit, consecutive, asked, answer, held, reserved>>

\* Mistake: the search does not wrap around.
LastWord(s) == IF s + 1 >= TableLength THEN s ELSE s + 1

NextWord(s) == IF s + 1 >= TableLength THEN 0 ELSE s + 1

\* The word is full: go to the next one, for ever if all are full.
ScanWord(a) ==
    /\ pc[a] = "scan"
    /\ allocation_table[spot[a]] = Bits
    /\ spot' = Set(spot, a, NextWord(spot[a]))
    /\ UNCHANGED <<holder, shared, pc, limit, consecutive, asked, answer, held, reserved>>

\* The first zero bit of the word is taken.
TakePage(a) ==
    /\ pc[a] = "scan"
    /\ \E b \in Bits :
        /\ b \notin allocation_table[spot[a]]
        /\ \A c \in Bits : c < b => c \in allocation_table[spot[a]]
        /\ Mark(<<spot[a], b>>)
        /\ held' = [held EXCEPT ![a] = @ \cup {<<spot[a], b>>}]
    /\ allocation_index' = spot[a]
    /\ Count(1)
    /\ Release(a)
    /\ Goto(a, "idle")
    /\ spot' = Set(spot, a, 0)
    /\ UNCHANGED <<limit, consecutive, asked, answer, reserved>>

\* memory_physical_allocate_consecutive, up to the scan of the words.
memory_physical_allocate_consecutive(a, n) ==
    /\ pc[a] = "idle"
    /\ Cardinality(held[a]) < MaxHeld
    /\ allocation_index \in Cells
    /\ Acquire(a)
    /\ Goto(a, "search")
    /\ limit' = Set(limit, a, n \div WordBits)
    /\ asked' = Set(asked, a, n)
    /\ spot' = Set(spot, a, allocation_index)
    /\ UNCHANGED <<shared, consecutive, answer, held, reserved>>

\* Mistake: the last word of the run need not be zero.
FoundTooSoon(a) == consecutive[a] + 1 >= limit[a]


\* The run of zero words ends here: the next word, or the start of the table,
\* where a run always starts anew.
Found(a) == allocation_table[spot[a]] = {} /\ consecutive[a] + 1 >= limit[a]

SearchWord(a) ==
    /\ pc[a] = "search"
    /\ ~Found(a)
    /\ spot' = Set(spot, a, NextWord(spot[a]))
    /\ consecutive' = Set(consecutive, a,
           IF allocation_table[spot[a]] = {} /\ spot[a] + 1 < TableLength
           THEN consecutive[a] + 1 ELSE 0)
    /\ UNCHANGED <<holder, shared, pc, limit, asked, answer, held, reserved>>

\* Mistake: the last word of the run is not marked.
TakeTooFew(a) ==
    /\ pc[a] = "search"
    /\ Found(a)
    /\ LET start == spot[a] - consecutive[a]
           taken == start .. (start + limit[a] - 2)
       IN  /\ allocation_table' = [w \in Cells |-> IF w \in taken THEN Bits
                                                   ELSE allocation_table[w]]
           /\ held' = [held EXCEPT ![a] = @ \cup
                  {p \in Cells \X Bits : Index(p) \in (start * WordBits) ..
                                                      (start * WordBits + asked[a] - 1)}]
           /\ spot' = Set(spot, a, start)
    /\ Release(a)
    /\ Goto(a, "publish")
    /\ UNCHANGED <<allocation_index, used_physical_pages, limit, consecutive, asked, answer, reserved>>

\* Enough zero words in a row: all of them become full, then the lock is
\* released.  The caller owns the pages it asked for.
TakeChunks(a) ==
    /\ pc[a] = "search"
    /\ Found(a)
    /\ LET start == spot[a] - consecutive[a]
           taken == start .. (start + limit[a] - 1)
       IN  /\ allocation_table' = [w \in Cells |-> IF w \in taken THEN Bits
                                                   ELSE allocation_table[w]]
           /\ held' = [held EXCEPT ![a] = @ \cup
                  {p \in Cells \X Bits : Index(p) \in (start * WordBits) ..
                                                      (start * WordBits + asked[a] - 1)}]
           /\ spot' = Set(spot, a, start)
    /\ Release(a)
    /\ Goto(a, "publish")
    /\ UNCHANGED <<allocation_index, used_physical_pages, limit, consecutive, asked, answer, reserved>>

\* After the lock is released: allocation_index = spot + chunk_count.
PublishIndex(a) ==
    /\ pc[a] = "publish"
    /\ allocation_index' = spot[a] + limit[a]
    /\ Goto(a, "idle")
    /\ spot' = Set(spot, a, 0)
    /\ limit' = Set(limit, a, 0)
    /\ consecutive' = Set(consecutive, a, 0)
    /\ asked' = Set(asked, a, 0)
    /\ UNCHANGED <<holder, allocation_table, used_physical_pages, answer, held, reserved>>

\* memory_physical_allocated: takes no lock, and looks the page's bit up in the
\* word numbered like the page.
AllocatedResult(p) ==
    IF Index(p) >= TableLength \/ p[2] \in allocation_table[Index(p)] THEN 1 ELSE 0

memory_physical_allocated(a, p) ==
    /\ pc[a] = "idle"
    /\ answer' = [said |-> AllocatedResult(p),
                  was  |-> IF p \in reserved \cup HeldPages THEN 1 ELSE 0]
    /\ UNCHANGED <<holder, shared, pc, locals, held, reserved>>
-----------------------------------------------------------------------------
\* A call to one of the operations in use.
Call(a) ==
    \/ "reserve" \in Ops /\ \E r \in ReserveArgs : memory_physical_reserve(a, r)
    \/ "free" \in Ops /\ \E p \in held[a] : memory_physical_free(a, p)
    \/ "allocate" \in Ops /\ memory_physical_allocate(a)
    \/ "consecutive" \in Ops /\ \E n \in ConsecutiveArgs :
                                    memory_physical_allocate_consecutive(a, n)
    \/ "allocated" \in Ops /\ \E p \in Pages : memory_physical_allocated(a, p)

\* The next step of a call under way.
Step(a) == \/ ReservePage(a) \/ ReserveDone(a)
           \/ ScanWord(a) \/ TakePage(a)
           \/ SearchWord(a) \/ TakeChunks(a) \/ PublishIndex(a)

Next == \E a \in Actors : Call(a) \/ Step(a)

Spec == Init /\ [][Next]_vars

\* A call under way keeps executing; nobody has to make a call.
FairSpec == Spec /\ \A a \in Actors : WF_vars(Step(a))
-----------------------------------------------------------------------------
TypeOK ==
    /\ holder \in Actors \cup {NoActor}
    /\ allocation_table \in [Cells -> SUBSET Bits]
    /\ allocation_index \in 0 .. (TableLength + OverrunWords)
    /\ used_physical_pages \in 0 .. (CountModulus - 1)
    /\ pc \in [Actors -> {"idle", "reserve", "scan", "search", "publish"}]
    /\ spot \in [Actors -> Nat]
    /\ limit \in [Actors -> Nat]
    /\ consecutive \in [Actors -> Nat]
    /\ asked \in [Actors -> Nat]
    /\ answer \in [said : {0, 1}, was : {0, 1}]
    /\ held \in [Actors -> SUBSET (Cells \X Bits)]
    /\ reserved \in SUBSET Pages

\* memory_physical.c: no page of the memory is ever given to two callers,
\* whatever the interleaving of their calls.
Exclusive == \A a, b \in Actors : a # b => held[a] \cap held[b] \cap Pages = {}

\* memory_physical.c: a page somebody holds has its bit set, so a call of
\* memory_physical_allocate can never return it (to the same caller either).
HeldIsMarked == \A a \in Actors : \A p \in held[a] \cap Pages :
                                         p[2] \in allocation_table[p[1]]

\* memory_physical.c: the bits from 31 up of a word of the table are all equal.
\* They are only ever written together, because the masks are sign-extended
\* ints; so memory_physical_allocate never returns a page above bit 31.
HighBitsUniform ==
    \A w \in Words : LET high == allocation_table[w] \cap ((HalfBits - 1) .. (WordBits - 1))
                     IN  high = {} \/ high = (HalfBits - 1) .. (WordBits - 1)

\* memory_physical.h: "Reserves a physical address so it can't be allocated
\* using memory_physical_allocate", for the pages the reserve loop accepts.
Reservable == {p \in Pages : Index(p) < TableLength}
ReservableNeverHeld == reserved \cap Reservable \cap HeldPages = {}

\* memory_physical.h: the same for every page of the memory.
ReservedNeverHeld == reserved \cap HeldPages = {}

\* memory_physical.h: memory_physical_used_pages returns the number of used
\* pages, whenever no call is half way, as long as only single pages have been
\* taken and freed.
SinglesCounted == holder = NoActor /\ reserved = {} =>
    used_physical_pages = Cardinality(HeldPages)

\* memory_physical.h: the same whatever has been called.
UsedPagesCounted == holder = NoActor =>
    used_physical_pages = Cardinality(reserved \cup HeldPages)

\* memory_physical.h: memory_physical_allocated returns 1 if the page has been
\* reserved or allocated.
AllocatedTellsTruth == answer.was = 1 => answer.said = 1

\* memory_physical.h: what is returned is a chunk of physical memory.
HeldIsMemory == HeldPages \subseteq Pages

\* memory_physical.c: the search of memory_physical_allocate only runs for ever
\* when no memory is available.
FullMeansUsed == (\A w \in Words : allocation_table[w] = Bits)
                    => Pages \subseteq reserved \cup HeldPages

\* memory_physical.c: an allocation under way returns unless the table is full.
AllocateReturns == \A a \in Actors :
    pc[a] = "scan" ~> (pc[a] # "scan" \/ \A w \in Words : allocation_table[w] = Bits)

\* Somewhere in the table there are n words in a row that are zero.
ZeroRun(n) == \E w \in Words : \A v \in w .. (w + n - 1) : v \in Words /\ allocation_table[v] = {}


\* memory_physical.c: reserve, allocate and free together keep the promise of
\* memory_physical.h, for the pages that the reserve loop accepts.
A == INSTANCE PageAllocator WITH reserved <- reserved \cap Reservable
ImplementsPageAllocator == A!Spec
=============================================================================
