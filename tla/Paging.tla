------------------------------- MODULE Paging -------------------------------
(***************************************************************************)
(* Virtual memory, paging.c: four levels of tables in physical frames, and *)
(* a cursor (struct paging_context) that moves through them.  A call is a  *)
(* loop over pages or table entries; one step here is one iteration.       *)
(*                                                                         *)
(* Levels are numbered as in the code: an entry of a level 1 table maps a  *)
(* 4KiB page, of a level 2 table 2MiB or a level 1 table, of a level 3     *)
(* table 1GiB or a level 2 table.  A table has TableEntries entries (512). *)
(* A frame is a physical page number; a pointer to a table is its frame, 0 *)
(* is the null pointer.  Frames come from memory_physical_allocate, which  *)
(* never returns one twice (PhysicalMemory), so frames are taken in order. *)
(*                                                                         *)
(* The contents of memory that is not a table are not modelled: when the   *)
(* code follows a pointer that is not one to a table, the walk is marked   *)
(* wild and the model stops there.                                         *)
(***************************************************************************)
EXTENDS Integers, Sequences, FiniteSets

CONSTANTS TableEntries,        \* 512
          PageSize,            \* 4096
          Modulus,             \* 2^64
          Plans,               \* what the machine and the callers may be like
          FirstFrame,          \* the first frame that memory_physical_allocate returns
          MaxFrames,           \* bound: no mapping starts once this frame was given,
          MaxUsed              \* or more pages than this are counted as used

Levels == 1 .. 4
Slots  == 0 .. (TableEntries - 1)

\* Pages of 4KiB, and bytes, that one entry of a table of that level covers.
Span(k) == CASE k = 1 -> 1
             [] k = 2 -> TableEntries
             [] k = 3 -> TableEntries * TableEntries
             [] k = 4 -> TableEntries * TableEntries * TableEntries
Size(k) == PageSize * Span(k)

CallType == [op : {"map", "map_physical", "map_at", "map_physical_at", "unmap"},
             va : Nat, pa : Nat, bytes : Nat,
             level : 1 .. 3,          \* PAGING_FLAG_2MB: 2, PAGING_FLAG_1GB: 3
             replace : BOOLEAN, user : BOOLEAN]

\* hugepages: what cpuid said at paging_initialize; boot: the calls made first, in
\* order; calls: those made afterwards, in any order; unmapping: whether callers call
\* paging_unmap too.
PlanType == [hugepages : BOOLEAN, boot : Seq(CallType), calls : SUBSET CallType,
             unmapping : BOOLEAN]

ASSUME PagingAssumption ==
    /\ TableEntries \in Nat \ {0, 1}
    /\ PageSize \in Nat \ {0}
    /\ Modulus \in Nat \ {0}
    /\ Plans \subseteq PlanType
    /\ FirstFrame \in Nat \ {0}
    /\ MaxFrames \in Nat
    /\ MaxUsed \in Nat

VARIABLES walk,      \* the tables, and the cursor of the call under way
          context,   \* the caller's struct paging_context between calls
          used_virtual_pages,
          pc, call,  \* the call under way and where it is
          count,     \* its loop counter i
          address,   \* the virtual address it will return
          ret,       \* what the last call returned (0: failure)
          plan, booted, \* how many calls of plan.boot have been made
          frames,    \* history: frames paging_map took for the call's pages
          regions    \* history: what callers were told is mapped, and did not unmap

vars == <<walk, context, used_virtual_pages, pc, call, count, address, ret,
          plan, booted, frames, regions>>
-----------------------------------------------------------------------------
\* Entries and tables.
Null       == [present |-> FALSE, at |-> 0, size |-> FALSE, user |-> FALSE]
Link(f)    == [Null EXCEPT !.present = TRUE, !.at = f]
EmptyTable == [s \in Slots |-> Null]

\* paging_convert_flags, and the size flag of a huge page.
Leaf(f, k, user) == [present |-> TRUE, at |-> f, size |-> k > 1, user |-> user]

IndexOf(va)  == [k \in Levels |-> (va \div Size(k)) % TableEntries]
AddressOf(i) == i[1] * Size(1) + i[2] * Size(2) + i[3] * Size(3) + i[4] * Size(4)

\* The pointer of level k and the slot it selects are usable.
Valid(w, k) == w.tab[k] \in DOMAIN w.mem /\ w.idx[k] \in Slots
Entry(w, k) == IF Valid(w, k) THEN w.mem[w.tab[k]][w.idx[k]] ELSE Null
Wild(w)     == [w EXCEPT !.wild = TRUE]
Write(w, k, e) == IF Valid(w, k) THEN [w EXCEPT !.mem[w.tab[k]][w.idx[k]] = e] ELSE Wild(w)

\* Mistake: the frame of the new table is not taken from the allocator.
NewTableShared(w, k, slot) ==
    IF w.tab[k + 1] \in DOMAIN w.mem /\ slot \in Slots
    THEN [w EXCEPT !.tab[k] = w.brk,
                   !.mem = [f \in DOMAIN w.mem \cup {w.brk} |->
                       IF f = w.brk THEN EmptyTable
                       ELSE IF f = w.tab[k + 1] THEN [w.mem[f] EXCEPT ![slot] = Link(w.brk)]
                       ELSE w.mem[f]]]
    ELSE Wild(w)

\* A new, zeroed table of level k, linked in the given slot of the one above.
NewTable(w, k, slot) ==
    IF w.tab[k + 1] \in DOMAIN w.mem /\ slot \in Slots
    THEN [w EXCEPT !.tab[k] = w.brk,
                   !.brk = @ + 1,
                   !.mem = [f \in DOMAIN w.mem \cup {w.brk} |->
                       IF f = w.brk THEN EmptyTable
                       ELSE IF f = w.tab[k + 1] THEN [w.mem[f] EXCEPT ![slot] = Link(w.brk)]
                       ELSE w.mem[f]]]
    ELSE Wild(w)

\* Follow the selected entry of level k + 1 to the table of level k, which is
\* made if the pointer is null.  (A huge page at physical address 0 has a null
\* pointer too.)
Follow(w, k, slot) ==
    LET e == Entry(w, k + 1) IN
    IF ~Valid(w, k + 1) THEN Wild(w)
    ELSE IF e.at = 0 THEN NewTable(w, k, slot)
    ELSE [w EXCEPT !.tab[k] = e.at]

Load(w, k) == IF w.wild THEN w ELSE Follow(w, k, w.idx[k + 1])

\* ++index of level k, carried into the levels above; 5 if all are at the end.
Carry(w, k) == IF \E m \in k .. 4 : w.idx[m] + 1 < TableEntries
               THEN CHOOSE m \in k .. 4 : /\ w.idx[m] + 1 < TableEntries
                                          /\ \A j \in k .. (m - 1) : w.idx[j] + 1 >= TableEntries
               ELSE 5
Increment(w, k) == [w EXCEPT !.idx = [j \in Levels |->
                       IF j < k \/ j > Carry(w, k) THEN w.idx[j]
                       ELSE IF j = Carry(w, k) THEN w.idx[j] + 1 ELSE 0]]

\* The tables of the levels below top, down to level k.
Descend(w, top, k) ==
    LET w3 == IF top > 3 /\ k <= 3 THEN Load(w, 3) ELSE w
        w2 == IF top > 2 /\ k <= 2 THEN Load(w3, 2) ELSE w3
    IN  IF top > 1 /\ k <= 1 THEN Load(w2, 1) ELSE w2

\* Mistake: the indices move on, the table pointers do not.
AdvanceIndex(w, k) == Increment(w, k)

\* The next entry of level k.  In the 1GiB loop the pointer to an existing
\* level 3 table keeps the flag bits of its entry, and points to no table.
Unmasked(f) == f + Modulus
Advance(w, k) ==
    LET n == Increment(w, k)
    IN  IF k = 3 /\ Carry(w, k) = 4 /\ Entry(n, 4) # Null
        THEN [n EXCEPT !.tab[3] = Unmasked(Entry(n, 4).at)]
        ELSE Descend(n, Carry(w, k), k)

\* The same in paging_index_find_spot, where level4_index wraps around.
AdvanceWrapping(w, k) == Descend(Increment(w, k), Carry(w, k), k)
-----------------------------------------------------------------------------
NoCall == [op |-> "unmap", va |-> 0, pa |-> 0, bytes |-> 0, level |-> 1,
           replace |-> FALSE, user |-> FALSE]

Init ==
    /\ plan \in Plans
    /\ walk = [idx |-> [k \in Levels |-> 0],
               tab |-> [k \in Levels |-> IF k = 4 THEN FirstFrame ELSE 0],
               mem |-> [f \in {FirstFrame} |-> EmptyTable],
               brk |-> FirstFrame + 1,
               wild |-> FALSE]
    /\ context = [idx |-> walk.idx, tab |-> walk.tab]
    /\ used_virtual_pages = 0
    /\ pc = "idle"
    /\ call = NoCall
    /\ count = 0
    /\ address = 0
    /\ ret = 1
    /\ booted = 0
    /\ frames = <<>>
    /\ regions = {}

\* ((bytes - 1) >> ..) + 1: the entries of level k that bytes need.
Pages(bytes, k) == (((bytes - 1) % Modulus) \div Size(k)) + 1

AtCursor(c) == c.op \in {"map", "map_physical"}
Physical(c) == c.op \in {"map_physical", "map_physical_at"}

\* A region is a successful mapping as its caller knows it: where it starts,
\* the frames behind its pages, and whether the caller chose those (physical) or the
\* allocator gave them.
PagesOf(r)    == {r.va \div PageSize + i : i \in 0 .. (Len(r.frames) - 1)}
FrameOf(r, v) == r.frames[v - (r.va \div PageSize) + 1]

\* The call c returns r, with the tables and the cursor of w.  paging_map and
\* paging_map_physical have moved the caller's own cursor, even if they failed.
Return(c, w, r) ==
    /\ pc' = "idle"
    /\ call' = NoCall
    /\ ret' = r
    /\ walk' = [w EXCEPT !.idx = [k \in Levels |-> 0],
                         !.tab = [k \in Levels |-> IF k = 4 THEN w.tab[4] ELSE 0]]
    /\ context' = IF AtCursor(c) THEN [idx |-> w.idx, tab |-> w.tab] ELSE context
    /\ count' = 0
    /\ address' = 0
    /\ frames' = <<>>
    /\ UNCHANGED plan
Fail(c, w) == Return(c, w, 0) /\ UNCHANGED <<used_virtual_pages, regions>>

\* The call c goes on at l.
Continue(c, w, l) ==
    /\ pc' = l
    /\ call' = c
    /\ walk' = w
    /\ UNCHANGED <<context, used_virtual_pages, ret, regions, plan>>

\* It goes on without having written an entry.
Proceed(c, w, l) == Continue(c, w, l) /\ UNCHANGED <<count, address, frames>>

\* The calls that may come next.  None does once a bad pointer was followed.
\* Callers unmap what they mapped.
UnmapOf(r) == [NoCall EXCEPT !.va = r.va, !.bytes = r.bytes]
Offered == IF booted < Len(plan.boot) THEN {plan.boot[booted + 1]}
           ELSE plan.calls \cup (IF plan.unmapping THEN {UnmapOf(r) : r \in regions} ELSE {})

Begin(c) == /\ pc = "idle"
            /\ ~walk.wild
            /\ c.op = "unmap" \/ c.bytes = 0 \/ (walk.brk <= MaxFrames
                                                /\ used_virtual_pages <= MaxUsed)
            /\ booted' = IF booted < Len(plan.boot) THEN booted + 1 ELSE booted
-----------------------------------------------------------------------------
\* paging_index_find_spot works at the level k of the largest entries that the
\* bytes and the cursor ask for.
SpotLevel(w, c) ==
    IF c.bytes <= Size(2) /\ w.tab[2] # 0 /\ c.level # 3 THEN 1
    ELSE IF c.bytes <= Size(3) /\ w.tab[3] # 0 THEN 2
    ELSE IF c.bytes <= Size(4) THEN 3 ELSE 4

\* The bytes fit in the rest of the current table of level k.
Fits(w, c, k) == /\ w.idx[k] + Pages(c.bytes, k) <= TableEntries
                 /\ k < 4 => w.tab[k] # 0

\* New tables from level k down to the level of the pages, all at index 0.
NewTables(w, c, k) ==
    LET fresh(v, j) == IF j <= k /\ j >= c.level /\ ~v.wild
                       THEN NewTable([v EXCEPT !.idx[j] = 0], j, v.idx[j + 1]) ELSE v
    IN  fresh(fresh(fresh(w, 3), 2), 1)

\* paging_map and paging_map_physical: is there room at the cursor?
FindSpot(c) ==
    /\ AtCursor(c)
    /\ Begin(c)
    /\ LET w == [walk EXCEPT !.idx = context.idx, !.tab = context.tab]
           k == SpotLevel(w, c)
       IN  IF c.bytes = 0 \/ (k = 4 /\ ~Fits(w, c, 4))
           THEN Fail(c, w)
           ELSE Proceed(c, w, IF Fits(w, c, k) THEN "map" ELSE "find")

\* One iteration of the search for an empty entry of the level above, and what
\* follows when one is found.
FindEntry ==
    /\ pc = "find" /\ ~walk.wild
    /\ LET k == SpotLevel(walk, call)
       IN  IF ~Valid(walk, k + 1) THEN Proceed(call, Wild(walk), "find")
           ELSE IF Entry(walk, k + 1) # Null
           THEN Proceed(call, AdvanceWrapping(walk, k + 1), "find")
           ELSE Proceed(call, NewTables(walk, call, k), "map")
    /\ UNCHANGED booted

\* paging_virtual_address_to_index: the new level 1 table is linked in the slot
\* numbered like the level THREE index.
ToIndex(w, c) ==
    LET w3 == Load([w EXCEPT !.idx = IndexOf(c.va)], 3)
        w2 == IF c.level < 3 THEN Load(w3, 2) ELSE [w3 EXCEPT !.tab[2] = 0]
        w1 == IF c.level < 2 /\ ~w2.wild THEN Follow(w2, 1, w2.idx[3])
              ELSE [w2 EXCEPT !.tab[1] = 0]
    IN  [w1 EXCEPT !.idx = [k \in Levels |-> IF k < c.level THEN 0 ELSE w1.idx[k]]]

\* paging_map_at and paging_map_physical_at: a cursor of their own.
FindAddress(c) ==
    /\ c.op \in {"map_at", "map_physical_at"}
    /\ Begin(c)
    /\ LET w == ToIndex(walk, c)
       IN  IF c.va % Size(c.level) # 0 THEN Fail(c, w) ELSE Proceed(c, w, "map")

\* paging_map_index_physical and paging_map_index_current: the size of the
\* pages is that of the entry found, or of the flags.
PageLevel(w, c) == IF Entry(w, 3).size \/ c.level = 3 THEN 3
                   ELSE IF Entry(w, 2).size \/ c.level = 2 THEN 2 ELSE 1

\* Reasons to return 0: only the first entry is looked at.
Refused(w, c, k) ==
    \/ c.bytes = 0
    \/ k = 3 /\ ~plan.hugepages
    \/ k > 1 /\ ~Physical(c)                              \* not implemented
    \/ Physical(c) /\ c.pa % Size(k) # 0
    \/ Entry(w, k) # Null /\ ~(k > 1 /\ c.replace)

StartMap ==
    /\ pc = "map" /\ ~walk.wild
    /\ LET k == PageLevel(walk, call) IN
       IF \E j \in k .. 3 : ~Valid(walk, j) THEN Proceed(call, Wild(walk), "map")
       ELSE IF Refused(walk, call, k) THEN Fail(call, walk)
       ELSE /\ Continue([call EXCEPT !.level = k], walk, "page")
            /\ address' = IF AtCursor(call) THEN AddressOf(walk.idx) ELSE call.va
            /\ UNCHANGED <<count, frames>>
    /\ UNCHANGED booted

\* What a caller is told by a successful call.  A mapping that replaces others
\* ends them.
Region(c, va, fs) ==
    [va |-> va, bytes |-> c.bytes, user |-> c.user, physical |-> Physical(c),
     frames |-> IF Physical(c) THEN [i \in 1 .. Pages(c.bytes, 1) |-> c.pa \div PageSize + i - 1]
                ELSE fs]
Told(c, r) == {r} \cup {q \in regions : c.replace => PagesOf(q) \cap PagesOf(r) = {}}

\* A call of paging_unmap ends the mapping, even if it fails half way.
Forget(c) == {r \in regions : r.va # c.va}

\* The end of the virtual address space: the indices stay past the end.
Ended(w, k) == [w EXCEPT !.idx = [j \in Levels |-> IF j < k THEN w.idx[j] ELSE TableEntries]]

\* Mistake: huge pages count as one.
EntriesOf(n, k) == n

\* used_virtual_pages counts in pages of 4KiB.
SmallPages(n, k) == n * Span(k)

\* for (i = 0; i < n; i++): another iteration follows.
More(n) == count + 1 < n

\* One page: write the entry, go to the next one.
MapPage ==
    /\ pc = "page" /\ ~walk.wild
    /\ LET k   == call.level
           n   == Pages(call.bytes, k)
           own == IF Physical(call) THEN walk ELSE [walk EXCEPT !.brk = @ + 1]
           f   == IF Physical(call) THEN (call.pa + count * Size(k)) \div PageSize ELSE walk.brk
           w   == Write(own, k, Leaf(f, k, call.user))
           fs  == IF Physical(call) THEN frames ELSE Append(frames, f)
       IN  IF w.wild THEN Proceed(call, w, "page")
           ELSE IF Carry(w, k) = 5 THEN Fail(call, Ended(w, k))
           ELSE IF More(n)
           THEN /\ Continue(call, Advance(w, k), "page")
                /\ count' = count + 1
                /\ frames' = fs
                /\ UNCHANGED address
           ELSE /\ Return(call, Advance(w, k), address)
                /\ used_virtual_pages' = (used_virtual_pages + SmallPages(n, k)) % Modulus
                /\ regions' = Told(call, Region(call, address, fs))
    /\ UNCHANGED booted
-----------------------------------------------------------------------------
\* paging_get_physical_address: the frame address of a virtual address, 0 if it
\* is not mapped.  Path is the entries on the way.
Path(w, va) ==
    LET at(t, k) == IF t \in DOMAIN w.mem THEN w.mem[t][IndexOf(va)[k]] ELSE Null
        e4 == at(w.tab[4], 4)
        e3 == at(e4.at, 3)
        e2 == IF e3.size THEN e3 ELSE at(e3.at, 2)
        e1 == IF e2.size THEN e2 ELSE at(e2.at, 1)
    IN  <<e1, e2, e3, e4>>
LeafLevel(p) == IF p[3].size THEN 3 ELSE IF p[2].size THEN 2 ELSE 1
Mapped(w, va) == \A k \in Levels : Path(w, va)[k] # Null
paging_get_physical_address(w, va) ==
    IF Mapped(w, va)
    THEN Path(w, va)[1].at * PageSize + (va % Size(LeafLevel(Path(w, va))))
    ELSE 0

\* paging_unmap: the page size is that of the entry found.
StartUnmap(c) ==
    /\ c.op = "unmap"
    /\ Begin(c)
    /\ LET p == Path(walk, c.va)
           k == LeafLevel(p)
           w == [walk EXCEPT !.idx = IndexOf(c.va), !.tab[3] = p[4].at,
                             !.tab[2] = p[3].at, !.tab[1] = p[2].at]
       IN  IF ~Mapped(walk, c.va) \/ c.va % Size(k) # 0
           THEN Fail(c, w)
           ELSE Proceed([c EXCEPT !.level = k], w, "unmap")

\* Mistake: the table pointers stay where they are.
ReachNothing(w, top, k) == w

\* The tables below top, none of which is made: a null one ends the call.
Reach(w, top, k) ==
    LET down(v, j) == IF j >= top \/ j < k \/ v.wild \/ v.tab[j + 1] = 0 THEN v
                      ELSE IF Valid(v, j + 1) THEN [v EXCEPT !.tab[j] = Entry(v, j + 1).at]
                      ELSE Wild(v)
    IN  down(down(down(w, 3), 2), 1)

UnmapPage ==
    /\ pc = "unmap" /\ ~walk.wild
    /\ LET k   == call.level
           n   == Pages(call.bytes, k)
           w   == Write(walk, k, Null)
           top == Carry(w, k)
           r   == Reach(Increment(w, k), top, k)
       IN  IF w.wild \/ r.wild THEN Proceed(call, Wild(w), "unmap")
           ELSE IF top = 5 \/ \E j \in k .. (top - 1) : r.tab[j] = 0
           THEN /\ Return(call, w, 0)
                /\ regions' = Forget(call)
                /\ UNCHANGED used_virtual_pages
           ELSE IF More(n)
           THEN /\ Continue(call, r, "unmap")
                /\ count' = count + 1
                /\ UNCHANGED <<address, frames>>
           ELSE /\ Return(call, r, 1)
                /\ regions' = Forget(call)
                /\ used_virtual_pages' = (used_virtual_pages - SmallPages(n, k)) % Modulus
    /\ UNCHANGED booted
-----------------------------------------------------------------------------
Next == \/ \E c \in Offered : FindSpot(c) \/ FindAddress(c) \/ StartUnmap(c)
        \/ FindEntry \/ StartMap \/ MapPage \/ UnmapPage

Spec == Init /\ [][Next]_vars
-----------------------------------------------------------------------------
\* The plans of the kernel.  At start up ranges are mapped at addresses of the
\* caller's choice; they are disjoint, each stays within one level 4 entry and before
\* its end, those that share a level 4 entry have pages of one size, and the level 4
\* entries are the first ones.  Afterwards 4KiB pages are mapped at the cursor.
SlotOf(c) == c.va \div Size(4)
First(c)  == c.va \div PageSize
Past(c)   == First(c) + Pages(c.bytes, c.level) * Span(c.level)
BootSlots(p) == {SlotOf(p.boot[i]) : i \in DOMAIN p.boot}

BootCall(c) == /\ c.op \in {"map_at", "map_physical_at"}
               /\ c.bytes > 0 /\ c.bytes <= Modulus
               /\ SlotOf(c) \in Slots
               /\ Past(c) < (SlotOf(c) + 1) * Span(4)
               /\ c.level = 1 => IndexOf(c.va)[2] = IndexOf(c.va)[3]
CursorCall(c) == AtCursor(c) /\ c.level = 1 /\ c.bytes <= Size(4)

KernelPlan(p) ==
    /\ \A i \in DOMAIN p.boot : BootCall(p.boot[i])
    /\ \A i, j \in DOMAIN p.boot : i # j =>
          /\ SlotOf(p.boot[i]) = SlotOf(p.boot[j]) => p.boot[i].level = p.boot[j].level
          /\ Past(p.boot[i]) <= First(p.boot[j]) \/ Past(p.boot[j]) <= First(p.boot[i])
    /\ \A s \in BootSlots(p) : \A t \in 0 .. s : t \in BootSlots(p)
    /\ \A c \in p.calls : CursorCall(c)

KernelPlans == \A p \in Plans : KernelPlan(p)

\* A pointer has room for every address.
AddressesFit == TableEntries * Size(4) < Modulus

\* The end of the virtual address space is not reached.
Room == /\ context.idx[1] < TableEntries
        /\ pc = "find" => LET k == SpotLevel(walk, call) + 1
                          IN  Entry(walk, k) # Null => Carry(walk, k) # 5
-----------------------------------------------------------------------------
Cursor == [idx : [Levels -> 0 .. TableEntries], tab : [Levels -> Nat]]
EntryType == [present : BOOLEAN, at : Nat, size : BOOLEAN, user : BOOLEAN]

TypeOK ==
    /\ walk.idx \in [Levels -> 0 .. TableEntries] /\ walk.tab \in [Levels -> Nat]
    /\ DOMAIN walk.mem \subseteq FirstFrame .. (walk.brk - 1)
    /\ \A f \in DOMAIN walk.mem : walk.mem[f] \in [Slots -> EntryType]
    /\ walk.wild \in BOOLEAN
    /\ context \in Cursor
    /\ used_virtual_pages \in 0 .. (Modulus - 1)
    /\ pc \in {"idle", "find", "map", "page", "unmap"}
    /\ call \in CallType
    /\ count \in Nat /\ address \in Nat /\ ret \in Nat
    /\ plan \in Plans
    /\ booted \in 0 .. Len(plan.boot)
    /\ frames \in Seq(Nat)
    /\ \A r \in regions : r \in [va : Nat, bytes : Nat, user : BOOLEAN, physical : BOOLEAN,
                               frames : Seq(Nat)]

Idle == pc = "idle"

\* paging.h: what a caller was told is mapped stays mapped, at the frame it was
\* told, until it is unmapped, whatever other calls do.
PromisesKept == Idle => \A r \in regions : \A v \in PagesOf(r) :
    paging_get_physical_address(walk, v * PageSize) = FrameOf(r, v) * PageSize

\* paging.c: the code never follows a pointer that is not one to a page table.
NeverWild == ~walk.wild

\* paging.h: each table of the context is the one its upper table and index
\* select.
CursorConsistent == Idle => \A k \in 1 .. 3 : context.tab[k] # 0 =>
    LET w == [walk EXCEPT !.idx = context.idx, !.tab = context.tab]
    IN  Entry(w, k + 1).at = context.tab[k]

\* The entries that lead to a table, level by level from the root: those of a level 4
\* table, and those of a level 3 or level 2 table that are no huge pages.  (The identity
\* map of all memory has pages whose frames are tables; those lead nowhere.)
LinksOf(m, T) == {x \in (T \cap DOMAIN m) \X Slots :
                    m[x[1]][x[2]] # Null /\ ~m[x[1]][x[2]].size}
Heads(m, L)   == {m[x[1]][x[2]].at : x \in L}
Links(m) ==
    LET l4 == LinksOf(m, {FirstFrame})
        l3 == LinksOf(m, Heads(m, l4))
        l2 == LinksOf(m, Heads(m, l3))
    IN  l4 \cup l3 \cup l2

\* paging.c: the tables form a tree, which the code never leaves.  Every entry that leads
\* to a table leads to one, which is not the root and to which no other entry leads; and
\* no table is memory that paging_map or paging_map_at gave to a caller, although all of
\* them are in the memory that is mapped by its physical address at start up.
TablesAreTree ==
    /\ NeverWild
    /\ Heads(walk.mem, Links(walk.mem)) \subseteq DOMAIN walk.mem \ {FirstFrame}
    /\ \A x, y \in Links(walk.mem) :
          walk.mem[x[1]][x[2]].at = walk.mem[y[1]][y[2]].at => x = y
    /\ \A r \in regions : ~r.physical =>
          \A i \in DOMAIN r.frames : r.frames[i] \notin DOMAIN walk.mem

\* Callers use huge pages during start up only, as cpu_initialize does.
HugeAtBootOnly == \A c \in plan.calls : c.level = 1

\* paging.h: paging_used_pages returns the number of used virtual pages, while huge
\* pages are mapped at start up only.  (One that replaces another counts twice.)
AllPages == 0 .. (TableEntries * Span(4) - 1)
UsedPagesCounted == Idle /\ HugeAtBootOnly =>
    used_virtual_pages = Cardinality({v \in AllPages : Mapped(walk, v * PageSize)})

\* paging.h: paging_unmap unmaps what was mapped before: no page of the mapping is
\* mapped afterwards, and while huge pages are mapped at start up only it says so.
\* (Behind the last page it looks for the next table: 0 is returned if that is gone,
\* as it is when a 2MiB page was mapped and unmapped there.)
UnmapUnmaps == [][\A r \in regions \ regions' : pc = "unmap" /\ pc' = "idle" =>
    /\ HugeAtBootOnly => ret' = 1
    /\ \A v \in PagesOf(r) : ~Mapped(walk', v * PageSize)]_vars

\* paging.h: a page mapped with PAGING_FLAG_USER can be accessed by privilege
\* level 3: the processor asks for the flag at every level.
UserCanAccess == Idle => \A r \in regions : r.user =>
    \A v \in PagesOf(r) : \A k \in Levels : Path(walk, v * PageSize)[k].user
=============================================================================
