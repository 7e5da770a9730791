------------------------ MODULE PhysicalMemoryProofs ------------------------
(***************************************************************************)
(* Proofs about PhysicalMemory, for any number of CPUs, table length and   *)
(* width of the words.                                                     *)
(***************************************************************************)
EXTENDS PhysicalMemory, FiniteSetTheorems, TLAPS

High == (HalfBits - 1) .. (WordBits - 1)

\* Where the search of an actor can be.
Where(a) == /\ pc[a] \in {"scan", "search"} => spot[a] \in Cells
            /\ pc[a] = "search" => consecutive[a] <= spot[a]
            /\ pc[a] \notin {"search", "publish"} => consecutive[a] = 0
            /\ pc[a] = "publish" => spot[a] + limit[a] <= TableLength + OverrunWords

\* The inductive invariant for all operations.
IInv == /\ TypeOK
        /\ HighBitsUniform
        /\ \A a \in Actors : Where(a)
-----------------------------------------------------------------------------
\* Bits and cells.
LEMMA Sizes == /\ HalfBits \in Nat \ {0} /\ WordBits \in Nat \ {0} /\ TableLength \in Nat \ {0}
               /\ HalfBits - 1 \in Bits /\ WordBits - 1 \in Bits /\ High \subseteq Bits
               /\ Bits \subseteq Nat /\ Words \subseteq Cells /\ Cells \subseteq Nat
               /\ 0 \in Words
BY PhysicalMemoryAssumption DEF WordBits, Bits, Words, Cells, High

\* A mask has all of the high bits or none of them: the sign extension.
LEMMA MaskHigh == ASSUME NEW b \in Bits
                  PROVE  /\ IntMask(b) \subseteq Bits
                         /\ IntMask(b) \cap High = {} \/ High \subseteq IntMask(b)
                         /\ IntMask(b) # {}
<1>1. b % HalfBits \in 0 .. (HalfBits - 1)
  BY Sizes
<1> QED
  BY <1>1, Sizes DEF IntMask, High, Bits, WordBits

\* A page that the reserve loop accepts is in the table.
LEMMA PageInTable == ASSUME NEW i \in Nat, i < TableLength
                     PROVE  PageAt(i) = <<i \div WordBits, i % WordBits>>
                            /\ i \div WordBits \in Words /\ i % WordBits \in Bits
<1>1. i % WordBits \in 0 .. (WordBits - 1)
  BY Sizes
<1>2. i \div WordBits \in 0 .. i
  BY Sizes
<1> QED
  BY <1>1, <1>2, Sizes DEF PageAt, Bits, Words

\* The table is empty at first.
LEMMA InitIInv == Init => IInv
<1> SUFFICES ASSUME Init PROVE IInv
  OBVIOUS
<1>1. TypeOK
  BY PhysicalMemoryAssumption DEF Init, MutexInit, TypeOK
<1>2. HighBitsUniform
  BY DEF Init, HighBitsUniform
<1>3. \A a \in Actors : Where(a)
  BY DEF Init, Where
<1> QED
  BY <1>1, <1>2, <1>3 DEF IInv

\* Setting or clearing the mask of a page keeps the high bits of a word equal.
LEMMA MarkKeeps ==
    ASSUME TypeOK, HighBitsUniform, NEW w \in Cells, NEW b \in Bits,
           Mark(<<w, b>>) \/ Unmark(<<w, b>>)
    PROVE  allocation_table' \in [Cells -> SUBSET Bits] /\ HighBitsUniform'
<1>1. IntMask(b) \subseteq Bits /\ (IntMask(b) \cap High = {} \/ High \subseteq IntMask(b))
  BY MaskHigh
<1>2. allocation_table' \in [Cells -> SUBSET Bits]
  BY <1>1 DEF TypeOK, Mark, Unmark
<1>3. ASSUME NEW v \in Words
      PROVE  LET high == allocation_table'[v] \cap High IN high = {} \/ high = High
  <2>1. allocation_table[v] \cap High = {} \/ allocation_table[v] \cap High = High
    BY DEF HighBitsUniform, High
  <2>2. v \in Cells
    BY Sizes
  <2>3. \/ allocation_table'[v] = allocation_table[v]
        \/ allocation_table'[v] = allocation_table[v] \cup IntMask(b)
        \/ allocation_table'[v] = allocation_table[v] \ IntMask(b)
    BY <2>2 DEF TypeOK, Mark, Unmark
  <2> QED
    BY <1>1, <2>1, <2>3
<1> QED
  BY <1>2, <1>3 DEF HighBitsUniform, High

\* The count stays in its range.
LEMMA CountKeeps == ASSUME TypeOK, NEW n \in Int, Count(n)
                    PROVE  used_physical_pages' \in 0 .. (CountModulus - 1)
BY PhysicalMemoryAssumption DEF TypeOK, Count

\* What memory_physical_reserve computes from its arguments.
LEMMA ReserveTypes == ASSUME NEW r \in ReserveArgs
                      PROVE  StartIndex(r) \in Nat /\ StartIndex(r) + PageCount(r) \in Nat
<1>1. r.address \in Nat /\ r.bytes \in Nat
  BY PhysicalMemoryAssumption
<1>2. r.address \div PageSize \in Nat /\ r.address % PageSize \in Nat
  BY <1>1, PhysicalMemoryAssumption
<1>3. (r.bytes + (r.address % PageSize) - 1) % AddressModulus \in Nat
  BY <1>1, <1>2, PhysicalMemoryAssumption
<1>4. PageCount(r) \in Nat
  BY <1>3, PhysicalMemoryAssumption DEF PageCount
<1> QED
  BY <1>2, <1>4 DEF StartIndex

LEMMA ReserveStep == ASSUME IInv, NEW a \in Actors, NEW r \in ReserveArgs,
                            memory_physical_reserve(a, r)
                     PROVE  IInv'
<1>1. TypeOK'
  BY ReserveTypes
     DEF IInv, TypeOK, memory_physical_reserve, Acquire, Goto, Set, shared, RangeOf
<1>2. HighBitsUniform'
  BY DEF IInv, HighBitsUniform, memory_physical_reserve, shared
<1>3. \A b \in Actors : Where(b)'
  BY DEF IInv, TypeOK, Where, memory_physical_reserve, Goto, Set
<1> QED
  BY <1>1, <1>2, <1>3 DEF IInv

LEMMA ReservePageStep == ASSUME IInv, NEW a \in Actors, ReservePage(a) PROVE IInv'
<1>1. spot[a] \in Nat /\ spot[a] < TableLength
  BY DEF IInv, TypeOK, ReservePage
<1>2. allocation_table' \in [Cells -> SUBSET Bits] /\ HighBitsUniform'
  <2>1. CASE Marked(PageAt(spot[a]))
    BY <2>1 DEF IInv, TypeOK, HighBitsUniform, ReservePage
  <2>2. CASE ~Marked(PageAt(spot[a]))
    BY <1>1, <2>2, PageInTable, Sizes, MarkKeeps DEF IInv, ReservePage
  <2> QED
    BY <2>1, <2>2
<1>3. used_physical_pages' \in 0 .. (CountModulus - 1)
  BY CountKeeps DEF IInv, TypeOK, ReservePage
<1>4. TypeOK'
  BY <1>2, <1>3 DEF IInv, TypeOK, ReservePage, Set
<1>5. \A b \in Actors : Where(b)'
  BY DEF IInv, TypeOK, Where, ReservePage, Set
<1> QED
  BY <1>2, <1>4, <1>5 DEF IInv

LEMMA ReserveDoneStep == ASSUME IInv, NEW a \in Actors, ReserveDone(a) PROVE IInv'
<1>1. TypeOK'
  BY DEF IInv, TypeOK, ReserveDone, Release, Goto, Set, shared
<1>2. HighBitsUniform'
  BY DEF IInv, HighBitsUniform, ReserveDone, shared
<1>3. \A b \in Actors : Where(b)'
  BY DEF IInv, TypeOK, Where, ReserveDone, Goto, Set
<1> QED
  BY <1>1, <1>2, <1>3 DEF IInv

LEMMA FreeStep == ASSUME IInv, NEW a \in Actors, NEW p \in held[a], memory_physical_free(a, p)
                  PROVE  IInv'
<1>1. p = <<p[1], p[2]>> /\ p[1] \in Cells /\ p[2] \in Bits
  BY DEF IInv, TypeOK
<1>2. allocation_table' \in [Cells -> SUBSET Bits] /\ HighBitsUniform'
  <2>1. CASE p[1] < TableLength /\ Marked(p)
    BY <1>1, <2>1, MarkKeeps DEF IInv, memory_physical_free
  <2>2. CASE ~(p[1] < TableLength /\ Marked(p))
    BY <2>2 DEF IInv, TypeOK, HighBitsUniform, memory_physical_free
  <2> QED
    BY <2>1, <2>2
<1>3. used_physical_pages' \in 0 .. (CountModulus - 1)
  BY CountKeeps DEF IInv, TypeOK, memory_physical_free
<1>4. TypeOK'
  BY <1>2, <1>3 DEF IInv, TypeOK, memory_physical_free, locals
<1>5. \A b \in Actors : Where(b)'
  BY DEF IInv, Where, memory_physical_free, locals
<1> QED
  BY <1>2, <1>4, <1>5 DEF IInv

LEMMA AllocateStep == ASSUME IInv, NEW a \in Actors, memory_physical_allocate(a) PROVE IInv'
<1>1. TypeOK'
  BY Sizes DEF IInv, TypeOK, memory_physical_allocate, Acquire, Goto, Set, shared
<1>2. HighBitsUniform'
  BY DEF IInv, HighBitsUniform, memory_physical_allocate, shared
<1>3. \A b \in Actors : Where(b)'
  BY DEF IInv, TypeOK, Where, memory_physical_allocate, Goto, Set
<1> QED
  BY <1>1, <1>2, <1>3 DEF IInv

\* The next word of a search is a word of the table.
LEMMA NextWordInTable == ASSUME NEW s \in Nat PROVE NextWord(s) \in Words
BY Sizes DEF NextWord, Words

LEMMA ScanWordStep == ASSUME IInv, NEW a \in Actors, ScanWord(a) PROVE IInv'
<1>0. NextWord(spot[a]) \in Cells
  BY NextWordInTable, Sizes DEF IInv, TypeOK
<1>1. TypeOK'
  BY <1>0, Sizes DEF IInv, TypeOK, ScanWord, Set, shared
<1>2. HighBitsUniform'
  BY DEF IInv, HighBitsUniform, ScanWord, shared
<1>3. \A b \in Actors : Where(b)'
  BY <1>0 DEF IInv, TypeOK, Where, ScanWord, Set
<1> QED
  BY <1>1, <1>2, <1>3 DEF IInv

LEMMA TakePageStep == ASSUME IInv, NEW a \in Actors, TakePage(a) PROVE IInv'
<1>1. spot[a] \in Cells
  BY DEF IInv, Where, TakePage
<1>2. PICK b \in Bits : /\ Mark(<<spot[a], b>>)
                        /\ held' = [held EXCEPT ![a] = @ \cup {<<spot[a], b>>}]
  BY DEF TakePage
<1>3. allocation_table' \in [Cells -> SUBSET Bits] /\ HighBitsUniform'
  BY <1>1, <1>2, MarkKeeps DEF IInv
<1>4. used_physical_pages' \in 0 .. (CountModulus - 1)
  BY CountKeeps DEF IInv, TakePage
<1>5. held' \in [Actors -> SUBSET (Cells \X Bits)]
  BY <1>1, <1>2 DEF IInv, TypeOK
<1>6. allocation_index' \in 0 .. (TableLength + OverrunWords)
  BY <1>1, PhysicalMemoryAssumption DEF TakePage, Cells
<1>7. TypeOK'
  BY <1>3, <1>4, <1>5, <1>6 DEF IInv, TypeOK, TakePage, Release, Goto, Set
<1>8. \A c \in Actors : Where(c)'
  BY DEF IInv, TypeOK, Where, TakePage, Goto, Set
<1> QED
  BY <1>3, <1>7, <1>8 DEF IInv

LEMMA ConsecutiveStep ==
    ASSUME IInv, NEW a \in Actors, NEW n \in ConsecutiveArgs,
           memory_physical_allocate_consecutive(a, n)
    PROVE  IInv'
<1>1. n \in Nat /\ n \div WordBits \in Nat
  BY PhysicalMemoryAssumption, Sizes
<1>2. TypeOK'
  BY <1>1, Sizes
     DEF IInv, TypeOK, memory_physical_allocate_consecutive, Acquire, Goto, Set, shared
<1>3. HighBitsUniform'
  BY DEF IInv, HighBitsUniform, memory_physical_allocate_consecutive, shared
<1>4. \A b \in Actors : Where(b)'
  BY Sizes DEF IInv, TypeOK, Where, memory_physical_allocate_consecutive, Goto, Set
<1> QED
  BY <1>2, <1>3, <1>4 DEF IInv

LEMMA SearchWordStep == ASSUME IInv, NEW a \in Actors, SearchWord(a) PROVE IInv'
<1>0. NextWord(spot[a]) \in Cells /\ NextWord(spot[a]) \in Nat
  BY NextWordInTable, Sizes DEF IInv, TypeOK
<1>1. TypeOK'
  BY <1>0 DEF IInv, TypeOK, SearchWord, Set, shared
<1>2. HighBitsUniform'
  BY DEF IInv, HighBitsUniform, SearchWord, shared
<1>3. \A b \in Actors : Where(b)'
  <2>1. Where(a)'
    <3>1. CASE allocation_table[spot[a]] = {} /\ spot[a] + 1 < TableLength
      BY <1>0, <3>1, Sizes DEF IInv, TypeOK, Where, SearchWord, Set, NextWord
    <3>2. CASE ~(allocation_table[spot[a]] = {} /\ spot[a] + 1 < TableLength)
      BY <1>0, <3>2, Sizes DEF IInv, TypeOK, Where, SearchWord, Set
    <3> QED
      BY <3>1, <3>2
  <2>2. ASSUME NEW b \in Actors, b # a PROVE Where(b)'
    BY <2>2 DEF IInv, TypeOK, Where, SearchWord, Set
  <2> QED
    BY <2>1, <2>2
<1> QED
  BY <1>1, <1>2, <1>3 DEF IInv

LEMMA TakeChunksStep == ASSUME IInv, NEW a \in Actors, TakeChunks(a) PROVE IInv'
<1> DEFINE start == spot[a] - consecutive[a]
           taken == start .. (start + limit[a] - 1)
<1>1. spot[a] \in Cells /\ spot[a] \in Nat /\ start \in Nat /\ limit[a] \in Nat
  BY Sizes DEF IInv, TypeOK, Where, TakeChunks
<1>2. start + limit[a] <= TableLength + OverrunWords
  BY <1>1, PhysicalMemoryAssumption DEF IInv, TypeOK, Where, TakeChunks, Found, Cells
<1>3. allocation_table' = [w \in Cells |-> IF w \in taken THEN Bits ELSE allocation_table[w]]
  BY DEF TakeChunks
<1>4. held' \in [Actors -> SUBSET (Cells \X Bits)]
  BY DEF IInv, TypeOK, TakeChunks
<1>5. spot' = Set(spot, a, start)
  BY DEF TakeChunks
<1> HIDE DEF start, taken
<1>6. allocation_table' \in [Cells -> SUBSET Bits]
  BY <1>3 DEF IInv, TypeOK
<1>7. TypeOK'
  BY <1>1, <1>4, <1>5, <1>6 DEF IInv, TypeOK, TakeChunks, Release, Goto, Set
<1>8. HighBitsUniform'
  <2> SUFFICES ASSUME NEW w \in Words
               PROVE  LET high == allocation_table'[w] \cap High IN high = {} \/ high = High
    BY DEF HighBitsUniform, High
  <2>1. allocation_table'[w] = Bits \/ allocation_table'[w] = allocation_table[w]
    BY <1>3, Sizes
  <2> QED
    BY <2>1, Sizes DEF IInv, HighBitsUniform, High
<1>9. \A b \in Actors : Where(b)'
  <2>1. Where(a)'
    BY <1>1, <1>2, <1>5 DEF IInv, TypeOK, Where, TakeChunks, Goto, Set
  <2>2. ASSUME NEW b \in Actors, b # a PROVE Where(b)'
    BY <2>2, <1>5 DEF IInv, TypeOK, Where, TakeChunks, Goto, Set
  <2> QED
    BY <2>1, <2>2
<1> QED
  BY <1>7, <1>8, <1>9 DEF IInv

LEMMA PublishStep == ASSUME IInv, NEW a \in Actors, PublishIndex(a) PROVE IInv'
<1>1. TypeOK'
  BY DEF IInv, TypeOK, Where, PublishIndex, Goto, Set
<1>2. HighBitsUniform'
  BY DEF IInv, HighBitsUniform, PublishIndex
<1>3. \A b \in Actors : Where(b)'
  BY DEF IInv, TypeOK, Where, PublishIndex, Goto, Set
<1> QED
  BY <1>1, <1>2, <1>3 DEF IInv

LEMMA AllocatedStep == ASSUME IInv, NEW a \in Actors, NEW p \in Pages,
                              memory_physical_allocated(a, p)
                       PROVE  IInv'
<1>1. answer' \in [said : {0, 1}, was : {0, 1}]
  BY DEF memory_physical_allocated, AllocatedResult
<1>2. TypeOK'
  BY <1>1 DEF IInv, TypeOK, memory_physical_allocated, locals, shared
<1> QED
  BY <1>2 DEF IInv, HighBitsUniform, Where, memory_physical_allocated, locals, shared

\* Every step of every operation keeps the invariant.
LEMMA StepIInv == IInv /\ [Next]_vars => IInv'
<1> SUFFICES ASSUME IInv, [Next]_vars PROVE IInv'
  OBVIOUS
<1>1. ASSUME NEW a \in Actors, Call(a) PROVE IInv'
  BY <1>1, ReserveStep, FreeStep, AllocateStep, ConsecutiveStep, AllocatedStep DEF Call
<1>2. ASSUME NEW a \in Actors, Step(a) PROVE IInv'
  BY <1>2, ReservePageStep, ReserveDoneStep, ScanWordStep, TakePageStep, SearchWordStep,
     TakeChunksStep, PublishStep DEF Step
<1>3. CASE UNCHANGED vars
  BY <1>3 DEF vars, shared, locals, IInv, TypeOK, HighBitsUniform, Where
<1> QED
  BY <1>1, <1>2, <1>3 DEF Next

\* memory_physical.c: the inductive invariant holds in every reachable state.
THEOREM Invariance == Spec => []IInv
<1> QED
  BY InitIInv, StepIInv, PTL DEF Spec

\* memory_physical.c: with all operations, any arguments and any interleaving,
\* every variable keeps its type; in particular allocation_index never leaves
\* the table and the words behind it that a chunk may have ended at.
THEOREM TypeCorrect == Spec => []TypeOK
<1>1. IInv => TypeOK
  BY DEF IInv
<1> QED
  BY <1>1, Invariance, PTL

\* memory_physical.c: the bits from 31 up of a word are always equal.
THEOREM HighBitsStayUniform == Spec => []HighBitsUniform
<1>1. IInv => HighBitsUniform
  BY DEF IInv
<1> QED
  BY <1>1, Invariance, PTL
-----------------------------------------------------------------------------
\* The first zero bit of a word of the table is in its low half.
LEMMA FirstZeroIsLow ==
    ASSUME IInv, NEW w \in Words, NEW b \in Bits, b \notin allocation_table[w],
           \A c \in Bits : c < b => c \in allocation_table[w]
    PROVE  b < HalfBits
<1> SUFFICES ASSUME b >= HalfBits PROVE FALSE
  BY Sizes DEF Bits
<1>1. HalfBits - 1 \in High /\ b \in High /\ HalfBits - 1 < b
  BY Sizes DEF High, Bits, WordBits
<1>2. HalfBits - 1 \in allocation_table[w] \cap High
  BY <1>1, Sizes
<1>3. allocation_table[w] \cap High = High
  BY <1>2 DEF IInv, HighBitsUniform, High
<1> QED
  BY <1>1, <1>3
-----------------------------------------------------------------------------
\* Without memory_physical_allocate_consecutive, the search stays in the table
\* and all pages that callers hold are low pages, with a bit of their own.
LowPages == {p \in Pages : p[2] < HalfBits}

OnlySingles == /\ allocation_index \in Words
               /\ \A a \in Actors : /\ pc[a] \in {"idle", "reserve", "scan"}
                                    /\ pc[a] = "scan" => spot[a] \in Words
                                    /\ held[a] \subseteq LowPages

SInv == IInv /\ OnlySingles /\ HeldIsMarked /\ Exclusive

\* The mask of a low page has no low bit but its own.
LEMMA MaskLow == ASSUME NEW b \in Bits, b < HalfBits
                 PROVE  /\ b \in IntMask(b)
                        /\ \A c \in IntMask(b) : c < HalfBits => c = b
<1>1. b % HalfBits = b
  BY Sizes
<1> QED
  BY <1>1, Sizes DEF IntMask, Bits, WordBits

\* Nobody holds a page at first.
LEMMA InitSInv == Init => SInv
<1> SUFFICES ASSUME Init PROVE SInv
  OBVIOUS
<1>1. OnlySingles
  BY Sizes DEF Init, OnlySingles
<1>2. HeldIsMarked /\ Exclusive
  BY DEF Init, HeldIsMarked, Exclusive
<1> QED
  BY <1>1, <1>2, InitIInv DEF SInv

\* One step: what it does to the holders.
LEMMA TakePageSingles == ASSUME SInv, NEW a \in Actors, TakePage(a)
                         PROVE  OnlySingles' /\ HeldIsMarked' /\ Exclusive'
<1>1. spot[a] \in Words /\ spot[a] \in Cells
  BY Sizes DEF SInv, OnlySingles, TakePage
<1>2. PICK b \in Bits :
          /\ b \notin allocation_table[spot[a]]
          /\ \A c \in Bits : c < b => c \in allocation_table[spot[a]]
          /\ Mark(<<spot[a], b>>)
          /\ held' = [held EXCEPT ![a] = @ \cup {<<spot[a], b>>}]
  BY DEF TakePage
<1>3. b < HalfBits
  BY <1>1, <1>2, FirstZeroIsLow DEF SInv
<1>4. <<spot[a], b>> \in LowPages
  BY <1>1, <1>3 DEF LowPages, Pages
<1>5. OnlySingles'
  BY <1>1, <1>2, <1>4 DEF SInv, IInv, TypeOK, OnlySingles, TakePage, Goto, Set
<1>6. \A w \in Words : allocation_table[w] \subseteq allocation_table'[w]
  BY <1>1, <1>2, Sizes DEF Mark, SInv, IInv, TypeOK
<1>7. b \in allocation_table'[spot[a]]
  BY <1>1, <1>2, <1>3, MaskLow DEF Mark, SInv, IInv, TypeOK
<1>8. HeldIsMarked'
  <2> SUFFICES ASSUME NEW c \in Actors, NEW p \in held'[c] \cap Pages
               PROVE  p[2] \in allocation_table'[p[1]]
    BY DEF HeldIsMarked
  <2>1. CASE p = <<spot[a], b>>
    BY <2>1, <1>7
  <2>2. CASE p # <<spot[a], b>>
    <3>1. p \in held[c] \cap Pages
      BY <1>2, <2>2 DEF SInv, IInv, TypeOK
    <3>2. p[1] \in Words /\ p[2] \in allocation_table[p[1]]
      BY <3>1 DEF SInv, HeldIsMarked, Pages
    <3> QED
      BY <3>2, <1>6
  <2> QED
    BY <2>1, <2>2
<1>9. \A c \in Actors : <<spot[a], b>> \notin held[c]
  BY <1>2, <1>4 DEF SInv, HeldIsMarked, LowPages
<1>10. Exclusive'
  BY <1>2, <1>9 DEF SInv, IInv, TypeOK, Exclusive
<1> QED
  BY <1>5, <1>8, <1>10

LEMMA FreeSingles == ASSUME SInv, NEW a \in Actors, NEW q \in held[a], memory_physical_free(a, q)
                     PROVE  OnlySingles' /\ HeldIsMarked' /\ Exclusive'
<1>1. q \in LowPages /\ q = <<q[1], q[2]>> /\ q[1] \in Words /\ q[1] \in Cells /\ q[2] \in Bits
      /\ q[2] < HalfBits
  BY Sizes DEF SInv, OnlySingles, LowPages, Pages
<1>2. held' = [held EXCEPT ![a] = @ \ {q}]
  BY DEF memory_physical_free
<1>3. OnlySingles'
  BY <1>2 DEF SInv, IInv, TypeOK, OnlySingles, memory_physical_free, locals
<1>4. Exclusive'
  BY <1>2 DEF SInv, IInv, TypeOK, Exclusive
<1>5. HeldIsMarked'
  <2> SUFFICES ASSUME NEW c \in Actors, NEW p \in held'[c] \cap Pages
               PROVE  p[2] \in allocation_table'[p[1]]
    BY DEF HeldIsMarked
  <2>1. p \in held[c] /\ p # q
    BY <1>2 DEF SInv, IInv, TypeOK, Exclusive, OnlySingles, LowPages
  <2>2. /\ p = <<p[1], p[2]>> /\ p[1] \in Cells /\ p[2] < HalfBits
        /\ p[2] \in allocation_table[p[1]]
    BY <2>1, Sizes DEF SInv, HeldIsMarked, OnlySingles, LowPages, Pages
  <2>3. CASE p[1] = q[1]
    <3>1. p[2] # q[2]
      BY <1>1, <2>1, <2>2, <2>3
    <3>2. p[2] \notin IntMask(q[2])
      BY <1>1, <2>2, <3>1, MaskLow
    <3> QED
      BY <1>1, <2>2, <2>3, <3>2 DEF memory_physical_free, Unmark, SInv, IInv, TypeOK
  <2>4. CASE p[1] # q[1]
    BY <1>1, <2>2, <2>4 DEF memory_physical_free, Unmark, SInv, IInv, TypeOK
  <2> QED
    BY <2>3, <2>4
<1> QED
  BY <1>3, <1>4, <1>5

LEMMA ReservePageSingles == ASSUME SInv, NEW a \in Actors, ReservePage(a)
                            PROVE  OnlySingles' /\ HeldIsMarked' /\ Exclusive'
<1>1. \A w \in Words : allocation_table[w] \subseteq allocation_table'[w]
  BY Sizes DEF SInv, IInv, TypeOK, ReservePage, Mark
<1>2. held' = held
  BY DEF ReservePage
<1>3. HeldIsMarked'
  BY <1>1, <1>2 DEF SInv, HeldIsMarked, Pages
<1>4. OnlySingles'
  BY <1>2 DEF SInv, IInv, TypeOK, OnlySingles, ReservePage, Set
<1> QED
  BY <1>2, <1>3, <1>4 DEF SInv, Exclusive

\* The steps that leave the table and the holders alone.
LEMMA OtherSingles ==
    ASSUME SInv, NEW a \in Actors,
           \/ \E r \in ReserveArgs : memory_physical_reserve(a, r)
           \/ ReserveDone(a) \/ memory_physical_allocate(a) \/ ScanWord(a)
           \/ \E p \in Pages : memory_physical_allocated(a, p)
           \/ UNCHANGED vars
    PROVE  OnlySingles' /\ HeldIsMarked' /\ Exclusive'
<1>1. UNCHANGED <<held, allocation_table, allocation_index>>
  BY DEF memory_physical_reserve, ReserveDone, memory_physical_allocate, ScanWord,
         memory_physical_allocated, vars, shared
<1>2. NextWord(spot[a]) \in Words
  BY NextWordInTable DEF SInv, IInv, TypeOK
<1>3. OnlySingles'
  BY <1>1, <1>2 DEF SInv, IInv, TypeOK, OnlySingles, memory_physical_reserve, ReserveDone,
         memory_physical_allocate, ScanWord, memory_physical_allocated, vars, shared, locals,
         Goto, Set
<1> QED
  BY <1>1, <1>3 DEF SInv, HeldIsMarked, Exclusive

\* Chunks are not searched when nobody asks for them.
LEMMA NoChunks == ASSUME SInv, NEW a \in Actors
                  PROVE  ~SearchWord(a) /\ ~TakeChunks(a) /\ ~PublishIndex(a)
BY DEF SInv, OnlySingles, SearchWord, TakeChunks, PublishIndex

\* Every step of the other operations keeps their invariant.
LEMMA StepSInv == ASSUME "consecutive" \notin Ops PROVE SInv /\ [Next]_vars => SInv'
<1> SUFFICES ASSUME SInv, [Next]_vars PROVE SInv'
  OBVIOUS
<1>1. IInv'
  BY StepIInv DEF SInv
<1>2. ASSUME NEW a \in Actors, Call(a) PROVE OnlySingles' /\ HeldIsMarked' /\ Exclusive'
  BY <1>2, FreeSingles, OtherSingles DEF Call
<1>3. ASSUME NEW a \in Actors, Step(a) PROVE OnlySingles' /\ HeldIsMarked' /\ Exclusive'
  BY <1>3, TakePageSingles, ReservePageSingles, OtherSingles, NoChunks DEF Step
<1>4. ASSUME UNCHANGED vars PROVE OnlySingles' /\ HeldIsMarked' /\ Exclusive'
  BY <1>4 DEF vars, shared, locals, SInv, OnlySingles, HeldIsMarked, Exclusive
<1>5. OnlySingles' /\ HeldIsMarked' /\ Exclusive'
  BY <1>2, <1>3, <1>4 DEF Next
<1> QED
  BY <1>1, <1>5 DEF SInv

\* memory_physical.c, as the kernel uses it (memory_physical_allocate, free and
\* reserve): no page is ever given to two callers.
THEOREM SinglesExclusive == ASSUME "consecutive" \notin Ops PROVE Spec => []Exclusive
<1>1. SInv /\ [Next]_vars => SInv'
  BY StepSInv
<1>2. SInv => Exclusive
  BY DEF SInv
<1> QED
  BY <1>1, <1>2, InitSInv, PTL DEF Spec

\* The same callers: the bit of a page somebody holds is set.
THEOREM SinglesMarked == ASSUME "consecutive" \notin Ops PROVE Spec => []HeldIsMarked
<1>1. SInv /\ [Next]_vars => SInv'
  BY StepSInv
<1>2. SInv => HeldIsMarked
  BY DEF SInv
<1> QED
  BY <1>1, <1>2, InitSInv, PTL DEF Spec
-----------------------------------------------------------------------------
\* Reserved pages.  Whoever is inside a call has the lock; a low page that the
\* reserve loop accepts is marked, or the loop has yet to come to it.
Locked == \A a \in Actors : pc[a] # "idle" => holder = a

Ahead(p) == \E a \in Actors : pc[a] = "reserve" /\ spot[a] <= Index(p) /\ Index(p) < limit[a]

ReservedMarked == \A p \in reserved \cap Reservable \cap LowPages :
                      p[2] \in allocation_table[p[1]] \/ Ahead(p)

RInv == SInv /\ Locked /\ ReservedMarked /\ ReservableNeverHeld

\* Index and PageAt are inverse.
LEMMA IndexFacts == ASSUME NEW p \in Pages
                    PROVE  Index(p) \in Nat /\ PageAt(Index(p)) = p
<1>1. PICK w \in Words, b \in Bits : p = <<w, b>>
  BY DEF Pages
<1>2. w \in Nat /\ b \in 0 .. (WordBits - 1) /\ WordBits \in Nat \ {0}
  BY Sizes DEF Bits, Words
<1>3. w * WordBits + b \in Nat
  BY <1>2
<1>4. (w * WordBits + b) \div WordBits = w /\ (w * WordBits + b) % WordBits = b
  BY <1>2
<1> QED
  BY <1>1, <1>3, <1>4 DEF Index, PageAt

\* The loop of memory_physical_reserve covers every page of its range.
LEMMA RangeCovered ==
    ASSUME NEW r \in ReserveArgs, NEW p \in RangeOf(r)
    PROVE  StartIndex(r) <= Index(p) /\ Index(p) < StartIndex(r) + PageCount(r)
<1> DEFINE i == Index(p)
           q == r.address \div PageSize
           m == r.address % PageSize
           y == r.bytes + m - 1
<1>1. r.address \in Nat /\ r.bytes \in Nat /\ r.address + r.bytes <= AddressModulus
      /\ PageSize \in Nat \ {0} /\ AddressModulus \in Nat \ {0}
  BY PhysicalMemoryAssumption
<1>2. i \in Nat /\ (i + 1) * PageSize > r.address /\ i * PageSize < r.address + r.bytes
  BY IndexFacts DEF RangeOf
<1>3. q \in Nat /\ m \in Nat /\ m <= r.address /\ r.address = q * PageSize + m
  BY <1>1
<1> HIDE DEF i, q, m
<1>4. q * PageSize < (i + 1) * PageSize
  BY <1>1, <1>2, <1>3
<1>5. q <= i
  BY <1>1, <1>2, <1>3, <1>4
<1>6. (i - q) * PageSize <= y
  BY <1>1, <1>2, <1>3
<1>7. 0 <= y /\ y < AddressModulus
  <2>1. 0 <= (i - q) * PageSize
    BY <1>1, <1>2, <1>3, <1>5
  <2>2. (i - q) * PageSize \in Int
    BY <1>1, <1>2, <1>3
  <2> QED
    BY <1>1, <1>3, <1>6, <2>1, <2>2
<1>8. y % AddressModulus = y
  BY <1>1, <1>3, <1>7
<1>9. i - q <= y \div PageSize
  BY <1>1, <1>2, <1>3, <1>6
<1>10. y \div PageSize \in Nat
  BY <1>1, <1>3, <1>7
<1> QED
  BY <1>2, <1>3, <1>5, <1>8, <1>9, <1>10 DEF StartIndex, PageCount, i, q, m

\* A low page is marked exactly if its own bit is set.
LEMMA MarkedLow == ASSUME IInv, NEW w \in Words, NEW b \in Bits, b < HalfBits
                   PROVE  Marked(<<w, b>>) <=> b \in allocation_table[w]
<1>1. b \in IntMask(b) /\ \A c \in IntMask(b) : c < HalfBits => c = b
  BY MaskLow
<1>2. CASE b = HalfBits - 1
  <2>1. IntMask(b) = High
    <3>1. b % HalfBits = b
      BY Sizes
    <3> QED
      BY <1>2, <3>1, Sizes DEF IntMask, High
  <2> QED
    BY <1>1, <2>1 DEF Marked, IInv, HighBitsUniform, High
<1>3. CASE b # HalfBits - 1
  <2>1. IntMask(b) = {b}
    <3>1. b % HalfBits = b
      BY Sizes
    <3> QED
      BY <1>3, <3>1, Sizes DEF IntMask
  <2> QED
    BY <2>1 DEF Marked
<1> QED
  BY <1>2, <1>3

\* Nothing is reserved at first.
LEMMA InitRInv == Init => RInv
<1> SUFFICES ASSUME Init PROVE RInv
  OBVIOUS
<1>1. Locked
  BY DEF Init, Locked
<1>2. ReservedMarked
  BY DEF Init, ReservedMarked
<1>3. ReservableNeverHeld
  BY DEF Init, ReservableNeverHeld
<1> QED
  BY <1>1, <1>2, <1>3, InitSInv DEF RInv

\* What a step must do: keep the invariant, and be a step of PageAllocator or
\* change nothing it knows of.
AbstractStep == [A!Next]_<<held, reserved \cap Reservable>>
Good == Locked' /\ ReservedMarked' /\ ReservableNeverHeld' /\ AbstractStep

\* The lock: nobody is inside when it is free, nobody else when a has it.
LEMMA LockFacts == ASSUME RInv
                   PROVE  /\ holder = NoActor => \A b \in Actors : pc[b] = "idle"
                          /\ \A a, b \in Actors : pc[a] # "idle" /\ a # b => pc[b] = "idle"
BY NoActorAssumption DEF RInv, Locked

LEMMA ReserveGood == ASSUME RInv, NEW a \in Actors, NEW r \in ReserveArgs,
                            memory_physical_reserve(a, r)
                     PROVE  Good
<1>1. \A b \in Actors : pc[b] = "idle"
  BY LockFacts DEF memory_physical_reserve, Acquire
<1>2. /\ UNCHANGED <<held, allocation_table>> /\ holder' = a /\ RangeOf(r) \cap HeldPages = {}
      /\ reserved' = reserved \cup RangeOf(r)
      /\ pc'[a] = "reserve" /\ \A b \in Actors : b # a => pc'[b] = "idle"
      /\ spot'[a] = StartIndex(r) /\ limit'[a] = StartIndex(r) + PageCount(r)
  BY <1>1 DEF memory_physical_reserve, Acquire, shared, Goto, Set, RInv, SInv, IInv, TypeOK
<1>3. Locked'
  BY <1>2 DEF Locked
<1>4. ReservedMarked'
  <2> SUFFICES ASSUME NEW p \in reserved' \cap Reservable \cap LowPages
               PROVE  p[2] \in allocation_table'[p[1]] \/ Ahead(p)'
    BY DEF ReservedMarked, Reservable, LowPages
  <2>1. CASE p \in RangeOf(r)
    <3>1. spot'[a] <= Index(p) /\ Index(p) < limit'[a]
      BY <1>2, <2>1, RangeCovered
    <3> QED
      BY <1>2, <3>1 DEF Ahead
  <2>2. CASE p \in reserved
    BY <1>1, <1>2, <2>2 DEF RInv, ReservedMarked, Ahead
  <2> QED
    BY <1>2, <2>1, <2>2
<1>5. ReservableNeverHeld'
  BY <1>2 DEF RInv, ReservableNeverHeld, HeldPages
<1>6. A!Reserve
  BY <1>2 DEF A!Reserve, A!Taken, RInv, ReservableNeverHeld, HeldPages, Reservable
<1> QED
  BY <1>3, <1>4, <1>5, <1>6 DEF Good, AbstractStep, A!Next

LEMMA ReservePageGood == ASSUME RInv, NEW a \in Actors, ReservePage(a) PROVE Good
<1> DEFINE i == spot[a]
<1>1. /\ UNCHANGED <<held, reserved, pc, holder, limit>> /\ pc[a] = "reserve"
      /\ i \in Nat /\ i < TableLength /\ spot'[a] = i + 1
  BY DEF ReservePage, Set, RInv, SInv, IInv, TypeOK
<1>2. \A w \in Words : allocation_table[w] \subseteq allocation_table'[w]
  BY Sizes DEF RInv, SInv, IInv, TypeOK, ReservePage, Mark
<1>3. ReservedMarked'
  <2> SUFFICES ASSUME NEW p \in reserved \cap Reservable \cap LowPages
               PROVE  p[2] \in allocation_table'[p[1]] \/ Ahead(p)'
    BY <1>1 DEF ReservedMarked, Reservable, LowPages
  <2>0. p \in Pages /\ p = <<p[1], p[2]>> /\ p[1] \in Words /\ p[1] \in Cells
        /\ p[2] \in Bits /\ p[2] < HalfBits /\ Index(p) \in Nat
    BY Sizes, IndexFacts DEF LowPages, Pages
  <2>1. CASE p[2] \in allocation_table[p[1]]
    BY <1>2, <2>0, <2>1
  <2>2. CASE Index(p) = i /\ p[2] \notin allocation_table[p[1]]
    <3>1. PageAt(i) = p
      BY <2>0, <2>2, IndexFacts
    <3>2. ~Marked(p)
      BY <2>0, <2>2, MarkedLow DEF RInv, SInv
    <3>3. Mark(p)
      BY <3>1, <3>2 DEF ReservePage
    <3> QED
      BY <2>0, <3>3, MaskLow DEF Mark, RInv, SInv, IInv, TypeOK
  <2>3. CASE Ahead(p) /\ Index(p) # i
    <3>1. i <= Index(p) /\ Index(p) < limit[a]
      BY <2>3, <1>1, LockFacts DEF Ahead
    <3> QED
      BY <1>1, <2>0, <2>3, <3>1 DEF Ahead
  <2> QED
    BY <2>1, <2>2, <2>3 DEF RInv, ReservedMarked
<1> QED
  BY <1>1, <1>3 DEF Good, AbstractStep, RInv, Locked, ReservableNeverHeld, HeldPages

LEMMA ReserveDoneGood == ASSUME RInv, NEW a \in Actors, ReserveDone(a) PROVE Good
<1>1. /\ UNCHANGED <<held, reserved, allocation_table>> /\ pc[a] = "reserve"
      /\ spot[a] >= limit[a] \/ spot[a] >= TableLength
      /\ spot[a] \in Nat /\ limit[a] \in Nat
      /\ \A b \in Actors : pc'[b] = "idle"
  BY LockFacts DEF ReserveDone, shared, Goto, RInv, SInv, IInv, TypeOK
<1>2. \A p \in reserved \cap Reservable \cap LowPages : p[2] \in allocation_table[p[1]]
  <2> SUFFICES ASSUME NEW p \in reserved \cap Reservable \cap LowPages PROVE ~Ahead(p)
    BY DEF RInv, ReservedMarked
  <2>1. Index(p) \in Nat /\ Index(p) < TableLength /\ TableLength \in Nat
    BY IndexFacts, Sizes DEF Reservable
  <2>2. \A b \in Actors : pc[b] = "reserve" => b = a
    BY <1>1, LockFacts
  <2> QED
    BY <1>1, <2>1, <2>2 DEF Ahead
<1>3. ReservedMarked'
  BY <1>1, <1>2 DEF ReservedMarked, Reservable, LowPages
<1> QED
  BY <1>1, <1>3 DEF Good, AbstractStep, RInv, Locked, ReservableNeverHeld, HeldPages

LEMMA FreeGood == ASSUME RInv, NEW a \in Actors, NEW q \in held[a], memory_physical_free(a, q)
                  PROVE  Good
<1>1. /\ UNCHANGED <<reserved, pc, holder, spot, limit>>
      /\ held' = [held EXCEPT ![a] = @ \ {q}]
  BY DEF memory_physical_free, locals
<1>2. q \in LowPages /\ q = <<q[1], q[2]>> /\ q[1] \in Words /\ q[1] \in Cells /\ q[2] \in Bits
      /\ q[2] < HalfBits
  BY Sizes DEF RInv, SInv, OnlySingles, LowPages, Pages
<1>3. ReservedMarked'
  <2> SUFFICES ASSUME NEW p \in reserved \cap Reservable \cap LowPages
               PROVE  p[2] \in allocation_table'[p[1]] \/ Ahead(p)'
    BY <1>1 DEF ReservedMarked, Reservable, LowPages
  <2>0. p = <<p[1], p[2]>> /\ p[1] \in Words /\ p[1] \in Cells /\ p[2] \in Bits /\ p[2] < HalfBits
    BY Sizes DEF LowPages, Pages
  <2>1. p # q
    BY DEF RInv, ReservableNeverHeld, HeldPages
  <2>2. CASE Ahead(p)
    BY <1>1, <2>2 DEF Ahead
  <2>3. CASE p[2] \in allocation_table[p[1]]
    <3>1. CASE p[1] = q[1]
      <4>1. p[2] # q[2]
        BY <1>2, <2>0, <2>1, <3>1
      <4>2. p[2] \notin IntMask(q[2])
        BY <1>2, <2>0, <4>1, MaskLow
      <4> QED
        BY <1>2, <2>0, <2>3, <3>1, <4>2
           DEF memory_physical_free, Unmark, RInv, SInv, IInv, TypeOK
    <3>2. CASE p[1] # q[1]
      BY <1>2, <2>0, <2>3, <3>2 DEF memory_physical_free, Unmark, RInv, SInv, IInv, TypeOK
    <3> QED
      BY <3>1, <3>2
  <2> QED
    BY <2>2, <2>3 DEF RInv, ReservedMarked
<1>4. \A b \in Actors : held'[b] \subseteq held[b]
  BY <1>1 DEF RInv, SInv, IInv, TypeOK
<1>5. ReservableNeverHeld'
  BY <1>1, <1>4 DEF RInv, ReservableNeverHeld, HeldPages
<1>6. A!Return(a, q)
  BY <1>1 DEF A!Return
<1>7. Locked'
  BY <1>1 DEF RInv, Locked
<1> QED
  BY <1>3, <1>5, <1>6, <1>7 DEF Good, AbstractStep, A!Next

LEMMA TakePageGood == ASSUME RInv, NEW a \in Actors, TakePage(a) PROVE Good
<1>1. spot[a] \in Words /\ spot[a] \in Cells
  BY Sizes DEF RInv, SInv, OnlySingles, TakePage
<1>2. PICK b \in Bits :
          /\ b \notin allocation_table[spot[a]]
          /\ \A c \in Bits : c < b => c \in allocation_table[spot[a]]
          /\ Mark(<<spot[a], b>>)
          /\ held' = [held EXCEPT ![a] = @ \cup {<<spot[a], b>>}]
  BY DEF TakePage
<1> DEFINE q == <<spot[a], b>>
<1>3. q \in LowPages /\ q \in Pages
  BY <1>1, <1>2, FirstZeroIsLow DEF RInv, SInv, LowPages, Pages
<1>4. \A c \in Actors : pc[c] # "reserve"
  BY LockFacts DEF TakePage
<1>5. \A p \in reserved \cap Reservable \cap LowPages : p[2] \in allocation_table[p[1]]
  BY <1>4 DEF RInv, ReservedMarked, Ahead
<1>6. q \notin reserved \cap Reservable
  BY <1>2, <1>3, <1>5
<1>7. \A c \in Actors : q \notin held[c]
  BY <1>2, <1>3 DEF RInv, SInv, HeldIsMarked
<1>8. UNCHANGED reserved /\ \A c \in Actors : pc'[c] = "idle"
  BY LockFacts DEF TakePage, Goto, RInv, SInv, IInv, TypeOK
<1>9. held'[a] = held[a] \cup {q} /\ \A c \in Actors : c # a => held'[c] = held[c]
  BY <1>2 DEF RInv, SInv, IInv, TypeOK
<1>10. held' = [held EXCEPT ![a] = held'[a]]
  BY <1>2, <1>9 DEF RInv, SInv, IInv, TypeOK
<1>11. held'[a] \subseteq Pages
  BY <1>3, <1>9 DEF RInv, SInv, OnlySingles, LowPages
<1> HIDE DEF q
<1>12. ReservableNeverHeld'
  BY <1>6, <1>8, <1>9 DEF RInv, ReservableNeverHeld, HeldPages
<1>13. \A w \in Words : allocation_table[w] \subseteq allocation_table'[w]
  BY <1>1, <1>2, Sizes DEF Mark, RInv, SInv, IInv, TypeOK
<1>14. ReservedMarked'
  BY <1>5, <1>8, <1>13 DEF ReservedMarked, Reservable, LowPages, Pages
<1>15. A!Give(a)
  BY <1>6, <1>7, <1>8, <1>9, <1>10, <1>11 DEF A!Give, A!Taken
<1>16. Locked'
  BY <1>8 DEF Locked
<1> QED
  BY <1>12, <1>14, <1>15, <1>16 DEF Good, AbstractStep, A!Next

\* The steps that leave pages, holders and the reserve loop alone.
LEMMA OtherGood ==
    ASSUME RInv, NEW a \in Actors,
           \/ memory_physical_allocate(a) \/ ScanWord(a)
           \/ \E p \in Pages : memory_physical_allocated(a, p)
    PROVE  Good
<1>1. UNCHANGED <<held, allocation_table, reserved, limit>>
  BY DEF memory_physical_allocate, ScanWord, memory_physical_allocated, shared, locals
<1>2. \A b \in Actors : pc[b] = "reserve" <=> pc'[b] = "reserve"
  BY DEF memory_physical_allocate, ScanWord, memory_physical_allocated, Goto,
         RInv, SInv, IInv, TypeOK
<1>3. \A b \in Actors : pc[b] = "reserve" => spot'[b] = spot[b]
  BY DEF memory_physical_allocate, ScanWord, memory_physical_allocated, locals, Set,
         RInv, SInv, IInv, TypeOK
<1>4. ReservedMarked'
  BY <1>1, <1>2, <1>3 DEF RInv, ReservedMarked, Ahead, Reservable, LowPages
<1>5. Locked'
  BY LockFacts DEF memory_physical_allocate, ScanWord, memory_physical_allocated, Goto, Acquire,
         Locked, RInv, SInv, IInv, TypeOK
<1> QED
  BY <1>1, <1>4, <1>5 DEF Good, AbstractStep, RInv, ReservableNeverHeld, HeldPages

\* Every step keeps the invariant and is allowed by PageAllocator.
LEMMA StepRInv == ASSUME "consecutive" \notin Ops
                  PROVE  RInv /\ [Next]_vars => RInv' /\ AbstractStep
<1> SUFFICES ASSUME RInv, [Next]_vars PROVE RInv' /\ AbstractStep
  OBVIOUS
<1>1. SInv'
  BY StepSInv DEF RInv
<1>2. ASSUME NEW a \in Actors, Call(a) PROVE Good
  BY <1>2, ReserveGood, FreeGood, OtherGood DEF Call
<1>3. ASSUME NEW a \in Actors, Step(a) PROVE Good
  <2>1. ~SearchWord(a) /\ ~TakeChunks(a) /\ ~PublishIndex(a)
    BY NoChunks DEF RInv
  <2> QED
    BY <1>3, <2>1, ReservePageGood, ReserveDoneGood, TakePageGood, OtherGood DEF Step
<1>4. ASSUME UNCHANGED vars PROVE Good
  BY <1>4 DEF vars, shared, locals, Good, AbstractStep, RInv, Locked, ReservedMarked, Ahead,
              ReservableNeverHeld, HeldPages
<1>5. Good
  BY <1>2, <1>3, <1>4 DEF Next
<1> QED
  BY <1>1, <1>5 DEF RInv, Good

\* memory_physical.h: "Reserves a physical address so it can't be allocated
\* using memory_physical_allocate": so it is, for the pages that the loop of
\* memory_physical_reserve accepts, while no chunks are allocated.
THEOREM ReservableStaysFree == ASSUME "consecutive" \notin Ops PROVE Spec => []ReservableNeverHeld
<1>1. RInv /\ [Next]_vars => RInv'
  BY StepRInv
<1>2. RInv => ReservableNeverHeld
  BY DEF RInv
<1> QED
  BY <1>1, <1>2, InitRInv, PTL DEF Spec

\* memory_physical.c: memory_physical_reserve, allocate and free, on the bit
\* table and under the lock, implement the page allocator of memory_physical.h.
THEOREM AllocatorImplementsAbstract ==
    ASSUME "consecutive" \notin Ops PROVE Spec => ImplementsPageAllocator
<1>1. RInv /\ [Next]_vars => RInv' /\ AbstractStep
  BY StepRInv
<1>2. Init => A!Init
  BY DEF Init, A!Init
<1> QED
  BY <1>1, <1>2, InitRInv, PTL DEF Spec, ImplementsPageAllocator, A!Spec, AbstractStep
-----------------------------------------------------------------------------
\* The counter.  It is the number of low bits that are set, as every mask has exactly
\* one of them; while nothing is reserved, these are the bits of the pages in use, and
\* a reserve loop under way is behind its end.
Ones == {p \in LowPages : p[2] \in allocation_table[p[1]]}

CInv == /\ SInv
        /\ used_physical_pages = Cardinality(Ones)
        /\ reserved = {} => Ones = HeldPages
        /\ reserved = {} => \A a \in Actors : pc[a] = "reserve" => spot[a] >= TableLength

\* The counter does not wrap around, and nobody reserves zero bytes.
CountFits  == TableLength * HalfBits < CountModulus
SomeBytes  == \A r \in ReserveArgs : r.bytes > 0

LEMMA LowPagesFinite == IsFiniteSet(LowPages) /\ Cardinality(LowPages) = TableLength * HalfBits
<1> DEFINE L == 0 .. (HalfBits - 1)
<1>1. /\ TableLength \in Nat \ {0} /\ HalfBits \in Nat \ {0}
      /\ \A b : b \in Bits /\ b < HalfBits <=> b \in L
  BY Sizes DEF Bits, WordBits
<1>2. LowPages = Words \X L
  BY <1>1 DEF LowPages, Pages
<1>3. IsFiniteSet(Words) /\ Cardinality(Words) = TableLength
  BY <1>1, FS_Interval DEF Words
<1>4. IsFiniteSet(L) /\ Cardinality(L) = HalfBits
  BY <1>1, FS_Interval
<1>5. QED
  <2> HIDE DEF L
  <2>1. QED
    BY <1>2, <1>3, <1>4, FS_Product

\* A mask has one low bit.
LEMMA MaskOneLow ==
    ASSUME NEW b \in Bits
    PROVE  /\ b % HalfBits \in IntMask(b) /\ b % HalfBits \in Bits /\ b % HalfBits < HalfBits
           /\ \A c \in IntMask(b) : c < HalfBits => c = b % HalfBits
<1> DEFINE m == b % HalfBits
<1>1. m \in 0 .. (HalfBits - 1)
  BY Sizes
<1>2. IntMask(b) = IF m = HalfBits - 1 THEN High ELSE {m}
  BY DEF IntMask, High
<1> HIDE DEF m
<1>3. m \in IntMask(b) /\ m \in Bits /\ m < HalfBits /\ \A c \in IntMask(b) : c < HalfBits => c = m
  BY <1>1, <1>2, Sizes DEF High, Bits, WordBits
<1>4. QED
  BY <1>3 DEF m

\* Marking a page whose mask is clear sets one low bit.
LEMMA MarkAdds ==
    ASSUME IInv, NEW w \in Words, NEW b \in Bits, ~Marked(<<w, b>>), Mark(<<w, b>>)
    PROVE  <<w, b % HalfBits>> \in LowPages \ Ones /\ Ones' = Ones \cup {<<w, b % HalfBits>>}
<1> DEFINE m == b % HalfBits
<1>1. /\ m \in IntMask(b) /\ m \in Bits /\ m < HalfBits
      /\ \A c \in IntMask(b) : c < HalfBits => c = m
  BY MaskOneLow
<1>2. m \notin allocation_table[w]
  BY <1>1 DEF Marked
<1>3. w \in Cells /\ allocation_table \in [Cells -> SUBSET Bits]
  BY Sizes DEF IInv, TypeOK
<1>4. /\ allocation_table'[w] = allocation_table[w] \cup IntMask(b)
      /\ \A v \in Words : v # w => allocation_table'[v] = allocation_table[v]
  BY <1>3, Sizes DEF Mark
<1> HIDE DEF m
<1>5. <<w, m>> \in LowPages \ Ones
  BY <1>1, <1>2 DEF LowPages, Pages, Ones
<1>6. ASSUME NEW p \in LowPages
      PROVE  p \in Ones' <=> p \in Ones \cup {<<w, m>>}
  <2>1. p = <<p[1], p[2]>> /\ p[1] \in Words /\ p[2] < HalfBits
    BY DEF LowPages, Pages
  <2>2. CASE p[1] = w
    BY <1>1, <1>4, <2>1, <2>2 DEF Ones, LowPages
  <2>3. CASE p[1] # w
    BY <1>4, <2>1, <2>3 DEF Ones, LowPages
  <2>4. QED
    BY <2>2, <2>3
<1>7. Ones' \subseteq LowPages /\ Ones \subseteq LowPages
  BY DEF Ones, LowPages
<1>8. Ones' = Ones \cup {<<w, m>>}
  BY <1>5, <1>6, <1>7
<1>9. QED
  BY <1>5, <1>8 DEF m

\* Counting up and down.
LEMMA CountUp ==
    ASSUME CountFits, CInv, NEW p \in LowPages \ Ones, Ones' = Ones \cup {p}, Count(1)
    PROVE  used_physical_pages' = Cardinality(Ones')
<1> DEFINE n == Cardinality(Ones)
<1>1. IsFiniteSet(Ones) /\ n \in Nat
  <2>1. Ones \in SUBSET LowPages
    BY DEF Ones
  <2>2. QED
    BY <2>1, LowPagesFinite, FS_Subset, FS_CardinalityType
<1>2. Cardinality(Ones \cup {p}) = n + 1
  BY <1>1, FS_AddElement
<1>3. n + 1 < CountModulus
  <2>1. Ones \cup {p} \in SUBSET LowPages
    BY DEF Ones
  <2>2. Cardinality(Ones \cup {p}) <= TableLength * HalfBits
    BY <2>1, LowPagesFinite, FS_Subset
  <2>3. TableLength * HalfBits \in Nat /\ CountModulus \in Nat
    BY Sizes, PhysicalMemoryAssumption
  <2>4. QED
    BY <1>1, <1>2, <2>2, <2>3 DEF CountFits
<1>4. used_physical_pages' = (n + 1) % CountModulus
  BY DEF CInv, Count
<1> HIDE DEF n
<1>5. (n + 1) % CountModulus = n + 1
  BY <1>1, <1>3, PhysicalMemoryAssumption
<1>6. QED
  BY <1>2, <1>4, <1>5

LEMMA CountDown ==
    ASSUME CountFits, CInv, NEW p \in Ones, Ones' = Ones \ {p}, Count(-1)
    PROVE  used_physical_pages' = Cardinality(Ones')
<1> DEFINE n == Cardinality(Ones)
<1>0. Ones \in SUBSET LowPages
  BY DEF Ones
<1>1. IsFiniteSet(Ones) /\ n \in Nat
  BY <1>0, LowPagesFinite, FS_Subset, FS_CardinalityType
<1>2. Cardinality(Ones \ {p}) = n - 1 /\ IsFiniteSet(Ones \ {p})
  BY <1>1, FS_RemoveElement
<1>3. n - 1 \in Nat
  BY <1>2, FS_CardinalityType
<1>4. n - 1 < CountModulus
  <2>1. n <= TableLength * HalfBits
    BY <1>0, LowPagesFinite, FS_Subset
  <2>2. TableLength * HalfBits \in Nat /\ CountModulus \in Nat
    BY Sizes, PhysicalMemoryAssumption
  <2>3. QED
    BY <1>1, <2>1, <2>2 DEF CountFits
<1>5. used_physical_pages' = (n + (-1)) % CountModulus
  BY DEF CInv, Count
<1> HIDE DEF n
<1>6. n + (-1) = n - 1 /\ (n - 1) % CountModulus = n - 1
  BY <1>1, <1>3, <1>4, PhysicalMemoryAssumption
<1>7. QED
  BY <1>2, <1>5, <1>6

\* What a step must do for the counter.
Counted == /\ used_physical_pages' = Cardinality(Ones')
           /\ reserved' = {} => Ones' = HeldPages'
           /\ reserved' = {} => \A a \in Actors : pc'[a] = "reserve" => spot'[a] >= TableLength

LEMMA InitCInv == Init => CInv
<1> SUFFICES ASSUME Init PROVE CInv
  OBVIOUS
<1>1. Ones = {} /\ HeldPages = {}
  BY DEF Init, Ones, HeldPages, LowPages, Pages
<1>2. QED
  BY <1>1, InitSInv, FS_EmptySet DEF Init, CInv

LEMMA ReservePageCounted ==
    ASSUME CountFits, CInv, NEW a \in Actors, ReservePage(a) PROVE Counted
<1> DEFINE i == spot[a]
           w == i \div WordBits
           b == i % WordBits
<1>1. /\ UNCHANGED <<held, reserved>> /\ pc[a] = "reserve" /\ i \in Nat /\ i < TableLength
  BY DEF ReservePage, CInv, SInv, IInv, TypeOK
<1>2. reserved' # {}
  BY <1>1, Sizes DEF CInv
<1>3. PageAt(i) = <<w, b>> /\ w \in Words /\ b \in Bits
  BY <1>1, PageInTable
<1> HIDE DEF w, b
<1>4. CASE Marked(<<w, b>>)
  <2>1. UNCHANGED <<allocation_table, used_physical_pages>>
    BY <1>3, <1>4 DEF ReservePage
  <2>2. Ones' = Ones
    BY <2>1 DEF Ones, LowPages
  <2>3. QED
    BY <1>2, <2>1, <2>2 DEF Counted, CInv
<1>5. CASE ~Marked(<<w, b>>)
  <2>1. Mark(<<w, b>>) /\ Count(1)
    BY <1>3, <1>5 DEF ReservePage
  <2>2. <<w, b % HalfBits>> \in LowPages \ Ones /\ Ones' = Ones \cup {<<w, b % HalfBits>>}
    BY <1>3, <1>5, <2>1, MarkAdds DEF CInv, SInv
  <2>3. QED
    BY <1>2, <2>1, <2>2, CountUp DEF Counted
<1>6. QED
  BY <1>4, <1>5

LEMMA TakePageCounted ==
    ASSUME CountFits, CInv, NEW a \in Actors, TakePage(a) PROVE Counted
<1>1. spot[a] \in Words /\ pc[a] = "scan"
  BY DEF CInv, SInv, OnlySingles, TakePage
<1>2. PICK b \in Bits :
          /\ b \notin allocation_table[spot[a]]
          /\ \A c \in Bits : c < b => c \in allocation_table[spot[a]]
          /\ Mark(<<spot[a], b>>)
          /\ held' = [held EXCEPT ![a] = @ \cup {<<spot[a], b>>}]
  BY DEF TakePage
<1>3. b < HalfBits
  BY <1>1, <1>2, FirstZeroIsLow DEF CInv, SInv
<1>4. b % HalfBits = b
  BY <1>3, Sizes
<1>5. ~Marked(<<spot[a], b>>)
  BY <1>1, <1>2, <1>3, MarkedLow DEF CInv, SInv
<1>6. <<spot[a], b>> \in LowPages \ Ones /\ Ones' = Ones \cup {<<spot[a], b>>}
  BY <1>1, <1>2, <1>4, <1>5, MarkAdds DEF CInv, SInv
<1>7. Count(1) /\ reserved' = reserved
  BY DEF TakePage
<1>8. used_physical_pages' = Cardinality(Ones')
  BY <1>6, <1>7, CountUp
<1>9. HeldPages' = HeldPages \cup {<<spot[a], b>>}
  BY <1>2 DEF HeldPages, CInv, SInv, IInv, TypeOK
<1>10. \A c \in Actors : pc'[c] = "reserve" => pc[c] = "reserve" /\ spot'[c] = spot[c]
  BY DEF TakePage, Goto, Set, CInv, SInv, IInv, TypeOK
<1>11. QED
  BY <1>6, <1>7, <1>8, <1>9, <1>10 DEF Counted, CInv

LEMMA FreeCounted ==
    ASSUME CountFits, CInv, NEW a \in Actors, NEW q \in held[a], memory_physical_free(a, q)
    PROVE  Counted
<1>1. /\ UNCHANGED <<reserved, pc, spot>> /\ held' = [held EXCEPT ![a] = @ \ {q}]
  BY DEF memory_physical_free, locals
<1>2. q \in LowPages /\ q = <<q[1], q[2]>> /\ q[1] \in Words /\ q[1] \in Cells /\ q[2] \in Bits
      /\ q[2] < HalfBits /\ q \in Pages
  BY Sizes DEF CInv, SInv, OnlySingles, LowPages, Pages
<1>3. q[2] \in allocation_table[q[1]] /\ q \in Ones
  BY <1>2 DEF CInv, SInv, HeldIsMarked, Ones
<1>4. Marked(q) /\ q[1] < TableLength
  <2>1. Marked(<<q[1], q[2]>>)
    BY <1>2, <1>3, MarkedLow DEF CInv, SInv
  <2>2. q[1] < TableLength
    BY <1>2, Sizes DEF Words
  <2>3. QED
    BY <1>2, <2>1, <2>2 DEF Marked
<1>5. Unmark(q) /\ Count(-1)
  BY <1>4 DEF memory_physical_free
<1>6. /\ allocation_table'[q[1]] = allocation_table[q[1]] \ IntMask(q[2])
      /\ \A v \in Words : v # q[1] => allocation_table'[v] = allocation_table[v]
  BY <1>2, <1>5, Sizes DEF Unmark, CInv, SInv, IInv, TypeOK
<1>7. q[2] \in IntMask(q[2]) /\ \A c \in IntMask(q[2]) : c < HalfBits => c = q[2]
  BY <1>2, MaskLow
<1>8. Ones' = Ones \ {q}
  <2>1. ASSUME NEW p \in LowPages
        PROVE  p \in Ones' <=> p \in Ones \ {q}
    <3>1. p = <<p[1], p[2]>> /\ p[1] \in Words /\ p[2] < HalfBits
      BY DEF LowPages, Pages
    <3>2. CASE p[1] = q[1]
      <4>1. p[2] \in allocation_table'[p[1]] <=> p[2] \in allocation_table[p[1]] /\ p[2] # q[2]
        BY <1>6, <1>7, <3>1, <3>2
      <4>2. p = q <=> p[2] = q[2]
        BY <1>2, <3>1, <3>2
      <4>3. QED
        BY <4>1, <4>2 DEF Ones, LowPages
    <3>3. CASE p[1] # q[1]
      BY <1>6, <3>1, <3>3 DEF Ones, LowPages
    <3>4. QED
      BY <3>2, <3>3
  <2>2. Ones' \subseteq LowPages /\ Ones \subseteq LowPages
    BY DEF Ones, LowPages
  <2>3. QED
    BY <2>1, <2>2
<1>9. used_physical_pages' = Cardinality(Ones')
  BY <1>3, <1>5, <1>8, CountDown
<1>10. \A c \in Actors : c # a => q \notin held[c]
  BY <1>2 DEF CInv, SInv, Exclusive
<1>11. HeldPages' = HeldPages \ {q}
  BY <1>1, <1>10 DEF HeldPages, CInv, SInv, IInv, TypeOK
<1>12. QED
  BY <1>1, <1>8, <1>9, <1>11 DEF Counted, CInv

\* Whoever reserves memory that is not there marks nothing.
LEMMA ReserveCounted ==
    ASSUME SomeBytes, CInv, NEW a \in Actors, NEW r \in ReserveArgs, memory_physical_reserve(a, r)
    PROVE  Counted
<1>1. /\ UNCHANGED <<allocation_table, held, used_physical_pages>>
      /\ reserved' = reserved \cup RangeOf(r)
      /\ pc' = [pc EXCEPT ![a] = "reserve"] /\ spot' = [spot EXCEPT ![a] = StartIndex(r)]
  BY DEF memory_physical_reserve, shared, Goto, Set
<1>2. Ones' = Ones /\ HeldPages' = HeldPages
  BY <1>1 DEF Ones, LowPages, HeldPages
<1>3. RangeOf(r) = {} => StartIndex(r) >= TableLength
  <2> DEFINE q == r.address \div PageSize
             m == r.address % PageSize
  <2>1. /\ r.address \in Nat /\ r.bytes \in Nat /\ r.bytes > 0 /\ PageSize \in Nat \ {0}
    BY PhysicalMemoryAssumption DEF SomeBytes
  <2>2. q \in Nat /\ m \in 0 .. (PageSize - 1) /\ r.address = q * PageSize + m
    <3>1. \A n \in Nat, k \in Nat \ {0} : n \div k \in Nat /\ n % k \in 0 .. (k - 1)
      OBVIOUS
    <3>2. \A n \in Nat, k \in Nat \ {0} : n = k * (n \div k) + (n % k)
      OBVIOUS
    <3>3. r.address = PageSize * q + m
      BY <2>1, <3>2
    <3>4. q \in Nat /\ m \in 0 .. (PageSize - 1)
      BY <2>1, <3>1
    <3>5. QED
      <4> HIDE DEF q, m
      <4>1. PageSize * q = q * PageSize
        BY <2>1, <3>4
      <4>2. QED
        BY <3>3, <3>4, <4>1
  <2>3. SUFFICES ASSUME q < TableLength PROVE RangeOf(r) # {}
    BY <2>2, Sizes DEF StartIndex
  <2> HIDE DEF q, m
  <2>4. PageAt(q) \in Pages
    BY <2>2, <2>3, PageInTable DEF Pages
  <2>5. Index(PageAt(q)) = q
    <3>1. q = WordBits * (q \div WordBits) + (q % WordBits)
      BY <2>2, Sizes
    <3>2. (q \div WordBits) \in Int
      BY <2>2, Sizes
    <3>3. PageAt(q)[1] = q \div WordBits /\ PageAt(q)[2] = q % WordBits
      BY DEF PageAt
    <3>4. WordBits * (q \div WordBits) = (q \div WordBits) * WordBits
      BY <3>2, Sizes
    <3>5. QED
      BY <3>1, <3>3, <3>4 DEF Index
  <2>6. (q + 1) * PageSize > r.address /\ q * PageSize < r.address + r.bytes
    <3>1. (q + 1) * PageSize = q * PageSize + PageSize /\ q * PageSize \in Nat
      BY <2>1, <2>2
    <3>2. QED
      BY <2>1, <2>2, <3>1
  <2>7. QED
    BY <2>4, <2>5, <2>6 DEF RangeOf
<1>4. QED
  BY <1>1, <1>2, <1>3 DEF Counted, CInv, SInv, IInv, TypeOK

LEMMA OtherCounted ==
    ASSUME CInv, NEW a \in Actors,
           \/ ReserveDone(a) \/ memory_physical_allocate(a) \/ ScanWord(a)
           \/ \E p \in Pages : memory_physical_allocated(a, p)
    PROVE  Counted
<1>1. UNCHANGED <<allocation_table, held, used_physical_pages, reserved>>
  BY DEF ReserveDone, memory_physical_allocate, ScanWord, memory_physical_allocated, shared
<1>2. Ones' = Ones /\ HeldPages' = HeldPages
  BY <1>1 DEF Ones, LowPages, HeldPages
<1>3. \A c \in Actors : pc'[c] = "reserve" => pc[c] = "reserve" /\ spot'[c] = spot[c]
  BY DEF ReserveDone, memory_physical_allocate, ScanWord, memory_physical_allocated, Goto, Set,
         locals, CInv, SInv, IInv, TypeOK
<1>4. QED
  BY <1>1, <1>2, <1>3 DEF Counted, CInv

LEMMA StepCInv ==
    ASSUME "consecutive" \notin Ops, CountFits, SomeBytes
    PROVE  CInv /\ [Next]_vars => CInv'
<1> SUFFICES ASSUME CInv, [Next]_vars PROVE CInv'
  OBVIOUS
<1>1. SInv'
  BY StepSInv DEF CInv
<1>2. ASSUME NEW a \in Actors, Call(a) PROVE Counted
  BY <1>2, ReserveCounted, FreeCounted, OtherCounted DEF Call
<1>3. ASSUME NEW a \in Actors, Step(a) PROVE Counted
  <2>1. ~SearchWord(a) /\ ~TakeChunks(a) /\ ~PublishIndex(a)
    BY NoChunks DEF CInv
  <2>2. QED
    BY <1>3, <2>1, ReservePageCounted, TakePageCounted, OtherCounted DEF Step
<1>4. ASSUME UNCHANGED vars PROVE Counted
  <2>1. UNCHANGED <<allocation_table, held, used_physical_pages, reserved, pc, spot>>
    BY <1>4 DEF vars, shared, locals
  <2>2. Ones' = Ones /\ HeldPages' = HeldPages
    BY <2>1 DEF Ones, LowPages, HeldPages
  <2>3. QED
    BY <2>1, <2>2 DEF Counted, CInv
<1>5. Counted
  BY <1>2, <1>3, <1>4 DEF Next
<1>6. QED
  BY <1>1, <1>5 DEF CInv, Counted

\* memory_physical_used_pages is the number of pages that callers have and have not
\* freed, for any number of callers, while nothing is reserved and nobody takes chunks;
\* if the counter is wide enough for the pages there are, and nobody reserves zero bytes.
THEOREM SinglesStayCounted ==
    ASSUME "consecutive" \notin Ops, CountFits, SomeBytes
    PROVE  Spec => []SinglesCounted
<1>1. CInv /\ [Next]_vars => CInv'
  BY StepCInv
<1>2. CInv => SinglesCounted
  BY DEF CInv, SinglesCounted
<1>3. QED
  BY <1>1, <1>2, InitCInv, PTL DEF Spec
-----------------------------------------------------------------------------
\* Chunks and single pages together, as long as nobody frees.  A search is behind a run
\* of empty words, which nobody else can change: it has the lock.
Inside == \A a \in Actors : pc[a] \notin {"idle", "publish"} => holder = a

Run(a) == pc[a] = "search" =>
    /\ \A w \in (spot[a] - consecutive[a]) .. (spot[a] - 1) : allocation_table[w] = {}
    /\ limit[a] * WordBits = asked[a]

KInv == IInv /\ Inside /\ HeldIsMarked /\ Exclusive /\ \A a \in Actors : Run(a)

\* Callers ask for whole words.
WholeWords == \A n \in ConsecutiveArgs : n % WordBits = 0

LEMMA TimesOrder ==
    ASSUME NEW m \in Nat \ {0}, NEW x \in Int, NEW y \in Int, x * m < y * m
    PROVE  x < y
<1>1. SUFFICES ASSUME x - y \in Nat PROVE FALSE
  OBVIOUS
<1>2. (x - y) * m \in Nat
  BY <1>1
<1>3. (x - y) * m = x * m - y * m /\ x * m \in Int /\ y * m \in Int
  OBVIOUS
<1>4. QED
  BY <1>2, <1>3

\* Who has the lock is alone.
LEMMA Alone ==
    ASSUME KInv, NEW a \in Actors, holder = NoActor \/ holder = a
    PROVE  \A b \in Actors : b # a => pc[b] \in {"idle", "publish"}
BY NoActorAssumption DEF KInv, Inside

\* The steps that leave the table and the holders alone.
LEMMA QuietStep ==
    ASSUME WholeWords, KInv, NEW a \in Actors,
           \/ \E r \in ReserveArgs : memory_physical_reserve(a, r)
           \/ ReserveDone(a) \/ memory_physical_allocate(a) \/ ScanWord(a)
           \/ \E n \in ConsecutiveArgs : memory_physical_allocate_consecutive(a, n)
           \/ SearchWord(a) \/ PublishIndex(a)
           \/ \E p \in Pages : memory_physical_allocated(a, p)
    PROVE  Inside' /\ HeldIsMarked' /\ Exclusive' /\ \A b \in Actors : Run(b)'
<1>0. TypeOK /\ Where(a)
  BY DEF KInv, IInv
<1>1. UNCHANGED <<held, allocation_table>>
  BY DEF memory_physical_reserve, ReserveDone, memory_physical_allocate, ScanWord,
         memory_physical_allocate_consecutive, SearchWord, PublishIndex,
         memory_physical_allocated, shared
<1>2. HeldIsMarked' /\ Exclusive'
  BY <1>1 DEF KInv, HeldIsMarked, Exclusive
<1>3. \A b \in Actors : b # a => UNCHANGED <<pc[b], spot[b], limit[b], consecutive[b], asked[b]>>
  BY <1>0 DEF TypeOK, memory_physical_reserve, ReserveDone, memory_physical_allocate, ScanWord,
         memory_physical_allocate_consecutive, SearchWord, PublishIndex,
         memory_physical_allocated, locals, Goto, Set
<1>4. \A b \in Actors : b # a => Run(b)'
  BY <1>1, <1>3 DEF KInv, Run
<1>5. Inside'
  <2>1. \/ holder' = holder /\ (pc'[a] = pc[a] \/ pc'[a] = "idle")
        \/ holder = NoActor /\ holder' = a
        \/ holder = a /\ pc'[a] = "idle"
    BY <1>0 DEF TypeOK, memory_physical_reserve, ReserveDone, memory_physical_allocate, ScanWord,
           memory_physical_allocate_consecutive, SearchWord, PublishIndex,
           memory_physical_allocated, locals, Goto, Acquire, Release
  <2>2. CASE holder' = holder /\ (pc'[a] = pc[a] \/ pc'[a] = "idle")
    BY <1>3, <2>2 DEF KInv, Inside
  <2>3. CASE holder = NoActor /\ holder' = a
    BY <1>3, <2>3, Alone DEF Inside
  <2>4. CASE holder = a /\ pc'[a] = "idle"
    BY <1>3, <2>4, Alone DEF Inside
  <2>5. QED
    BY <2>1, <2>2, <2>3, <2>4
<1>6. Run(a)'
  <2>1. CASE \E n \in ConsecutiveArgs : memory_physical_allocate_consecutive(a, n)
    <3>1. PICK n \in ConsecutiveArgs : memory_physical_allocate_consecutive(a, n)
      BY <2>1
    <3>2. n \in Nat /\ WordBits \in Nat \ {0} /\ n % WordBits = 0
      BY Sizes, PhysicalMemoryAssumption DEF WholeWords
    <3>3. n = WordBits * (n \div WordBits) + (n % WordBits) /\ n \div WordBits \in Nat
      BY <3>2
    <3>4. (n \div WordBits) * WordBits = n
      BY <3>2, <3>3
    <3>5. limit'[a] = n \div WordBits /\ asked'[a] = n /\ spot'[a] = allocation_index
          /\ consecutive'[a] = 0
      BY <1>0, <3>1 DEF TypeOK, Where, memory_physical_allocate_consecutive, Set
    <3>6. allocation_index \in Nat
      BY <1>0 DEF TypeOK
    <3>7. \A w \in (spot'[a] - consecutive'[a]) .. (spot'[a] - 1) : FALSE
      BY <3>5, <3>6
    <3>8. QED
      BY <3>4, <3>5, <3>7 DEF Run
  <2>2. CASE SearchWord(a)
    <3>1. /\ pc[a] = "search" /\ UNCHANGED <<pc, limit, asked>>
          /\ spot'[a] = NextWord(spot[a])
          /\ consecutive'[a] = IF allocation_table[spot[a]] = {} /\ spot[a] + 1 < TableLength
                               THEN consecutive[a] + 1 ELSE 0
          /\ spot[a] \in Nat /\ consecutive[a] \in Nat
      BY <1>0, <2>2 DEF TypeOK, SearchWord, Set
    <3>2. /\ \A w \in (spot[a] - consecutive[a]) .. (spot[a] - 1) : allocation_table[w] = {}
          /\ limit[a] * WordBits = asked[a]
      BY <3>1 DEF KInv, Run
    <3>3. CASE allocation_table[spot[a]] = {} /\ spot[a] + 1 < TableLength
      <4>1. spot'[a] = spot[a] + 1 /\ consecutive'[a] = consecutive[a] + 1
        BY <3>1, <3>3, Sizes DEF NextWord
      <4>2. ASSUME NEW w \in (spot'[a] - consecutive'[a]) .. (spot'[a] - 1)
            PROVE  allocation_table[w] = {}
        <5>1. w = spot[a] \/ w \in (spot[a] - consecutive[a]) .. (spot[a] - 1)
          BY <3>1, <4>1
        <5>2. QED
          BY <3>2, <3>3, <5>1
      <4>3. QED
        BY <1>1, <3>1, <3>2, <4>2 DEF Run
    <3>4. CASE ~(allocation_table[spot[a]] = {} /\ spot[a] + 1 < TableLength)
      <4>1. consecutive'[a] = 0 /\ spot'[a] \in Nat
        BY <3>1, <3>4, NextWordInTable, Sizes
      <4>2. \A w \in (spot'[a] - consecutive'[a]) .. (spot'[a] - 1) : FALSE
        BY <4>1
      <4>3. QED
        BY <1>1, <3>1, <3>2, <4>2 DEF Run
    <3>5. QED
      BY <3>3, <3>4
  <2>3. CASE \E p \in Pages : memory_physical_allocated(a, p)
    BY <1>1, <2>3 DEF memory_physical_allocated, locals, KInv, Run
  <2>4. CASE pc'[a] # "search"
    BY <2>4 DEF Run
  <2>5. QED
    BY <1>0, <2>1, <2>2, <2>3, <2>4
       DEF TypeOK, memory_physical_reserve, ReserveDone, memory_physical_allocate, ScanWord,
           PublishIndex, Goto
<1>7. QED
  BY <1>2, <1>4, <1>5, <1>6

LEMMA ReservePageChunks ==
    ASSUME KInv, NEW a \in Actors, ReservePage(a)
    PROVE  Inside' /\ HeldIsMarked' /\ Exclusive' /\ \A b \in Actors : Run(b)'
<1>1. /\ UNCHANGED <<held, pc, holder>> /\ pc[a] = "reserve" /\ holder = a
  BY DEF ReservePage, KInv, Inside
<1>2. \A w \in Words : allocation_table[w] \subseteq allocation_table'[w]
  BY Sizes DEF KInv, IInv, TypeOK, ReservePage, Mark
<1>3. \A b \in Actors : pc'[b] # "search"
  BY <1>1, Alone
<1>4. HeldIsMarked'
  BY <1>1, <1>2 DEF KInv, HeldIsMarked, Pages
<1>5. QED
  BY <1>1, <1>3, <1>4 DEF KInv, Inside, Exclusive, Run

LEMMA TakePageChunks ==
    ASSUME KInv, NEW a \in Actors, TakePage(a)
    PROVE  Inside' /\ HeldIsMarked' /\ Exclusive' /\ \A b \in Actors : Run(b)'
<1>1. spot[a] \in Cells /\ holder = a /\ pc' = [pc EXCEPT ![a] = "idle"]
  BY DEF KInv, IInv, Where, Inside, TakePage, Goto
<1>2. \A b \in Actors : pc'[b] \in {"idle", "publish"}
  BY <1>1, Alone DEF KInv, IInv, TypeOK
<1>3. PICK b \in Bits :
          /\ b \notin allocation_table[spot[a]]
          /\ \A c \in Bits : c < b => c \in allocation_table[spot[a]]
          /\ Mark(<<spot[a], b>>)
          /\ held' = [held EXCEPT ![a] = @ \cup {<<spot[a], b>>}]
  BY DEF TakePage
<1>4. \A w \in Words : allocation_table[w] \subseteq allocation_table'[w]
  BY <1>1, <1>3, Sizes DEF Mark, KInv, IInv, TypeOK
<1>5. spot[a] \in Words => b \in allocation_table'[spot[a]]
  <2>1. SUFFICES ASSUME spot[a] \in Words PROVE b \in allocation_table'[spot[a]]
    OBVIOUS
  <2>2. b < HalfBits
    BY <1>3, <2>1, FirstZeroIsLow DEF KInv
  <2>3. QED
    BY <1>1, <1>3, <2>2, MaskLow DEF Mark, KInv, IInv, TypeOK
<1>6. HeldIsMarked'
  <2> SUFFICES ASSUME NEW c \in Actors, NEW p \in held'[c] \cap Pages
               PROVE  p[2] \in allocation_table'[p[1]]
    BY DEF HeldIsMarked
  <2>1. CASE p = <<spot[a], b>>
    BY <1>5, <2>1 DEF Pages
  <2>2. CASE p # <<spot[a], b>>
    <3>1. p \in held[c] \cap Pages
      BY <1>3, <2>2 DEF KInv, IInv, TypeOK
    <3>2. p[1] \in Words /\ p[2] \in allocation_table[p[1]]
      BY <3>1 DEF KInv, HeldIsMarked, Pages
    <3> QED
      BY <1>4, <3>2
  <2> QED
    BY <2>1, <2>2
<1>7. <<spot[a], b>> \in Pages => \A c \in Actors : <<spot[a], b>> \notin held[c]
  BY <1>3 DEF KInv, HeldIsMarked
<1>8. Exclusive'
  BY <1>3, <1>7 DEF KInv, IInv, TypeOK, Exclusive, Pages
<1>9. QED
  BY <1>2, <1>6, <1>8 DEF Inside, Run

LEMMA TakeChunksChunks ==
    ASSUME KInv, NEW a \in Actors, TakeChunks(a)
    PROVE  Inside' /\ HeldIsMarked' /\ Exclusive' /\ \A b \in Actors : Run(b)'
<1> DEFINE start == spot[a] - consecutive[a]
           taken == start .. (start + limit[a] - 1)
           pages == {p \in Cells \X Bits : Index(p) \in (start * WordBits) ..
                                                        (start * WordBits + asked[a] - 1)}
<1>1. /\ spot[a] \in Nat /\ start \in Nat /\ limit[a] \in Nat /\ consecutive[a] \in Nat
      /\ WordBits \in Nat \ {0}
  BY Sizes DEF KInv, IInv, TypeOK, Where, TakeChunks
<1>2. pc[a] = "search" /\ holder = a /\ pc' = [pc EXCEPT ![a] = "publish"]
  BY DEF KInv, Inside, TakeChunks, Goto
<1>3. \A b \in Actors : pc'[b] \in {"idle", "publish"}
  BY <1>2, Alone DEF KInv, IInv, TypeOK
<1>4. /\ allocation_table' = [w \in Cells |-> IF w \in taken THEN Bits ELSE allocation_table[w]]
      /\ held' = [held EXCEPT ![a] = @ \cup pages]
  BY DEF TakeChunks
<1>5. /\ \A w \in start .. (spot[a] - 1) : allocation_table[w] = {}
      /\ limit[a] * WordBits = asked[a]
  BY <1>2 DEF KInv, Run
<1>6. allocation_table[spot[a]] = {} /\ start + limit[a] - 1 <= spot[a]
  BY <1>1 DEF TakeChunks, Found
<1> HIDE DEF start
<1>7. \A w \in taken : allocation_table[w] = {}
  <2>1. SUFFICES ASSUME NEW w \in taken PROVE allocation_table[w] = {}
    OBVIOUS
  <2>2. w \in Int /\ start <= w /\ w <= start + limit[a] - 1
    BY <1>1
  <2>3. w <= spot[a]
    BY <1>1, <1>6, <2>2
  <2>4. w = spot[a] \/ w \in start .. (spot[a] - 1)
    BY <1>1, <2>2, <2>3
  <2>5. QED
    BY <1>5, <1>6, <2>4
<1>8. ASSUME NEW p \in pages
      PROVE  p[1] \in taken /\ p[1] \in Cells /\ p[2] \in Bits
  <2> DEFINE w == p[1]
             b == p[2]
  <2>1. /\ w \in Cells /\ b \in Bits /\ w * WordBits + b \in (start * WordBits) ..
                                                 (start * WordBits + asked[a] - 1)
    BY DEF Index
  <2> HIDE DEF w, b
  <2>2. w \in Nat /\ b \in Nat /\ b < WordBits
    <3>1. b \in 0 .. (WordBits - 1)
      BY <2>1 DEF Bits
    <3>2. w \in Nat
      BY <2>1, Sizes
    <3>3. QED
      BY <1>1, <3>1, <3>2
  <2>3. /\ w * WordBits \in Nat /\ start * WordBits \in Nat /\ limit[a] * WordBits \in Nat
        /\ (w + 1) * WordBits = w * WordBits + WordBits
        /\ (start + limit[a]) * WordBits = start * WordBits + limit[a] * WordBits
    BY <1>1, <2>2
  <2>4. w * WordBits < (start + limit[a]) * WordBits /\ start * WordBits < (w + 1) * WordBits
    BY <1>1, <1>5, <2>1, <2>2, <2>3
  <2>5. w < start + limit[a] /\ start < w + 1
    BY <1>1, <2>2, <2>4, TimesOrder
  <2>6. QED
    BY <1>1, <2>1, <2>2, <2>5 DEF w, b
<1> HIDE DEF taken, pages
<1>9. \A w \in Words : allocation_table[w] \subseteq allocation_table'[w]
  BY <1>4, Sizes DEF KInv, IInv, TypeOK
<1>10. HeldIsMarked'
  <2> SUFFICES ASSUME NEW c \in Actors, NEW p \in held'[c] \cap Pages
               PROVE  p[2] \in allocation_table'[p[1]]
    BY DEF HeldIsMarked
  <2>1. CASE p \in pages
    BY <1>4, <1>8, <2>1
  <2>2. CASE p \notin pages
    <3>1. p \in held[c] \cap Pages
      BY <1>4, <2>2 DEF KInv, IInv, TypeOK
    <3>2. p[1] \in Words /\ p[2] \in allocation_table[p[1]]
      BY <3>1 DEF KInv, HeldIsMarked, Pages
    <3> QED
      BY <1>9, <3>2
  <2> QED
    BY <2>1, <2>2
<1>11. \A p \in pages \cap Pages : \A c \in Actors : p \notin held[c]
  BY <1>7, <1>8 DEF KInv, HeldIsMarked
<1>12. Exclusive'
  BY <1>4, <1>11 DEF KInv, IInv, TypeOK, Exclusive
<1>13. QED
  BY <1>3, <1>10, <1>12 DEF Inside, Run

LEMMA InitKInv == Init => KInv
BY InitIInv DEF Init, KInv, Inside, HeldIsMarked, Exclusive, Run

LEMMA StepKInv ==
    ASSUME "free" \notin Ops, WholeWords
    PROVE  KInv /\ [Next]_vars => KInv'
<1> SUFFICES ASSUME KInv, [Next]_vars PROVE KInv'
  OBVIOUS
<1> DEFINE Kept == Inside' /\ HeldIsMarked' /\ Exclusive' /\ \A b \in Actors : Run(b)'
<1>1. IInv'
  BY StepIInv DEF KInv
<1>2. ASSUME NEW a \in Actors, Call(a) PROVE Kept
  BY <1>2, QuietStep DEF Call
<1>3. ASSUME NEW a \in Actors, Step(a) PROVE Kept
  BY <1>3, QuietStep, ReservePageChunks, TakePageChunks, TakeChunksChunks DEF Step
<1>4. ASSUME UNCHANGED vars PROVE Kept
  BY <1>4 DEF vars, shared, locals, KInv, Inside, HeldIsMarked, Exclusive, Run
<1>5. Kept
  BY <1>2, <1>3, <1>4 DEF Next
<1>6. QED
  BY <1>1, <1>5 DEF KInv

\* memory_physical.c: with chunks and single pages, no page is given to two callers, as
\* long as nobody frees and chunks are asked for in whole words of the table.
THEOREM ChunksExclusive ==
    ASSUME "free" \notin Ops, WholeWords
    PROVE  Spec => []Exclusive
<1>1. KInv /\ [Next]_vars => KInv'
  BY StepKInv
<1>2. KInv => Exclusive
  BY DEF KInv
<1>3. QED
  BY <1>1, <1>2, InitKInv, PTL DEF Spec

\* Likewise the bit of every page in use is set, those of a chunk's high halves too.
THEOREM ChunksMarked ==
    ASSUME "free" \notin Ops, WholeWords
    PROVE  Spec => []HeldIsMarked
<1>1. KInv /\ [Next]_vars => KInv'
  BY StepKInv
<1>2. KInv => HeldIsMarked
  BY DEF KInv
<1>3. QED
  BY <1>1, <1>2, InitKInv, PTL DEF Spec
=============================================================================
