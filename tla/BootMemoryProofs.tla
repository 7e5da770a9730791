-------------------------- MODULE BootMemoryProofs --------------------------
(***************************************************************************)
(* Proofs about BootMemory, for any information of the boot loader, any    *)
(* memory map, anything behind it, and any sizes of pages and words.       *)
(*                                                                         *)
(* The search is always at the start of a tag before which there is        *)
(* neither a memory map nor the end tag (TagInv).  Each loop over the map  *)
(* has dealt with the entries before i (MeasureInv, PlaceInv, MarkInv).    *)
(* What is marked for a reserved page above the middle of a word is        *)
(* another bit than its own; that does no harm, as the allocator never     *)
(* gives such a page: the bits above are all set or all clear (BitsInv).   *)
(***************************************************************************)
EXTENDS BootMemory, WellFoundedInduction, TLAPS

\* Where the code is.
Searching  == {"available", "tags", "unavailable", "no map"}
Reserving  == {"reserve table", "reserve low", "reserve kernel", "reserve regions", "cpu"}
Placed     == {"initialize"} \cup Reserving

\* The search is at the tag n, the first one at this address.
AtTag(n) == /\ address = TagStart(info.tags, n)
            /\ \A l \in 1 .. (n - 1) :
                   /\ TagStart(info.tags, l) < TagStart(info.tags, n)
                   /\ info.tags[l].type # MULTIBOOT_TAG_TYPE_END
                   /\ info.tags[l].type # MULTIBOOT_TAG_TYPE_MEMORY_MAP

TagInv == /\ pc = "tags" => \E n \in 1 .. (Len(info.tags) + 1) : AtTag(n)
          /\ FindsTheMap

\* The highest address is known.
Below(r) == r.type = 1 => End(r) <= max_memory_address

MeasureInv ==
    /\ pc \notin {"measure", "place", "reserve regions"} => i = 0
    /\ pc = "measure" => \A k \in DOMAIN map : k <= i => Below(map[k])
    /\ pc \notin {"available", "tags", "unavailable", "no map", "measure"}
           => \A k \in DOMAIN map : Below(map[k])

\* There is no place for the table in r.
NoPlace(r) == r.type = 1 /\ r.address >= KernelBase
                 => \/ r.length < allocation_table_size
                    \/ End(r) - KernelEnd < allocation_table_size

PlaceInv ==
    /\ pc = "place" => \A k \in DOMAIN map : k <= i => NoPlace(map[k])
    /\ pc = "no place" => \A k \in DOMAIN map : NoPlace(map[k])
    /\ allocation_table_start = Nowhere \/ allocation_table_start >= KernelEnd
    /\ pc \in Placed <=> allocation_table_start # Nowhere

\* The bits that the masks of the high half set together.
High == (HalfBits - 1) .. (WordBits - 1)
Uniform(word) == High \subseteq word \/ High \cap word = {}
BitsInv == pc \in Reserving =>
    allocation_table \in [Words -> {word \in SUBSET Bits : Uniform(word)}]

\* The bit of a low page is set.
Low(p)    == p % WordBits < HalfBits
MarkedIn(table, r) == \A p \in PagesOf(r) :
    p < TableLength /\ Low(p) => p % WordBits \in table[p \div WordBits]
Marked(r) == MarkedIn(allocation_table, r)
RangeOf(r) == [address |-> r.address, bytes |-> r.length]
Held(r)   == r.type # 1 => Marked(RangeOf(r))

MarkInv ==
    /\ pc \in Reserving \ {"reserve table"} => Marked(TableRange)
    /\ pc \in {"reserve kernel", "reserve regions", "cpu"} => Marked(LowRange)
    /\ pc \in {"reserve regions", "cpu"} => Marked(KernelRange)
    /\ pc = "reserve regions" => \A k \in DOMAIN map : k <= i => Held(map[k])
    /\ pc = "cpu" => \A k \in DOMAIN map : Held(map[k])

TakenInv == /\ taken # {} => pc = "cpu"
            /\ ReservedKept

\* No region of a map wraps around the end of the address space.
MapsFit == \A m \in Maps : \A k \in DOMAIN m : m[k].address + m[k].length <= AddressModulus

Inv == TypeOK /\ TagInv /\ MeasureInv /\ PlaceInv /\ BitsInv
-----------------------------------------------------------------------------
\* Arithmetic.
LEMMA DivMod ==
    ASSUME NEW a \in Nat, NEW m \in Nat \ {0}
    PROVE  /\ a \div m \in Nat /\ a % m \in 0 .. (m - 1)
           /\ a = m * (a \div m) + (a % m)
           /\ a \div m <= a
<1> DEFINE q == a \div m
           r == a % m
<1>1. a = m * q + r /\ q \in Nat /\ r \in 0 .. (m - 1)
  OBVIOUS
<1>2. SUFFICES q <= a
  BY <1>1
<1> HIDE DEF q, r
<1>3. m * q = q + (m - 1) * q /\ (m - 1) * q \in Nat
  BY <1>1
<1>4. QED
  BY <1>1, <1>3

LEMMA Quotient ==
    ASSUME NEW m \in Nat \ {0}, NEW q \in Int, NEW r \in 0 .. (m - 1)
    PROVE  (q * m + r) \div m = q /\ (q * m + r) % m = r
OBVIOUS

LEMMA QuotientBound ==
    ASSUME NEW m \in Nat \ {0}, NEW a \in Nat, NEW d \in Int, d * m <= a
    PROVE  d <= a \div m
<1> DEFINE q == a \div m
           r == a % m
<1>1. q \in Int /\ r \in 0 .. (m - 1) /\ a = m * q + r
  BY DivMod
<1> HIDE DEF q, r
<1>2. d * m < (q + 1) * m
  BY <1>1
<1>3. SUFFICES ASSUME d >= q + 1 PROVE FALSE
  BY <1>1 DEF q
<1>4. d * m >= (q + 1) * m
  <2>1. d - (q + 1) \in Nat
    BY <1>1, <1>3
  <2>2. (d - (q + 1)) * m \in Nat
    BY <2>1
  <2>3. (d - (q + 1)) * m = d * m - (q + 1) * m
    BY <1>1
  <2>4. QED
    BY <1>1, <2>2, <2>3
<1>5. d * m \in Int /\ (q + 1) * m \in Int
  BY <1>1
<1>6. QED
  BY <1>2, <1>4, <1>5

\* Multiplication keeps the order.
LEMMA TimesOrder ==
    ASSUME NEW m \in Nat \ {0}, NEW a \in Int, NEW b \in Int, a * m < b * m
    PROVE  a < b
<1>1. SUFFICES ASSUME a >= b PROVE FALSE
  OBVIOUS
<1>2. a - b \in Nat
  BY <1>1
<1>3. (a - b) * m \in Nat
  BY <1>2
<1>4. (a - b) * m = a * m - b * m /\ a * m \in Int /\ b * m \in Int
  OBVIOUS
<1>5. QED
  BY <1>3, <1>4

LEMMA Constants ==
    /\ PageSize \in Nat \ {0} /\ HalfBits \in Nat \ {0} /\ BitsPerByte \in Nat \ {0}
    /\ AddressModulus \in Nat \ {0} /\ PageSize <= AddressModulus
    /\ KernelBase \in Nat /\ KernelSize \in Nat /\ KernelEnd \in Nat
    /\ KernelBase <= KernelEnd /\ KernelEnd <= AddressModulus
    /\ PageSize * BitsPerByte <= KernelEnd
    /\ WordBits \in Nat \ {0} /\ WordBits = 2 * HalfBits
    /\ TagHeader \in Nat /\ EntrySize \in Nat /\ 0 < TagHeader /\ TagHeader <= EntrySize
BY BootAssumption DEF WordBits, KernelEnd
-----------------------------------------------------------------------------
\* Induction, from the least element of a set of natural numbers.
LEMMA Least ==
    ASSUME NEW S \in SUBSET Nat, S # {}
    PROVE  \E n \in S : \A m \in S : n <= m
<1>1. OpToRel(<, Nat) = {ss \in Nat \X Nat : ss[1] < ss[2]}
  BY Zenon DEF OpToRel
<1>2. PICK n \in S : \A m \in S : ~(<<m, n>> \in OpToRel(<, Nat))
  BY NatLessThanWellFounded, WFMin
<1>3. ASSUME NEW m \in S
      PROVE  n <= m
  <2>1. <<m, n>> \notin {ss \in Nat \X Nat : ss[1] < ss[2]}
    BY <1>1, <1>2
  <2>2. <<m, n>> \in Nat \X Nat /\ <<m, n>>[1] = m /\ <<m, n>>[2] = n
    OBVIOUS
  <2>3. ~(m < n)
    BY <2>1, <2>2
  <2>4. QED
    BY <2>3
<1>4. QED
  BY <1>3

LEMMA Induction ==
    ASSUME NEW S \in SUBSET Nat, 0 \in S, \A n \in S : n + 1 \in S
    PROVE  S = Nat
<1> DEFINE T == Nat \ S
<1>1. SUFFICES ASSUME T # {} PROVE FALSE
  OBVIOUS
<1>2. PICK n \in T : \A m \in T : n <= m
  <2>1. T \in SUBSET Nat
    OBVIOUS
  <2> HIDE DEF T
  <2>2. QED
    BY <1>1, <2>1, Least
<1>3. n - 1 \in Nat /\ n - 1 \notin T
  BY <1>2
<1>4. (n - 1) + 1 \in S
  BY <1>3
<1>5. QED
  BY <1>4

\* The positions behind n things of these sizes.
Adds(t, n, w) == t[0] = 8 /\ \A k \in 1 .. n : t[k] = t[k - 1] + w[k]

LEMMA PositionsExist ==
    ASSUME NEW n \in Nat, NEW w \in [1 .. n -> Nat]
    PROVE  \E t \in [0 .. n -> Nat] : Adds(t, n, w)
<1> DEFINE S == {m \in Nat : m <= n => \E t \in [0 .. m -> Nat] : Adds(t, m, w)}
<1>1. 0 \in S
  <2> DEFINE t == [k \in 0 .. 0 |-> 8]
  <2>1. t \in [0 .. 0 -> Nat] /\ Adds(t, 0, w)
    BY DEF Adds
  <2> HIDE DEF t
  <2>2. QED
    BY <2>1
<1>2. ASSUME NEW m \in S
      PROVE  m + 1 \in S
  <2>0. m \in Nat /\ m + 1 \in Nat
    OBVIOUS
  <2>1. SUFFICES ASSUME m + 1 <= n
                 PROVE  \E t \in [0 .. (m + 1) -> Nat] : Adds(t, m + 1, w)
    BY <2>0, Zenon
  <2>2. PICK t \in [0 .. m -> Nat] : Adds(t, m, w)
    BY <2>0, <2>1
  <2> DEFINE x == t[m] + w[m + 1]
             u == [k \in 0 .. (m + 1) |-> IF k <= m THEN t[k] ELSE x]
  <2>3. x \in Nat
    BY <2>1
  <2>4. /\ u \in [0 .. (m + 1) -> Nat] /\ u[m + 1] = x
        /\ \A k \in 0 .. m : u[k] = t[k]
    BY <2>3
  <2> HIDE DEF u
  <2>5. ASSUME NEW k \in 1 .. (m + 1)
        PROVE  u[k] = u[k - 1] + w[k]
    <3>1. CASE k = m + 1
      <4>1. k - 1 = m /\ m \in 0 .. m
        BY <3>1
      <4>2. QED
        BY <2>4, <3>1, <4>1
    <3>2. CASE k # m + 1
      <4>1. k \in 1 .. m /\ k \in 0 .. m /\ k - 1 \in 0 .. m
        BY <3>2
      <4>2. QED
        BY <2>2, <2>4, <4>1 DEF Adds
    <3>3. QED
      BY <3>1, <3>2
  <2>6. u[0] = 8
    BY <2>2, <2>4 DEF Adds
  <2>7. QED
    BY <2>4, <2>5, <2>6 DEF Adds
<1>3. S = Nat
  <2>1. S \in SUBSET Nat
    OBVIOUS
  <2> HIDE DEF S
  <2>2. QED
    BY <1>1, <1>2, <2>1, Induction
<1>4. n \in S
  BY <1>3
<1>5. QED
  BY <1>4

LEMMA Elements ==
    ASSUME NEW R, NEW s \in Seq(R)
    PROVE  /\ Len(s) \in Nat /\ DOMAIN s = 1 .. Len(s)
           /\ \A k \in 1 .. Len(s) : s[k] \in R
OBVIOUS

\* The tags are one behind the other, and their sizes are rounded up.
LEMMA AlignFacts ==
    ASSUME NEW n \in Nat
    PROVE  ALIGN_TO_NEXT(n, 8) \in Nat /\ (n # 0 => ALIGN_TO_NEXT(n, 8) > 0)
                                       /\ (n = 0 => ALIGN_TO_NEXT(n, 8) = 0)
BY DEF ALIGN_TO_NEXT

LEMMA TagFacts ==
    ASSUME NEW tags \in Seq([type : Nat, size : Nat])
    PROVE  /\ TagStart(tags, 1) = 8
           /\ \A k \in 1 .. (Len(tags) + 1) : TagStart(tags, k) \in Nat
           /\ \A k \in 1 .. Len(tags) :
                  TagStart(tags, k + 1) = TagStart(tags, k) + ALIGN_TO_NEXT(tags[k].size, 8)
<1> DEFINE n == Len(tags)
           w == [k \in 1 .. n |-> ALIGN_TO_NEXT(tags[k].size, 8)]
           Def(t) == t = [k \in 0 .. n |->
                              IF k = 0 THEN 8 ELSE t[k - 1] + ALIGN_TO_NEXT(tags[k].size, 8)]
           end == CHOOSE t : Def(t)
<1>1. n \in Nat /\ \A k \in 1 .. n : tags[k].size \in Nat
  <2>1. n \in Nat /\ \A k \in 1 .. n : tags[k] \in [type : Nat, size : Nat]
    BY Elements
  <2>2. QED
    BY <2>1
<1>2. w \in [1 .. n -> Nat]
  BY <1>1, AlignFacts
<1>3. PICK f \in [0 .. n -> Nat] : Adds(f, n, w)
  <2> HIDE DEF n, w
  <2>1. QED
    BY <1>1, <1>2, PositionsExist
<1>4. Def(f)
  <2> DEFINE g == [k \in 0 .. n |->
                      IF k = 0 THEN 8 ELSE f[k - 1] + ALIGN_TO_NEXT(tags[k].size, 8)]
  <2>1. \A k \in 0 .. n : g[k] = f[k]
    BY <1>1, <1>3 DEF Adds
  <2>2. DOMAIN g = 0 .. n /\ DOMAIN f = 0 .. n
    OBVIOUS
  <2>3. QED
    BY <2>1, <2>2
<1>5. Def(end)
  BY <1>4
<1>6. \A k : TagStart(tags, k) = end[k - 1]
  BY DEF TagStart
<1> HIDE DEF end
<1>7. end[0] = 8 /\ \A k \in 1 .. n : end[k] = end[k - 1] + w[k]
  <2>1. \A k \in 0 .. n :
            end[k] = IF k = 0 THEN 8 ELSE end[k - 1] + ALIGN_TO_NEXT(tags[k].size, 8)
    BY <1>5, Zenon
  <2>2. QED
    BY <1>1, <2>1
<1> DEFINE S == {k \in Nat : k <= n => end[k] \in Nat}
<1> HIDE DEF w, Def
<1>8. 0 \in S
  BY <1>7
<1>9. ASSUME NEW k \in S
      PROVE  k + 1 \in S
  <2>1. SUFFICES ASSUME k + 1 <= n PROVE end[k + 1] \in Nat
    OBVIOUS
  <2>2. k + 1 \in 1 .. n /\ (k + 1) - 1 = k /\ end[k] \in Nat
    BY <1>1, <2>1
  <2>3. w[k + 1] \in Nat
    BY <1>2, <2>2
  <2>4. QED
    BY <1>7, <2>2, <2>3
<1>10. S = Nat
  <2>1. S \in SUBSET Nat
    OBVIOUS
  <2> HIDE DEF S
  <2>2. QED
    BY <1>8, <1>9, <2>1, Induction
<1>11. ASSUME NEW k \in 1 .. (n + 1)
       PROVE  TagStart(tags, k) \in Nat
  <2>1. k - 1 \in Nat /\ k - 1 <= n
    BY <1>1
  <2>2. k - 1 \in S
    <3> HIDE DEF S
    <3>1. QED
      BY <1>10, <2>1
  <2>3. end[k - 1] \in Nat
    BY <2>1, <2>2
  <2>4. QED
    BY <1>6, <2>3
<1>12. TagStart(tags, 1) = 8
  BY <1>6, <1>7
<1>13. ASSUME NEW k \in 1 .. n
       PROVE  TagStart(tags, k + 1) = TagStart(tags, k) + ALIGN_TO_NEXT(tags[k].size, 8)
  <2>1. (k + 1) - 1 = k
    BY <1>1
  <2>2. end[k] = end[k - 1] + ALIGN_TO_NEXT(tags[k].size, 8)
    BY <1>7 DEF w
  <2>3. QED
    BY <1>6, <2>1, <2>2
<1>14. QED
  BY <1>11, <1>12, <1>13
-----------------------------------------------------------------------------
\* TagInv.
LEMMA InfoType1 ==
    ASSUME TypeOK
    PROVE  /\ info.tags \in Seq([type : Nat, size : Nat])
           /\ Len(info.tags) \in Nat /\ DOMAIN info.tags = 1 .. Len(info.tags)
           /\ \A k \in 1 .. Len(info.tags) : info.tags[k].type \in Nat /\ info.tags[k].size \in Nat
<1>1. info \in InfoType
  BY BootAssumption DEF TypeOK
<1>2. info.tags \in Seq([type : Nat, size : Nat])
  BY <1>1 DEF InfoType
<1>3. \A k \in 1 .. Len(info.tags) : info.tags[k] \in [type : Nat, size : Nat]
  BY <1>2, Elements
<1>4. Len(info.tags) \in Nat /\ DOMAIN info.tags = 1 .. Len(info.tags)
  BY <1>2, Elements
<1>5. \A t \in [type : Nat, size : Nat] : t.type \in Nat /\ t.size \in Nat
  OBVIOUS
<1>6. QED
  BY <1>2, <1>3, <1>4, <1>5

\* The tag that the search reads.
LEMMA TagRead ==
    ASSUME TypeOK, NEW n \in 1 .. (Len(info.tags) + 1), AtTag(n)
    PROVE  TagAt(address) = IF n = Len(info.tags) + 1
                            THEN [type |-> MULTIBOOT_TAG_TYPE_END, size |-> 0] ELSE info.tags[n]
<1> DEFINE len == Len(info.tags)
           there == {k \in DOMAIN info.tags : TagStart(info.tags, k) = address}
<1>1. /\ len \in Nat /\ DOMAIN info.tags = 1 .. len
      /\ \A k \in 1 .. (len + 1) : TagStart(info.tags, k) \in Nat
  BY InfoType1, TagFacts
<1>2. \A k \in there : k >= n
  <2>1. SUFFICES ASSUME NEW k \in there, k < n PROVE FALSE
    BY <1>1
  <2>2. k \in 1 .. (n - 1) /\ TagStart(info.tags, k) = TagStart(info.tags, n)
    BY <1>1, <2>1 DEF AtTag
  <2>3. TagStart(info.tags, k) < TagStart(info.tags, n) /\ k \in 1 .. (len + 1)
    BY <1>1, <2>2 DEF AtTag
  <2>4. QED
    BY <1>1, <2>2, <2>3
<1>3. CASE n = len + 1
  <2>1. there = {}
    BY <1>1, <1>2, <1>3
  <2>2. QED
    BY <1>3, <2>1 DEF TagAt
<1>4. CASE n # len + 1
  <2>1. n \in there
    BY <1>1, <1>4 DEF AtTag
  <2>2. \A x \in there : (\A y \in there : x <= y) <=> x = n
    BY <1>1, <1>2, <2>1
  <2> HIDE DEF there
  <2>3. Min(there) = n
    BY <2>1, <2>2 DEF Min
  <2>4. there # {}
    BY <2>1
  <2>5. QED
    BY <1>4, <2>3, <2>4 DEF TagAt, there
<1>5. QED
  BY <1>3, <1>4

LEMMA TagStep ==
    ASSUME TypeOK, TagInv, [Next]_vars
    PROVE  TagInv'
<1> DEFINE tags == info.tags
<1>0. /\ tags \in Seq([type : Nat, size : Nat])
      /\ Len(tags) \in Nat /\ DOMAIN tags = 1 .. Len(tags)
      /\ \A k \in 1 .. Len(tags) : tags[k].type \in Nat /\ tags[k].size \in Nat
  BY InfoType1
<1>1. info' = info
  BY DEF Next, Boot, CheckInfo, multiboot2_info_get, Measure, Place, memory_physical_initialize,
         ReserveTable, ReserveLow, ReserveKernel, Reserve, ReserveRegions,
         memory_physical_allocate, vars, given
<1>2. MapTags' = MapTags
  BY <1>1 DEF MapTags
<1>3. CASE CheckInfo
  <2>1. address' = 8 /\ pc' \in {"tags", "unavailable"}
    BY <1>3 DEF CheckInfo
  <2>2. 1 \in 1 .. (Len(tags) + 1) /\ TagStart(tags, 1) = 8
    BY <1>0, TagFacts
  <2>3. AtTag(1)'
    BY <1>1, <2>1, <2>2 DEF AtTag
  <2>4. QED
    BY <1>1, <2>1, <2>2, <2>3 DEF TagInv, FindsTheMap
<1>4. CASE multiboot2_info_get
  <2>1. pc = "tags"
    BY <1>4 DEF multiboot2_info_get
  <2>2. PICK n \in 1 .. (Len(tags) + 1) : AtTag(n)
    BY <2>1 DEF TagInv
  <2> DEFINE tag == TagAt(address)
  <2>3. tag = IF n = Len(tags) + 1 THEN [type |-> MULTIBOOT_TAG_TYPE_END, size |-> 0]
              ELSE tags[n]
    BY <2>2, TagRead
  <2>4. /\ pc' = CASE tag.type = MULTIBOOT_TAG_TYPE_END -> "no map"
                   [] tag.type = MULTIBOOT_TAG_TYPE_MEMORY_MAP -> "measure"
                   [] OTHER -> "tags"
        /\ address' = IF pc' = "tags" THEN address + ALIGN_TO_NEXT(tag.size, 8) ELSE address
    BY <1>4 DEF multiboot2_info_get
  <2> HIDE DEF tag
  <2>5. CASE tag.type = MULTIBOOT_TAG_TYPE_END
    <3>1. pc' = "no map"
      <4>1. tag.type = 0 /\ ~(tag.type = 6)
        BY <2>5 DEF MULTIBOOT_TAG_TYPE_END
      <4>2. pc' = CASE tag.type = 0 -> "no map" [] tag.type = 6 -> "measure" [] OTHER -> "tags"
        BY <2>4 DEF MULTIBOOT_TAG_TYPE_END, MULTIBOOT_TAG_TYPE_MEMORY_MAP
      <4>3. QED
        BY <4>1, <4>2
    <3>2. MapTags = {}
      <4>1. SUFFICES ASSUME NEW k \in MapTags PROVE FALSE
        OBVIOUS
      <4>2. /\ k \in 1 .. Len(tags) /\ tags[k].type = MULTIBOOT_TAG_TYPE_MEMORY_MAP
            /\ \A l \in 1 .. k : tags[l].type # MULTIBOOT_TAG_TYPE_END
        BY <1>0 DEF MapTags
      <4>3. k >= n
        BY <1>0, <2>2, <4>2 DEF AtTag
      <4>4. n \in 1 .. k /\ n # Len(tags) + 1
        BY <1>0, <4>2, <4>3
      <4>5. QED
        BY <2>3, <2>5, <4>2, <4>4
    <3>3. QED
      BY <1>2, <3>1, <3>2 DEF TagInv, FindsTheMap
  <2>6. CASE tag.type = MULTIBOOT_TAG_TYPE_MEMORY_MAP
    <3>1. pc' = "measure" /\ address' = address
      BY <2>4, <2>6 DEF MULTIBOOT_TAG_TYPE_END, MULTIBOOT_TAG_TYPE_MEMORY_MAP
    <3>2. n # Len(tags) + 1
      BY <2>3, <2>6 DEF MULTIBOOT_TAG_TYPE_END, MULTIBOOT_TAG_TYPE_MEMORY_MAP
    <3>3. n \in 1 .. Len(tags) /\ tags[n].type = MULTIBOOT_TAG_TYPE_MEMORY_MAP
      BY <1>0, <2>3, <2>6, <3>2
    <3>4. \A l \in 1 .. n : tags[l].type # MULTIBOOT_TAG_TYPE_END
      <4>1. \A l \in 1 .. n : l \in 1 .. (n - 1) \/ l = n
        BY <1>0, <3>3
      <4>2. tags[n].type # MULTIBOOT_TAG_TYPE_END
        BY <3>3 DEF MULTIBOOT_TAG_TYPE_END, MULTIBOOT_TAG_TYPE_MEMORY_MAP
      <4>3. \A l \in 1 .. (n - 1) : tags[l].type # MULTIBOOT_TAG_TYPE_END
        BY <2>2 DEF AtTag
      <4>4. QED
        BY <4>1, <4>2, <4>3
    <3>5. n \in MapTags
      BY <1>0, <3>3, <3>4 DEF MapTags
    <3>6. \A k \in MapTags : k \in 1 .. Len(tags) /\ n <= k
      BY <1>0, <2>2, <3>3 DEF MapTags, AtTag
    <3>7. Min(MapTags) = n
      <4>1. \A x \in MapTags : (\A y \in MapTags : x <= y) <=> x = n
        BY <1>0, <3>5, <3>6
      <4>2. QED
        BY <3>5, <4>1 DEF Min
    <3>8. QED
      BY <1>1, <1>2, <2>2, <3>1, <3>7 DEF TagInv, FindsTheMap, AtTag
  <2>7. CASE /\ tag.type # MULTIBOOT_TAG_TYPE_END
             /\ tag.type # MULTIBOOT_TAG_TYPE_MEMORY_MAP
    <3>1. pc' = "tags" /\ address' = address + ALIGN_TO_NEXT(tag.size, 8)
      BY <2>4, <2>7
    <3>2. n \in 1 .. Len(tags) /\ tag = tags[n] /\ n + 1 \in 1 .. (Len(tags) + 1)
      BY <1>0, <2>3, <2>7
    <3>3. tag.size \in Nat
      BY <1>0, <3>2
    <3> DEFINE size == ALIGN_TO_NEXT(tag.size, 8)
    <3>4. /\ size \in Nat /\ (tag.size # 0 => size > 0) /\ (tag.size = 0 => size = 0)
          /\ TagStart(tags, n + 1) = TagStart(tags, n) + size
          /\ \A k \in 1 .. (Len(tags) + 1) : TagStart(tags, k) \in Nat
      BY <1>0, <3>2, <3>3, AlignFacts, TagFacts
    <3> HIDE DEF size
    <3>5. CASE tag.size = 0
      <4>1. address' = address
        BY <2>2, <3>1, <3>4, <3>5 DEF AtTag, size
      <4>2. AtTag(n)'
        BY <1>1, <2>2, <4>1 DEF AtTag
      <4>3. QED
        BY <1>1, <3>1, <4>2 DEF TagInv, FindsTheMap
    <3>6. CASE tag.size # 0
      <4>1. address' = TagStart(tags, n + 1)
        BY <2>2, <3>1, <3>4 DEF AtTag, size
      <4>2. ASSUME NEW l \in 1 .. ((n + 1) - 1)
            PROVE  /\ TagStart(tags, l) < TagStart(tags, n + 1)
                   /\ tags[l].type # MULTIBOOT_TAG_TYPE_END
                   /\ tags[l].type # MULTIBOOT_TAG_TYPE_MEMORY_MAP
        <5>1. l \in 1 .. (n - 1) \/ l = n
          BY <1>0, <3>2
        <5>2. TagStart(tags, n) < TagStart(tags, n + 1)
          BY <3>2, <3>4, <3>6
        <5>3. CASE l = n
          BY <2>7, <3>2, <5>2, <5>3
        <5>4. CASE l \in 1 .. (n - 1)
          <6>1. /\ TagStart(tags, l) < TagStart(tags, n)
                /\ tags[l].type # MULTIBOOT_TAG_TYPE_END
                /\ tags[l].type # MULTIBOOT_TAG_TYPE_MEMORY_MAP
            BY <2>2, <5>4 DEF AtTag
          <6>2. l \in 1 .. (Len(tags) + 1)
            BY <1>0, <3>2, <5>4
          <6>3. QED
            BY <3>2, <3>4, <5>2, <6>1, <6>2
        <5>5. QED
          BY <5>1, <5>3, <5>4
      <4>3. AtTag(n + 1)'
        BY <1>1, <4>1, <4>2 DEF AtTag
      <4>4. QED
        BY <1>1, <3>1, <3>2, <4>3 DEF TagInv, FindsTheMap
    <3>7. QED
      BY <3>5, <3>6
  <2>8. QED
    BY <2>5, <2>6, <2>7
<1>5. CASE /\ address' = address /\ pc \notin Searching /\ pc' \notin Searching
  BY <1>1, <1>2, <1>5 DEF TagInv, FindsTheMap, Searching
<1>6. CASE UNCHANGED vars
  BY <1>1, <1>2, <1>6 DEF vars, TagInv, FindsTheMap, AtTag
<1>7. QED
  BY <1>3, <1>4, <1>5, <1>6
     DEF Next, Boot, Measure, Loop, Place, memory_physical_initialize, ReserveTable, ReserveLow,
         ReserveKernel, Reserve, ReserveRegions, memory_physical_allocate, Searching
-----------------------------------------------------------------------------
\* The loops over the map.
LEMMA MapType ==
    ASSUME TypeOK
    PROVE  /\ Len(map) \in Nat /\ DOMAIN map = 1 .. Len(map)
           /\ \A k \in 1 .. Len(map) : map[k] \in Region
           /\ behind \in Region
           /\ i \in Nat /\ i <= Len(map) + 1
           /\ max_memory_address \in Nat /\ max_memory_address < AddressModulus
<1>1. map \in Seq(Region) /\ behind \in Region
  BY BootAssumption DEF TypeOK
<1>2. Len(map) \in Nat /\ DOMAIN map = 1 .. Len(map) /\ \A k \in 1 .. Len(map) : map[k] \in Region
  BY <1>1, Elements
<1>3. i \in 0 .. (Len(map) + 1) /\ max_memory_address \in 0 .. (AddressModulus - 1)
  BY DEF TypeOK
<1>4. QED
  BY <1>1, <1>2, <1>3, Constants

\* They read all entries of the map, and one more.
LEMMA MoreFacts ==
    ASSUME TypeOK
    PROVE  More <=> i <= Len(map)
<1> DEFINE n == Len(map)
<1>1. n \in Nat /\ i \in Nat /\ EntrySize \in Nat \ {0} /\ TagHeader \in Nat
      /\ 0 < TagHeader /\ TagHeader <= EntrySize
  BY MapType, Constants
<1> HIDE DEF n
<1>2. /\ i * EntrySize \in Nat /\ n * EntrySize \in Nat
      /\ (n + 1) * EntrySize = n * EntrySize + EntrySize
  BY <1>1
<1>3. ASSUME i * EntrySize < TagHeader + n * EntrySize
      PROVE  i <= n
  <2>1. i * EntrySize < (n + 1) * EntrySize
    BY <1>1, <1>2, <1>3
  <2>2. i < n + 1
    BY <1>1, <2>1, TimesOrder
  <2>3. QED
    BY <1>1, <2>2
<1>4. ASSUME ~(i * EntrySize < TagHeader + n * EntrySize)
      PROVE  ~(i <= n)
  <2>1. n * EntrySize < i * EntrySize
    BY <1>1, <1>2, <1>4
  <2>2. n < i
    BY <1>1, <2>1, TimesOrder
  <2>3. QED
    BY <1>1, <2>2
<1>5. QED
  BY <1>3, <1>4 DEF More, n

LEMMA RegionFacts ==
    ASSUME NEW r \in Region
    PROVE  /\ r.address \in Nat /\ r.length \in Nat /\ r.type \in Nat
           /\ End(r) \in Nat /\ End(r) < AddressModulus
<1>1. r.address \in Nat /\ r.length \in Nat /\ r.type \in Nat
  BY DEF Region
<1>2. r.address + r.length \in Nat
  BY <1>1
<1>3. (r.address + r.length) % AddressModulus \in 0 .. (AddressModulus - 1)
  BY <1>2, Constants, DivMod
<1>4. QED
  BY <1>1, <1>3, Constants DEF End

LEMMA EntryFacts ==
    ASSUME TypeOK
    PROVE  /\ Entry \in Region
           /\ i < Len(map) => i + 1 \in DOMAIN map /\ Entry = map[i + 1]
BY MapType DEF Entry

LEMMA SizeFacts ==
    ASSUME TypeOK
    PROVE  /\ allocation_table_size \in Nat /\ allocation_table_size <= max_memory_address \div PageSize
           /\ TableLength \in Nat
<1>1. max_memory_address \div PageSize \in Nat
  BY MapType, Constants, DivMod
<1>2. QED
  BY <1>1, Constants, DivMod DEF allocation_table_size, TableLength

\* The constants of the sizes do not change once the loop is over.
LEMMA SizesKept ==
    ASSUME max_memory_address' = max_memory_address
    PROVE  /\ allocation_table_size' = allocation_table_size
           /\ TableLength' = TableLength /\ Words' = Words
BY DEF allocation_table_size, TableLength, Words

\* What is given stays.
LEMMA Given ==
    ASSUME [Next]_vars
    PROVE  info' = info /\ map' = map /\ behind' = behind
BY DEF Next, Boot, CheckInfo, multiboot2_info_get, Measure, Place, memory_physical_initialize,
       ReserveTable, ReserveLow, ReserveKernel, Reserve, ReserveRegions,
       memory_physical_allocate, vars, given

\* A loop of the code, in terms of Len(map).
LEMMA LoopFacts ==
    ASSUME TypeOK, NEW l, NEW next, Loop(l, next)
    PROVE  /\ pc = l
           /\ i <= Len(map) => pc' = l /\ i' = i + 1
           /\ ~(i <= Len(map)) => pc' = next /\ i' = 0
BY MoreFacts DEF Loop
-----------------------------------------------------------------------------
\* MeasureInv.
LEMMA MeasureStep ==
    ASSUME TypeOK, MeasureInv, [Next]_vars
    PROVE  MeasureInv'
<1>0. /\ map' = map
      /\ Len(map) \in Nat /\ DOMAIN map = 1 .. Len(map)
      /\ i \in Nat /\ max_memory_address \in Nat
      /\ \A k \in DOMAIN map : End(map[k]) \in Nat
  BY MapType, RegionFacts, Given
<1>1. CASE Measure
  <2>1. /\ pc = "measure"
        /\ i <= Len(map) => pc' = "measure" /\ i' = i + 1
        /\ ~(i <= Len(map)) => pc' = "place" /\ i' = 0
    BY <1>1, LoopFacts DEF Measure
  <2>2. max_memory_address' = IF More /\ Entry.type = 1 /\ End(Entry) > max_memory_address
                              THEN End(Entry) ELSE max_memory_address
    BY <1>1 DEF Measure
  <2>3. Entry \in Region /\ End(Entry) \in Nat
    BY EntryFacts, RegionFacts
  <2>4. max_memory_address' \in Nat /\ max_memory_address <= max_memory_address'
    BY <1>0, <2>2, <2>3
  <2>5. \A k \in DOMAIN map : Below(map[k]) => Below(map[k])'
    BY <1>0, <2>4 DEF Below, End
  <2>6. ASSUME NEW k \in DOMAIN map, k = i + 1
        PROVE  Below(map[k])'
    <3>1. SUFFICES ASSUME map[k].type = 1
                   PROVE  End(map[k]) <= max_memory_address'
      BY <1>0 DEF Below, End
    <3>2. i < Len(map) /\ i <= Len(map)
      BY <1>0, <2>6
    <3>3. Entry = map[k] /\ More
      BY <2>6, <3>2, EntryFacts, MoreFacts
    <3>4. QED
      BY <1>0, <2>2, <2>3, <3>1, <3>3
  <2>7. \A k \in DOMAIN map : k <= i => Below(map[k])
    BY <2>1 DEF MeasureInv
  <2>8. \A k \in DOMAIN map : k <= i + 1 => Below(map[k])'
    <3>1. \A k \in DOMAIN map : k <= i + 1 => k <= i \/ k = i + 1
      BY <1>0
    <3>2. QED
      BY <2>5, <2>6, <2>7, <3>1
  <2>9. CASE i <= Len(map)
    BY <1>0, <2>1, <2>8, <2>9 DEF MeasureInv
  <2>10. CASE ~(i <= Len(map))
    <3>1. \A k \in DOMAIN map : k <= i
      BY <1>0, <2>10
    <3>2. QED
      BY <1>0, <2>1, <2>5, <2>7, <2>10, <3>1 DEF MeasureInv
  <2>11. QED
    BY <2>9, <2>10
<1>2. CASE ~Measure
  <2>1. max_memory_address' = max_memory_address
    BY <1>2 DEF Next, Boot, CheckInfo, multiboot2_info_get, Place, memory_physical_initialize,
               ReserveTable, ReserveLow, ReserveKernel, Reserve, ReserveRegions,
               memory_physical_allocate, vars
  <2>2. \A k \in DOMAIN map : Below(map[k])' <=> Below(map[k])
    BY <1>0, <2>1 DEF Below, End
  <2>3. pc' \notin {"measure", "place", "reserve regions"} => i' = 0
    BY <1>2 DEF Next, Boot, CheckInfo, multiboot2_info_get, Place, memory_physical_initialize,
               ReserveTable, ReserveLow, ReserveKernel, Reserve, ReserveRegions, Loop,
               memory_physical_allocate, vars, MeasureInv
  <2>4. /\ pc' = "measure" => (pc = "measure" /\ i' = i) \/ i' = 0
        /\ pc' \notin {"available", "tags", "unavailable", "no map", "measure"} =>
               pc \notin {"available", "tags", "unavailable", "no map", "measure"}
    BY <1>2 DEF Next, Boot, CheckInfo, multiboot2_info_get, Place, memory_physical_initialize,
               ReserveTable, ReserveLow, ReserveKernel, Reserve, ReserveRegions, Loop,
               memory_physical_allocate, vars, MeasureInv
  <2>5. \A k \in DOMAIN map : ~(k <= 0)
    BY <1>0
  <2>6. QED
    BY <1>0, <2>2, <2>3, <2>4, <2>5 DEF MeasureInv
<1>3. QED
  BY <1>1, <1>2
-----------------------------------------------------------------------------
\* PlaceInv.
LEMMA PlaceStep ==
    ASSUME TypeOK, MeasureInv, PlaceInv, [Next]_vars
    PROVE  PlaceInv'
<1>0. /\ map' = map
      /\ Len(map) \in Nat /\ DOMAIN map = 1 .. Len(map)
      /\ i \in Nat /\ max_memory_address \in Nat
      /\ \A k \in DOMAIN map : map[k] \in Region
      /\ allocation_table_size \in Nat
  BY MapType, Given, SizeFacts
<1>1. CASE Place
  <2>1. /\ pc = "place" /\ max_memory_address' = max_memory_address
        /\ allocation_table_start = Nowhere
    BY <1>1 DEF Place, PlaceInv, Placed, Reserving
  <2>2. allocation_table_size' = allocation_table_size
    BY <2>1, SizesKept
  <2>3. \A k \in DOMAIN map : NoPlace(map[k])' <=> NoPlace(map[k])
    BY <1>0, <2>2 DEF NoPlace, End, KernelEnd
  <2>4. \A k \in DOMAIN map : k <= i => NoPlace(map[k])
    BY <2>1 DEF PlaceInv
  <2>5. CASE ~More /\ pc' = "no place" /\ i' = 0 /\ UNCHANGED allocation_table_start
    <3>0. ~(i <= Len(map))
      BY <2>5, MoreFacts
    <3>1. \A k \in DOMAIN map : k <= i
      BY <1>0, <3>0
    <3>2. QED
      BY <1>0, <2>1, <2>3, <2>4, <2>5, <3>1 DEF PlaceInv, Placed, Reserving
  <2>6. CASE /\ More /\ Fits /\ ~(Overlaps /\ OnlyKernel)
             /\ pc' = "initialize" /\ i' = 0
             /\ allocation_table_start' = IF Overlaps THEN KernelEnd ELSE Entry.address
    <3>1. Entry.address \in Nat /\ Entry.address >= KernelBase
      BY <2>6, EntryFacts, RegionFacts DEF Fits
    <3>2. Entry.address + allocation_table_size >= KernelBase
      BY <1>0, <3>1, Constants
    <3>3. ~Overlaps => Entry.address >= KernelEnd
      BY <3>1, <3>2, Constants DEF Overlaps
    <3>4. allocation_table_start' >= KernelEnd /\ allocation_table_start' # Nowhere
      BY <2>6, <3>1, <3>3, Constants DEF Nowhere
    <3>5. QED
      BY <2>6, <3>4 DEF PlaceInv, Placed, Reserving
  <2>7. CASE /\ More /\ (Fits => Overlaps /\ OnlyKernel)
             /\ i' = i + 1
             /\ UNCHANGED <<pc, allocation_table_start>>
    <3>1. i < Len(map) => NoPlace(map[i + 1])
      <4>1. SUFFICES ASSUME i < Len(map), map[i + 1].type = 1, map[i + 1].address >= KernelBase,
                            map[i + 1].length >= allocation_table_size
                     PROVE  End(map[i + 1]) - KernelEnd < allocation_table_size
        <5>1. i < Len(map) => map[i + 1] \in Region
          BY <1>0
        <5>2. QED
          BY <1>0, <5>1, RegionFacts DEF NoPlace
      <4>2. Entry = map[i + 1] /\ i + 1 \in DOMAIN map
        BY <4>1, EntryFacts
      <4>3. KernelEnd >= End(map[i + 1])
        BY <2>7, <4>1, <4>2 DEF Fits, OnlyKernel
      <4>4. End(map[i + 1]) \in Nat /\ End(map[i + 1]) <= max_memory_address
        BY <1>0, <2>1, <4>1, <4>2, RegionFacts DEF MeasureInv, Below
      <4>5. CASE End(map[i + 1]) < KernelEnd
        BY <1>0, <4>4, <4>5, Constants
      <4>6. CASE End(map[i + 1]) = KernelEnd
        <5>1. KernelEnd <= max_memory_address
          BY <4>4, <4>6
        <5>2. BitsPerByte * PageSize <= max_memory_address
          <6>1. PageSize * BitsPerByte \in Nat /\ BitsPerByte * PageSize = PageSize * BitsPerByte
            BY Constants
          <6>2. QED
            BY <1>0, <5>1, <6>1, Constants
        <5>3. BitsPerByte <= max_memory_address \div PageSize
          BY <1>0, <5>2, Constants, QuotientBound
        <5>4. 1 * BitsPerByte <= max_memory_address \div PageSize
          BY <5>3, Constants
        <5>5. 1 <= allocation_table_size
          <6>1. max_memory_address \div PageSize \in Nat
            BY <1>0, Constants, DivMod
          <6>2. QED
            BY <5>4, <6>1, Constants, QuotientBound DEF allocation_table_size
        <5>6. QED
          BY <1>0, <4>6, <5>5, Constants
      <4>7. QED
        BY <4>3, <4>4, <4>5, <4>6, Constants
    <3>2. \A k \in DOMAIN map : k <= i + 1 => k <= i \/ (k = i + 1 /\ i < Len(map))
      BY <1>0
    <3>3. \A k \in DOMAIN map : k <= i' => NoPlace(map[k])'
      BY <2>3, <2>4, <2>7, <3>1, <3>2
    <3>4. QED
      BY <1>0, <2>1, <2>7, <3>3 DEF PlaceInv, Placed, Reserving
  <2>8. QED
    BY <1>1, <2>5, <2>6, <2>7 DEF Place
<1>2. CASE Measure
  <2>1. /\ pc = "measure" /\ allocation_table_start' = allocation_table_start
        /\ pc' = "measure" \/ (pc' = "place" /\ i' = 0)
    BY <1>2, LoopFacts DEF Measure
  <2>2. \A k \in DOMAIN map : ~(k <= 0)
    BY <1>0
  <2>3. QED
    BY <1>0, <2>1, <2>2 DEF PlaceInv, Placed, Reserving
<1>3. CASE ~Measure /\ ~Place
  <2>1. UNCHANGED <<max_memory_address, allocation_table_start>>
    BY <1>3 DEF Next, Boot, CheckInfo, multiboot2_info_get, memory_physical_initialize,
               ReserveTable, ReserveLow, ReserveKernel, Reserve, ReserveRegions,
               memory_physical_allocate, vars
  <2>2. \A k \in DOMAIN map : NoPlace(map[k])' <=> NoPlace(map[k])
    BY <1>0, <2>1, SizesKept DEF NoPlace, End, KernelEnd
  <2>3. /\ pc' \in {"place", "no place"} => pc' = pc /\ i' = i
        /\ pc' \in Placed <=> pc \in Placed
    BY <1>3 DEF Next, Boot, CheckInfo, multiboot2_info_get, memory_physical_initialize,
               ReserveTable, ReserveLow, ReserveKernel, Reserve, ReserveRegions, Loop,
               memory_physical_allocate, vars, Placed, Reserving
  <2>4. QED
    BY <1>0, <2>1, <2>2, <2>3 DEF PlaceInv
<1>4. QED
  BY <1>1, <1>2, <1>3
-----------------------------------------------------------------------------
\* BitsInv.
UniformWords == {word \in SUBSET Bits : Uniform(word)}

LEMMA MaskFacts ==
    ASSUME NEW b \in Bits
    PROVE  /\ IntMask(b) \in UniformWords
           /\ b < HalfBits => b \in IntMask(b)
<1> DEFINE m == b % HalfBits
<1>1. /\ HalfBits \in Nat \ {0} /\ b \in Nat /\ Bits = 0 .. (2 * HalfBits - 1)
      /\ High = (HalfBits - 1) .. (2 * HalfBits - 1)
  BY Constants DEF Bits, High
<1>2. m \in 0 .. (HalfBits - 1) /\ (b < HalfBits => m = b)
  BY <1>1
<1>3. IntMask(b) = IF m = HalfBits - 1 THEN High ELSE {m}
  BY DEF IntMask, High
<1> HIDE DEF m
<1>4. CASE m = HalfBits - 1
  <2>1. High \subseteq Bits
    BY <1>1
  <2>2. b < HalfBits => b \in High
    BY <1>1, <1>2, <1>4
  <2>3. QED
    BY <1>3, <1>4, <2>1, <2>2 DEF UniformWords, Uniform
<1>5. CASE m # HalfBits - 1
  <2>1. m \in Bits /\ m \notin High
    BY <1>1, <1>2, <1>5
  <2>2. QED
    BY <1>2, <1>3, <1>5, <2>1 DEF UniformWords, Uniform
<1>6. QED
  BY <1>4, <1>5

LEMMA WordFacts ==
    ASSUME TypeOK, NEW p \in 0 .. (TableLength - 1)
    PROVE  p \div WordBits \in Words /\ p % WordBits \in Bits
<1>1. p \in Nat /\ TableLength \in Nat /\ p < TableLength
  BY SizeFacts
<1>2. p \div WordBits \in Nat /\ p % WordBits \in 0 .. (WordBits - 1) /\ p \div WordBits <= p
  BY <1>1, Constants, DivMod
<1>3. QED
  BY <1>1, <1>2 DEF Words, Bits

\* What a reservation does to the words.
LEMMA ReserveWords ==
    ASSUME TypeOK, allocation_table \in [Words -> UniformWords],
           NEW r, memory_physical_reserve(r)
    PROVE  /\ allocation_table' \in [Words -> UniformWords]
           /\ \A w \in Words : allocation_table[w] \subseteq allocation_table'[w]
           /\ \A p \in ReservedIndices(r) :
                  Low(p) => p % WordBits \in allocation_table'[p \div WordBits]
<1> DEFINE Here(w) == {q \in ReservedIndices(r) : q \div WordBits = w}
           Masks(w) == {IntMask(p % WordBits) : p \in Here(w)}
<1>1. allocation_table' = [w \in Words |-> allocation_table[w] \cup UNION Masks(w)]
  BY DEF memory_physical_reserve
<1>2. \A p \in ReservedIndices(r) : p \in 0 .. (TableLength - 1)
  BY DEF ReservedIndices
<1>3. \A w : \A m \in Masks(w) : m \in UniformWords
  <2>1. SUFFICES ASSUME NEW w, NEW p \in Here(w) PROVE IntMask(p % WordBits) \in UniformWords
    OBVIOUS
  <2>2. QED
    BY <1>2, WordFacts, MaskFacts
<1>4. ASSUME NEW w \in Words
      PROVE  allocation_table[w] \cup UNION Masks(w) \in UniformWords
  <2> DEFINE M == Masks(w) \cup {allocation_table[w]}
  <2>1. \A m \in M : m \subseteq Bits /\ (High \subseteq m \/ High \cap m = {})
    BY <1>3 DEF UniformWords, Uniform
  <2>2. allocation_table[w] \cup UNION Masks(w) = UNION M
    OBVIOUS
  <2> HIDE DEF M
  <2>3. UNION M \subseteq Bits
    BY <2>1
  <2>4. High \subseteq UNION M \/ High \cap UNION M = {}
    BY <2>1
  <2>5. QED
    BY <2>2, <2>3, <2>4 DEF UniformWords, Uniform
<1>5. ASSUME NEW p \in ReservedIndices(r), Low(p)
      PROVE  p % WordBits \in allocation_table'[p \div WordBits]
  <2> DEFINE w == p \div WordBits
             b == p % WordBits
  <2>1. w \in Words /\ b \in Bits
    BY <1>2, WordFacts
  <2>2. b \in IntMask(b)
    BY <1>5, <2>1, MaskFacts DEF Low
  <2>3. IntMask(b) \in Masks(w)
    OBVIOUS
  <2>4. b \in UNION Masks(w)
    BY <2>2, <2>3
  <2> HIDE DEF w, b, Masks
  <2>5. b \in allocation_table'[w]
    BY <1>1, <2>1, <2>4
  <2>6. QED
    BY <2>5 DEF w, b
<1>6. QED
  <2> HIDE DEF Masks
  <2>1. allocation_table' \in [Words -> UniformWords]
    BY <1>1, <1>4
  <2>2. \A w \in Words : allocation_table[w] \subseteq allocation_table'[w]
    BY <1>1
  <2>3. QED
    BY <1>5, <2>1, <2>2

\* What an allocation does.
LEMMA AllocateWords ==
    ASSUME TypeOK, allocation_table \in [Words -> UniformWords], memory_physical_allocate
    PROVE  /\ allocation_table' \in [Words -> UniformWords]
           /\ \A w \in Words : allocation_table[w] \subseteq allocation_table'[w]
           /\ \E w \in Words : \E b \in Bits :
                  /\ b \notin allocation_table[w]
                  /\ \A c \in Bits : c < b => c \in allocation_table[w]
                  /\ taken' = taken \cup {w * WordBits + b}
<1>1. PICK w \in Words : \E b \in Bits \ allocation_table[w] :
            /\ \A c \in Bits : c < b => c \in allocation_table[w]
            /\ allocation_table' = [allocation_table EXCEPT ![w] = @ \cup IntMask(b)]
            /\ taken' = taken \cup {w * WordBits + b}
  BY Zenon DEF memory_physical_allocate
<1>2. PICK b \in Bits \ allocation_table[w] :
            /\ \A c \in Bits : c < b => c \in allocation_table[w]
            /\ allocation_table' = [allocation_table EXCEPT ![w] = @ \cup IntMask(b)]
            /\ taken' = taken \cup {w * WordBits + b}
  BY <1>1
<1>3. IntMask(b) \in UniformWords /\ allocation_table[w] \in UniformWords
  BY MaskFacts
<1>4. allocation_table[w] \cup IntMask(b) \in UniformWords
  BY <1>3 DEF UniformWords, Uniform
<1>5. allocation_table' \in [Words -> UniformWords]
  BY <1>2, <1>4
<1>6. \A v \in Words : allocation_table[v] \subseteq allocation_table'[v]
  BY <1>2
<1>7. QED
  BY <1>2, <1>5, <1>6

\* The step of each place in the code that works on the table.
LEMMA TableStep ==
    ASSUME TypeOK, BitsInv, [Next]_vars, pc \in Reserving
    PROVE  /\ allocation_table \in [Words -> UniformWords]
           /\ pc' \in Reserving
           /\ UNCHANGED <<max_memory_address, allocation_table_start, allocation_table_size,
                          TableLength, Words>>
           /\ allocation_table' \in [Words -> UniformWords]
           /\ \A w \in Words : allocation_table[w] \subseteq allocation_table'[w]
<1>1. allocation_table \in [Words -> UniformWords]
  BY DEF BitsInv, UniformWords
<1>2. /\ \/ ReserveTable \/ ReserveLow \/ ReserveKernel \/ ReserveRegions
         \/ memory_physical_allocate \/ UNCHANGED vars
  BY DEF Next, Boot, CheckInfo, multiboot2_info_get, Measure, Loop, Place,
         memory_physical_initialize, Reserving
<1>3. UNCHANGED <<max_memory_address, allocation_table_start>>
  BY <1>2 DEF ReserveTable, ReserveLow, ReserveKernel, Reserve, ReserveRegions,
              memory_physical_allocate, vars
<1>4. pc' \in Reserving
  BY <1>2 DEF ReserveTable, ReserveLow, ReserveKernel, Reserve, ReserveRegions, Loop,
              memory_physical_allocate, vars, Reserving
<1>5. UNCHANGED <<allocation_table_size, TableLength, Words>>
  BY <1>3, SizesKept
<1>6. (\E r : memory_physical_reserve(r)) \/ memory_physical_allocate
         \/ allocation_table' = allocation_table
  BY <1>2 DEF ReserveTable, ReserveLow, ReserveKernel, Reserve, ReserveRegions, vars, memory
<1>7. /\ allocation_table' \in [Words -> UniformWords]
      /\ \A w \in Words : allocation_table[w] \subseteq allocation_table'[w]
  <2>1. CASE \E r : memory_physical_reserve(r)
    BY <1>1, <2>1, ReserveWords
  <2>2. CASE memory_physical_allocate
    BY <1>1, <2>2, AllocateWords
  <2>3. CASE allocation_table' = allocation_table
    BY <1>1, <2>3
  <2>4. QED
    BY <1>6, <2>1, <2>2, <2>3
<1>8. QED
  BY <1>1, <1>3, <1>4, <1>5, <1>7

LEMMA BitsStep ==
    ASSUME TypeOK, BitsInv, [Next]_vars
    PROVE  BitsInv'
<1>1. UniformWords' = UniformWords
  BY DEF UniformWords, Uniform
<1>2. CASE pc \in Reserving
  BY <1>1, <1>2, TableStep DEF BitsInv, UniformWords
<1>3. CASE memory_physical_initialize
  <2>1. allocation_table' = [w \in Words |-> {}] /\ max_memory_address' = max_memory_address
    BY <1>3 DEF memory_physical_initialize
  <2>2. {} \in UniformWords
    BY DEF UniformWords, Uniform
  <2>3. Words' = Words
    BY <2>1, SizesKept
  <2>4. QED
    BY <1>1, <2>1, <2>2, <2>3 DEF BitsInv, UniformWords
<1>4. CASE pc \notin Reserving /\ ~memory_physical_initialize
  <2>1. pc' \notin Reserving
    BY <1>4 DEF Next, Boot, CheckInfo, multiboot2_info_get, Measure, Loop, Place, ReserveTable,
                ReserveLow, ReserveKernel, Reserve, ReserveRegions, memory_physical_allocate,
                vars, Reserving
  <2>2. QED
    BY <2>1 DEF BitsInv
<1>5. QED
  BY <1>2, <1>3, <1>4
-----------------------------------------------------------------------------
\* TypeOK.
LEMMA TypeStep ==
    ASSUME TypeOK, TagInv, BitsInv, [Next]_vars
    PROVE  TypeOK'
<1>0. /\ info' \in Infos /\ map' \in Maps /\ behind' \in Behinds /\ map' = map
      /\ Len(map) \in Nat /\ i \in 0 .. (Len(map) + 1) /\ address \in Nat
      /\ max_memory_address \in 0 .. (AddressModulus - 1)
      /\ allocation_table_start \in Nat \cup {Nowhere}
  BY Given, MapType DEF TypeOK
<1>1. pc' \in {"available", "tags", "measure", "place", "initialize", "reserve table",
               "reserve low", "reserve kernel", "reserve regions", "cpu",
               "unavailable", "no map", "no place"}
  <2>1. pc \in {"available", "tags", "measure", "place", "initialize", "reserve table",
               "reserve low", "reserve kernel", "reserve regions", "cpu",
               "unavailable", "no map", "no place"}
    BY DEF TypeOK
  <2>2. QED
    BY <2>1 DEF Next, Boot, CheckInfo, multiboot2_info_get, Measure, Loop, Place,
           memory_physical_initialize, ReserveTable, ReserveLow, ReserveKernel, Reserve,
           ReserveRegions, memory_physical_allocate, vars
<1>2. address' \in Nat
  <2>1. CASE multiboot2_info_get
    <3>1. PICK n \in 1 .. (Len(info.tags) + 1) : AtTag(n)
      BY <2>1 DEF TagInv, multiboot2_info_get
    <3>2. TagAt(address).size \in Nat
      <4>1. CASE n = Len(info.tags) + 1
        BY <3>1, <4>1, TagRead
      <4>2. CASE n # Len(info.tags) + 1
        <5>1. n \in 1 .. Len(info.tags)
          BY <4>2, InfoType1
        <5>2. QED
          BY <3>1, <4>2, <5>1, TagRead, InfoType1
      <4>3. QED
        BY <4>1, <4>2
    <3>3. ALIGN_TO_NEXT(TagAt(address).size, 8) \in Nat
      BY <3>2, AlignFacts
    <3>4. address' = address + ALIGN_TO_NEXT(TagAt(address).size, 8) \/ address' = address
      BY <2>1 DEF multiboot2_info_get
    <3>5. QED
      BY <1>0, <3>3, <3>4
  <2>2. CASE ~multiboot2_info_get
    <3>1. address' = address \/ address' = 8
      BY <2>2 DEF Next, Boot, CheckInfo, Measure, Place, memory_physical_initialize,
             ReserveTable, ReserveLow, ReserveKernel, Reserve, ReserveRegions,
             memory_physical_allocate, vars
    <3>2. QED
      BY <1>0, <3>1
  <2>3. QED
    BY <2>1, <2>2
<1>3. i' \in 0 .. (Len(map') + 1)
  <2>1. i' = i \/ i' = 0 \/ (More /\ i' = i + 1)
    BY DEF Next, Boot, CheckInfo, multiboot2_info_get, Measure, Loop, Place,
           memory_physical_initialize, ReserveTable, ReserveLow, ReserveKernel, Reserve,
           ReserveRegions, memory_physical_allocate, vars
  <2>2. More => i <= Len(map)
    BY MoreFacts
  <2>3. QED
    BY <1>0, <2>1, <2>2
<1>4. max_memory_address' \in 0 .. (AddressModulus - 1)
  <2>1. max_memory_address' = max_memory_address \/ max_memory_address' = End(Entry)
    BY DEF Next, Boot, CheckInfo, multiboot2_info_get, Measure, Place,
           memory_physical_initialize, ReserveTable, ReserveLow, ReserveKernel, Reserve,
           ReserveRegions, memory_physical_allocate, vars
  <2>2. End(Entry) \in Nat /\ End(Entry) < AddressModulus
    BY EntryFacts, RegionFacts
  <2>3. QED
    BY <1>0, <2>1, <2>2, Constants
<1>5. allocation_table_start' \in Nat \cup {Nowhere}
  <2>1. allocation_table_start' \in {allocation_table_start, KernelEnd, Entry.address}
    BY DEF Next, Boot, CheckInfo, multiboot2_info_get, Measure, Place,
           memory_physical_initialize, ReserveTable, ReserveLow, ReserveKernel, Reserve,
           ReserveRegions, memory_physical_allocate, vars
  <2>2. Entry.address \in Nat
    BY EntryFacts, RegionFacts
  <2>3. QED
    BY <1>0, <2>1, <2>2, Constants
<1>6. pc' \in Reserving => allocation_table' \in [Words' -> SUBSET Bits]
  <2>1. BitsInv'
    BY BitsStep
  <2>2. QED
    BY <2>1 DEF BitsInv, Bits, WordBits
<1>7. QED
  BY <1>0, <1>1, <1>2, <1>3, <1>4, <1>5, <1>6 DEF TypeOK, Reserving, Bits, WordBits, Nowhere
-----------------------------------------------------------------------------
LEMMA InitInv ==
    ASSUME Init
    PROVE  Inv
<1>1. TypeOK
  <2>1. map \in Seq(Region)
    BY BootAssumption DEF Init
  <2>2. Len(map) \in Nat
    BY <2>1
  <2>3. QED
    BY <2>2, Constants DEF Init, TypeOK
<1>2. QED
  BY <1>1, MapType DEF Inv, Init, TagInv, FindsTheMap, MeasureInv, PlaceInv, BitsInv, Placed,
                       Reserving

LEMMA InvStep ==
    ASSUME Inv, [Next]_vars
    PROVE  Inv'
BY TypeStep, TagStep, MeasureStep, PlaceStep, BitsStep DEF Inv

\* The inductive invariant: it holds whatever information, map and what is behind it
\* kernel_main meets.
THEOREM InvHolds == Spec => []Inv
BY InitInv, InvStep, PTL DEF Spec

\* The boot code keeps its variables in their types: the loops over the map stop one
\* entry behind it, the highest address is one, and the table has its words.
THEOREM TypeCorrect == Spec => []TypeOK
<1>1. Inv => TypeOK
  BY DEF Inv
<1>2. QED
  BY InvHolds, <1>1, PTL

\* multiboot2_info_get finds the first memory map before the end tag, for tags of any
\* number and size; kernel_main gives up only if there is none.
THEOREM MapFound == Spec => []FindsTheMap
<1>1. Inv => FindsTheMap
  BY DEF Inv, TagInv
<1>2. QED
  BY InvHolds, <1>1, PTL

\* The table of the page allocator is behind the kernel, and it is placed if any usable
\* region above the low memory has room for it, in every memory map.
THEOREM TableWellPlaced == Spec => []TablePlaced
<1>1. ASSUME Inv
      PROVE  TablePlaced
  <2>1. TableBehindKernel
    BY <1>1 DEF Inv, PlaceInv, TableBehindKernel
  <2>2. PlaceIfAny
    <3>1. pc = "no place" => \A k \in DOMAIN map : NoPlace(map[k])
      BY <1>1 DEF Inv, PlaceInv
    <3>2. QED
      BY <3>1 DEF PlaceIfAny, NoPlace, Regions
  <2>3. QED
    BY <2>1, <2>2 DEF TablePlaced
<1>2. QED
  BY InvHolds, <1>1, PTL
-----------------------------------------------------------------------------
\* MarkInv.  A reservation reaches all pages of its range below TableLength, unless the
\* length of the range wraps around.
LEMMA ReserveCovers ==
    ASSUME TypeOK, NEW r, r.address \in Nat, r.bytes \in Int,
           r.bytes + (r.address % PageSize) - 1 < AddressModulus,
           NEW p \in PagesOf(r), p < TableLength
    PROVE  p \in ReservedIndices(r)
<1> DEFINE A == r.address
           B == r.bytes
           f == A \div PageSize
           a == A % PageSize
           x == B + a - 1
           c == ((x % AddressModulus) \div PageSize) + 1
<1>1. /\ p \in Nat /\ (p + 1) * PageSize > A /\ p * PageSize < A + B
      /\ p \in 0 .. (TableLength - 1)
  BY SizeFacts DEF PagesOf
<1>2. f \in Nat /\ a \in 0 .. (PageSize - 1) /\ A = PageSize * f + a
  BY Constants, DivMod
<1>3. /\ PageSize \in Nat \ {0} /\ A \in Nat /\ B \in Int /\ x \in Int /\ x < AddressModulus
      /\ AddressModulus \in Nat \ {0}
  BY <1>2, Constants
<1>4. SUFFICES p >= f /\ p < f + c
  BY <1>1 DEF ReservedIndices
<1> HIDE DEF f, a, A, B
<1>5. p >= f
  <2>1. f * PageSize \in Int /\ (p + 1) * PageSize \in Int /\ f * PageSize = PageSize * f
    BY <1>1, <1>2, <1>3
  <2>2. f * PageSize < (p + 1) * PageSize
    BY <1>1, <1>2, <1>3, <2>1
  <2>3. f < p + 1
    BY <1>1, <1>2, <1>3, <2>2, TimesOrder
  <2>4. QED
    BY <1>1, <1>2, <2>3
<1>6. p - f \in Nat /\ (p - f) * PageSize <= x
  <2>1. /\ (p - f) * PageSize = p * PageSize - PageSize * f
        /\ p * PageSize \in Int /\ PageSize * f \in Int
    BY <1>1, <1>2, <1>3
  <2>2. QED
    BY <1>1, <1>2, <1>3, <1>5, <2>1
<1>7. x \in Nat /\ x % AddressModulus = x
  <2>1. (p - f) * PageSize \in Nat
    BY <1>3, <1>6
  <2>2. x \in Nat
    BY <1>3, <1>6, <2>1
  <2> HIDE DEF x
  <2>3. QED
    BY <1>3, <2>2
<1> HIDE DEF x
<1>8. p - f <= x \div PageSize
  BY <1>3, <1>6, <1>7, QuotientBound
<1>9. x \div PageSize \in Nat
  BY <1>3, <1>7, DivMod
<1>10. QED
  BY <1>1, <1>2, <1>5, <1>7, <1>8, <1>9

LEMMA ReserveMarks ==
    ASSUME TypeOK, allocation_table \in [Words -> UniformWords],
           NEW r, memory_physical_reserve(r),
           r.address \in Nat, r.bytes \in Int,
           r.bytes + (r.address % PageSize) - 1 < AddressModulus
    PROVE  MarkedIn(allocation_table', r)
BY ReserveCovers, ReserveWords DEF MarkedIn

\* What is marked stays marked.
LEMMA MarksKept ==
    ASSUME TypeOK, BitsInv, [Next]_vars, pc \in Reserving, NEW r, Marked(r)
    PROVE  MarkedIn(allocation_table', r)
<1>1. ASSUME NEW p \in PagesOf(r), p < TableLength, Low(p)
      PROVE  p % WordBits \in allocation_table'[p \div WordBits]
  <2>1. p \in 0 .. (TableLength - 1)
    BY <1>1, SizeFacts DEF PagesOf
  <2>2. p \div WordBits \in Words
    BY <2>1, WordFacts
  <2>3. p % WordBits \in allocation_table[p \div WordBits]
    BY <1>1 DEF Marked, MarkedIn
  <2>4. QED
    BY <2>2, <2>3, TableStep
<1>2. QED
  BY <1>1 DEF MarkedIn

\* None of the ranges wraps around.
LEMMA RemainderBelow ==
    ASSUME NEW a \in Nat, NEW m \in Nat \ {0}
    PROVE  a % m \in Nat /\ a % m <= a /\ a % m < m
<1> DEFINE q == a \div m
           r == a % m
<1>1. a = m * q + r /\ q \in Nat /\ r \in 0 .. (m - 1)
  BY DivMod
<1> HIDE DEF q, r
<1>2. m * q \in Nat
  BY <1>1
<1>3. r \in Nat /\ r <= a /\ r < m
  BY <1>1, <1>2
<1>4. QED
  BY <1>3 DEF r

LEMMA TableRangeFits ==
    ASSUME TypeOK, allocation_table_start \in Nat
    PROVE  allocation_table_size + (allocation_table_start % PageSize) - 1 < AddressModulus
<1> DEFINE q == max_memory_address \div PageSize
           r == max_memory_address % PageSize
           a == allocation_table_start % PageSize
           s == allocation_table_size
<1>1. /\ PageSize \in Nat \ {0} /\ AddressModulus \in Nat /\ PageSize <= AddressModulus
      /\ max_memory_address \in Nat /\ max_memory_address < AddressModulus
      /\ s \in Nat /\ s <= q
  BY Constants, MapType, SizeFacts
<1>2. q \in Nat /\ r \in Nat /\ max_memory_address = PageSize * q + r
  BY <1>1, DivMod
<1>3. a \in Nat /\ a < PageSize
  BY <1>1, RemainderBelow
<1> HIDE DEF q, r, a, s
<1>4. CASE q = 0
  BY <1>1, <1>3, <1>4 DEF s, a
<1>5. CASE q # 0
  <2>1. q - 1 \in Nat /\ PageSize - 1 \in Nat
    BY <1>1, <1>2, <1>5
  <2>2. (q - 1) * (PageSize - 1) \in Nat
    BY <2>1
  <2>3. (q - 1) * (PageSize - 1) = PageSize * q - q - PageSize + 1 /\ PageSize * q \in Nat
    BY <1>1, <1>2
  <2>4. q + PageSize <= max_memory_address + 1
    BY <1>1, <1>2, <2>2, <2>3
  <2>5. QED
    BY <1>1, <1>2, <1>3, <2>4 DEF s, a
<1>6. QED
  BY <1>4, <1>5

\* The ranges stay as they are while they are reserved.
LEMMA RangesKept ==
    ASSUME [Next]_vars, UNCHANGED <<allocation_table_start, allocation_table_size, TableLength>>
    PROVE  /\ Marked(TableRange)' <=> MarkedIn(allocation_table', TableRange)
           /\ Marked(LowRange)' <=> MarkedIn(allocation_table', LowRange)
           /\ Marked(KernelRange)' <=> MarkedIn(allocation_table', KernelRange)
           /\ \A k \in DOMAIN map :
                  Held(map[k])' <=> (map[k].type # 1 => MarkedIn(allocation_table', RangeOf(map[k])))
           /\ Reserved' = Reserved
<1>1. map' = map
  BY Given
<1>2. TableRange' = TableRange /\ LowRange' = LowRange /\ KernelRange' = KernelRange
  BY DEF TableRange, LowRange, KernelRange
<1>3. \A r : PagesOf(r)' = PagesOf(r)
  BY DEF PagesOf
<1>4. /\ PagesOf(TableRange)' = PagesOf(TableRange)
      /\ PagesOf(LowRange)' = PagesOf(LowRange)
      /\ PagesOf(KernelRange)' = PagesOf(KernelRange)
  BY <1>2 DEF PagesOf
<1>5. /\ Marked(TableRange)' <=> MarkedIn(allocation_table', TableRange)
      /\ Marked(LowRange)' <=> MarkedIn(allocation_table', LowRange)
      /\ Marked(KernelRange)' <=> MarkedIn(allocation_table', KernelRange)
  BY <1>4 DEF Marked, MarkedIn, Low
<1>6. \A k \in DOMAIN map :
          Held(map[k])' <=> (map[k].type # 1 => MarkedIn(allocation_table', RangeOf(map[k])))
  BY <1>1, <1>3 DEF Held, Marked, MarkedIn, RangeOf, Low
<1>7. Regions' = Regions
  BY <1>1 DEF Regions
<1>8. Reserved' = Reserved
  BY <1>3, <1>4, <1>7 DEF Reserved
<1>9. QED
  BY <1>5, <1>6, <1>8

LEMMA MarkStep ==
    ASSUME MapsFit, Inv, MarkInv, [Next]_vars
    PROVE  MarkInv'
<1>0. /\ TypeOK /\ BitsInv
      /\ map' = map /\ map \in Maps
      /\ Len(map) \in Nat /\ DOMAIN map = 1 .. Len(map)
      /\ \A k \in DOMAIN map : map[k] \in Region
      /\ i \in Nat
  BY MapType, Given DEF Inv, TypeOK
<1>1. CASE pc \in Reserving
  <2>1. /\ allocation_table \in [Words -> UniformWords]
        /\ UNCHANGED <<allocation_table_start, allocation_table_size, TableLength>>
    BY <1>0, <1>1, TableStep
  <2>2. /\ Marked(TableRange)' <=> MarkedIn(allocation_table', TableRange)
        /\ Marked(LowRange)' <=> MarkedIn(allocation_table', LowRange)
        /\ Marked(KernelRange)' <=> MarkedIn(allocation_table', KernelRange)
        /\ \A k \in DOMAIN map :
               Held(map[k])' <=> (map[k].type # 1 => MarkedIn(allocation_table', RangeOf(map[k])))
    BY <2>1, RangesKept
  <2>3. /\ Marked(TableRange) => Marked(TableRange)'
        /\ Marked(LowRange) => Marked(LowRange)'
        /\ Marked(KernelRange) => Marked(KernelRange)'
        /\ \A k \in DOMAIN map : Held(map[k]) => Held(map[k])'
    <3>1. \A r : Marked(r) => MarkedIn(allocation_table', r)
      BY <1>0, <1>1, MarksKept
    <3>2. QED
      BY <2>2, <3>1 DEF Held
  <2>4. CASE ReserveTable
    <3>1. pc = "reserve table" /\ pc' = "reserve low" /\ memory_physical_reserve(TableRange)
      BY <2>4 DEF ReserveTable, Reserve
    <3>2. allocation_table_start \in Nat
      BY <1>0, <3>1 DEF Inv, PlaceInv, Placed, Reserving, TypeOK
    <3>3. allocation_table_size \in Nat
      BY <1>0, SizeFacts
    <3>4. TableRange.address = allocation_table_start /\ TableRange.bytes = allocation_table_size
      BY DEF TableRange
    <3>5. MarkedIn(allocation_table', TableRange)
      <4>1. TableRange.bytes + (TableRange.address % PageSize) - 1 < AddressModulus
        BY <1>0, <3>2, <3>4, TableRangeFits
      <4>2. TableRange.address \in Nat /\ TableRange.bytes \in Int
        BY <3>2, <3>3, <3>4
      <4>3. QED
        BY <1>0, <2>1, <3>1, <4>1, <4>2, ReserveMarks
    <3>6. QED
      BY <2>2, <3>1, <3>5 DEF MarkInv, Reserving
  <2>5. CASE ReserveLow
    <3>1. pc = "reserve low" /\ pc' = "reserve kernel" /\ memory_physical_reserve(LowRange)
      BY <2>5 DEF ReserveLow, Reserve
    <3>2. LowRange.address = 0 /\ LowRange.bytes = KernelBase - 1
      BY DEF LowRange
    <3>3. 0 % PageSize = 0
      BY Constants, RemainderBelow
    <3>4. LowRange.bytes + (LowRange.address % PageSize) - 1 < AddressModulus
      BY <3>2, <3>3, Constants
    <3>5. LowRange.address \in Nat /\ LowRange.bytes \in Int
      BY <3>2, Constants
    <3>6. MarkedIn(allocation_table', LowRange)
      BY <1>0, <2>1, <3>1, <3>4, <3>5, ReserveMarks
    <3>7. QED
      BY <2>2, <2>3, <3>1, <3>6 DEF MarkInv, Reserving
  <2>6. CASE ReserveKernel
    <3>1. /\ pc = "reserve kernel" /\ pc' = "reserve regions" /\ i' = i
          /\ memory_physical_reserve(KernelRange)
      BY <2>6 DEF ReserveKernel, Reserve
    <3>2. KernelRange.address = KernelBase /\ KernelRange.bytes = KernelSize
      BY DEF KernelRange
    <3>3. KernelBase % PageSize \in Nat /\ KernelBase % PageSize <= KernelBase
      BY Constants, RemainderBelow
    <3>4. KernelBase + KernelSize <= AddressModulus
      BY Constants DEF KernelEnd
    <3>5. KernelSize + (KernelBase % PageSize) - 1 < AddressModulus
      BY <3>3, <3>4, Constants
    <3>6. MarkedIn(allocation_table', KernelRange)
      <4>1. KernelRange.bytes + (KernelRange.address % PageSize) - 1 < AddressModulus
        BY <3>2, <3>5
      <4>2. KernelRange.address \in Nat /\ KernelRange.bytes \in Int
        BY <3>2, Constants
      <4>3. QED
        BY <1>0, <2>1, <3>1, <4>1, <4>2, ReserveMarks
    <3>7. i = 0
      BY <3>1 DEF Inv, MeasureInv
    <3>8. \A k \in DOMAIN map : ~(k <= 0)
      BY <1>0
    <3>9. QED
      BY <1>0, <2>2, <2>3, <3>1, <3>6, <3>7, <3>8 DEF MarkInv, Reserving
  <2>7. CASE ReserveRegions
    <3>1. /\ pc = "reserve regions"
          /\ i <= Len(map) => pc' = "reserve regions" /\ i' = i + 1
          /\ ~(i <= Len(map)) => pc' = "cpu" /\ i' = 0
      BY <1>0, <2>7, LoopFacts DEF ReserveRegions
    <3>2. ASSUME NEW k \in DOMAIN map, k = i + 1
          PROVE  Held(map[k])'
      <4>1. SUFFICES ASSUME map[k].type # 1
                     PROVE  MarkedIn(allocation_table', RangeOf(map[k]))
        BY <2>2
      <4>2. i < Len(map) /\ i <= Len(map)
        BY <1>0, <3>2
      <4>3. Entry = map[k] /\ More
        BY <1>0, <3>2, <4>2, EntryFacts, MoreFacts
      <4>4. memory_physical_reserve(RangeOf(map[k]))
        BY <2>7, <4>1, <4>3 DEF ReserveRegions, RangeOf
      <4> DEFINE r == RangeOf(map[k])
      <4>5. r.address = map[k].address /\ r.bytes = map[k].length
        BY DEF RangeOf
      <4>6. map[k].address \in Nat /\ map[k].length \in Nat
        BY <1>0, RegionFacts
      <4>7. map[k].address + map[k].length <= AddressModulus
        BY <1>0 DEF MapsFit
      <4>8. map[k].address % PageSize \in Nat /\ map[k].address % PageSize <= map[k].address
        BY <4>6, Constants, RemainderBelow
      <4>9. map[k].length + (map[k].address % PageSize) - 1 < AddressModulus
        BY <4>6, <4>7, <4>8, Constants
      <4> HIDE DEF r
      <4>10. MarkedIn(allocation_table', r)
        BY <1>0, <2>1, <4>4, <4>5, <4>6, <4>9, ReserveMarks DEF r
      <4>11. QED
        BY <4>10 DEF r
    <3>3. \A k \in DOMAIN map : k <= i => Held(map[k])
      BY <3>1 DEF MarkInv
    <3>4. \A k \in DOMAIN map : k <= i + 1 => k <= i \/ k = i + 1
      BY <1>0
    <3>5. \A k \in DOMAIN map : k <= i + 1 => Held(map[k])'
      BY <2>3, <3>2, <3>3, <3>4
    <3>6. Marked(TableRange)' /\ Marked(LowRange)' /\ Marked(KernelRange)'
      BY <2>3, <3>1 DEF MarkInv, Reserving
    <3>7. CASE i <= Len(map)
      BY <1>0, <3>1, <3>5, <3>6, <3>7 DEF MarkInv, Reserving
    <3>8. CASE ~(i <= Len(map))
      <4>1. \A k \in DOMAIN map : k <= i + 1
        BY <1>0, <3>8
      <4>2. QED
        BY <1>0, <3>1, <3>5, <3>6, <3>8, <4>1 DEF MarkInv, Reserving
    <3>9. QED
      BY <3>7, <3>8
  <2>8. CASE pc' = pc /\ i' = i
    BY <1>0, <2>3, <2>8 DEF MarkInv, Reserving
  <2>9. QED
    BY <1>1, <2>4, <2>5, <2>6, <2>7, <2>8
       DEF Next, Boot, CheckInfo, multiboot2_info_get, Measure, Loop, Place,
           memory_physical_initialize, memory_physical_allocate, vars, Reserving
<1>2. CASE pc \notin Reserving
  <2>1. pc' \notin Reserving \ {"reserve table"}
    BY <1>2 DEF Next, Boot, CheckInfo, multiboot2_info_get, Measure, Loop, Place,
                memory_physical_initialize, ReserveTable, ReserveLow, ReserveKernel, Reserve,
                ReserveRegions, memory_physical_allocate, vars, Reserving
  <2>2. QED
    BY <2>1 DEF MarkInv, Reserving
<1>3. QED
  BY <1>1, <1>2
-----------------------------------------------------------------------------
\* TakenInv.  Only the low half of a word is ever given: the first zero bit of a word
\* whose high bits are all clear is at or below the lowest of them.
LEMMA GivenLow ==
    ASSUME NEW word \in UniformWords, NEW b \in Bits, b \notin word,
           \A c \in Bits : c < b => c \in word
    PROVE  b < HalfBits
<1>1. /\ HalfBits \in Nat \ {0} /\ Bits = 0 .. (2 * HalfBits - 1)
      /\ High = (HalfBits - 1) .. (2 * HalfBits - 1)
  BY Constants DEF Bits, High
<1>2. SUFFICES ASSUME b >= HalfBits PROVE FALSE
  BY <1>1
<1>3. b \in High /\ HalfBits - 1 \in High /\ HalfBits - 1 \in Bits /\ HalfBits - 1 < b
  BY <1>1, <1>2
<1>4. QED
  BY <1>3 DEF UniformWords, Uniform

LEMMA TakenStep ==
    ASSUME Inv, MarkInv, TakenInv, [Next]_vars
    PROVE  TakenInv'
<1>0. TypeOK /\ BitsInv
  BY DEF Inv
<1>1. CASE memory_physical_allocate
  <2>1. pc = "cpu" /\ pc' = "cpu" /\ pc \in Reserving
    BY <1>1 DEF memory_physical_allocate, Reserving
  <2>2. /\ allocation_table \in [Words -> UniformWords]
        /\ UNCHANGED <<allocation_table_start, allocation_table_size, TableLength>>
    BY <1>0, <2>1, TableStep
  <2>3. Reserved' = Reserved
    BY <2>2, RangesKept
  <2>4. PICK w \in Words : \E b \in Bits :
            /\ b \notin allocation_table[w]
            /\ \A c \in Bits : c < b => c \in allocation_table[w]
            /\ taken' = taken \cup {w * WordBits + b}
    BY <1>0, <1>1, <2>2, AllocateWords
  <2>5. PICK b \in Bits :
            /\ b \notin allocation_table[w]
            /\ \A c \in Bits : c < b => c \in allocation_table[w]
            /\ taken' = taken \cup {w * WordBits + b}
    BY <2>4
  <2>6. b < HalfBits
    BY <2>2, <2>5, GivenLow
  <2> DEFINE p == w * WordBits + b
  <2>7. p \div WordBits = w /\ p % WordBits = b
    <3>1. w \in Int /\ b \in 0 .. (WordBits - 1) /\ WordBits \in Nat \ {0}
      BY <1>0, SizeFacts, Constants DEF Words, Bits
    <3>2. QED
      BY <3>1, Quotient
  <2> HIDE DEF p
  <2>8. \A r : Marked(r) /\ p < TableLength => p \notin PagesOf(r)
    BY <2>5, <2>6, <2>7 DEF Marked, MarkedIn, Low
  <2>9. /\ Marked(TableRange) /\ Marked(LowRange) /\ Marked(KernelRange)
        /\ \A k \in DOMAIN map : Held(map[k])
    BY <2>1 DEF MarkInv, Reserving
  <2>10. p < TableLength => p \notin Reserved
    <3>1. SUFFICES ASSUME p < TableLength, p \in Reserved PROVE FALSE
      OBVIOUS
    <3>2. PICK s \in Regions : s.type # 1 /\ p \in PagesOf([address |-> s.address, bytes |-> s.length])
      BY <2>8, <2>9, <3>1 DEF Reserved
    <3>3. PICK k \in DOMAIN map : s = map[k]
      BY DEF Regions
    <3>4. Marked(RangeOf(s))
      BY <2>9, <3>2, <3>3 DEF Held
    <3>5. QED
      BY <2>8, <3>1, <3>2, <3>4 DEF RangeOf
  <2>11. taken' = taken \cup {p}
    BY <2>5 DEF p
  <2>12. QED
    BY <2>1, <2>2, <2>3, <2>10, <2>11 DEF TakenInv, ReservedKept
<1>2. CASE ~memory_physical_allocate
  <2>1. taken' = taken
    BY <1>2 DEF Next, Boot, CheckInfo, multiboot2_info_get, Measure, Place,
                memory_physical_initialize, ReserveTable, ReserveLow, ReserveKernel, Reserve,
                ReserveRegions, vars, memory
  <2>2. CASE taken = {}
    BY <2>1, <2>2 DEF TakenInv, ReservedKept
  <2>3. CASE taken # {}
    <3>1. pc = "cpu" /\ pc \in Reserving
      BY <2>3 DEF TakenInv, Reserving
    <3>2. pc' = "cpu"
      BY <1>2, <3>1 DEF Next, Boot, CheckInfo, multiboot2_info_get, Measure, Loop, Place,
                memory_physical_initialize, ReserveTable, ReserveLow, ReserveKernel, Reserve,
                ReserveRegions, vars
    <3>3. UNCHANGED <<allocation_table_start, allocation_table_size, TableLength>>
      BY <1>0, <3>1, TableStep
    <3>4. Reserved' = Reserved
      BY <3>3, RangesKept
    <3>5. QED
      BY <2>1, <3>2, <3>3, <3>4 DEF TakenInv, ReservedKept
  <2>4. QED
    BY <2>2, <2>3
<1>3. QED
  BY <1>1, <1>2

\* No page of the kernel, of the low memory, of the table and of an unusable region is
\* ever given by memory_physical_allocate, as far as memory_physical_reserve goes (the
\* pages below TableLength), if no region of the map wraps around.
THEOREM ReservedStay ==
    ASSUME MapsFit
    PROVE  Spec => []ReservedKept
<1>1. ASSUME Init PROVE Inv /\ MarkInv /\ TakenInv
  BY <1>1, InitInv DEF Init, MarkInv, TakenInv, ReservedKept, Reserving
<1>2. ASSUME Inv, MarkInv, TakenInv, [Next]_vars PROVE (Inv /\ MarkInv /\ TakenInv)'
  BY <1>2, InvStep, MarkStep, TakenStep
<1>3. TakenInv => ReservedKept
  BY DEF TakenInv
<1>4. QED
  BY <1>1, <1>2, <1>3, PTL DEF Spec
=============================================================================
