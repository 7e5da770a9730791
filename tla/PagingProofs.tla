---------------------------- MODULE PagingProofs ----------------------------
(***************************************************************************)
(* Proofs about Paging, for tables of any size and any plans of the kind   *)
(* the kernel makes (KernelPlan), while the end of the virtual address     *)
(* space is not reached (Room).                                            *)
(***************************************************************************)
EXTENDS Paging, FiniteSetTheorems, TLAPS

\* A virtual page is a number; its digits are the indices of the four levels.
Vectors   == [Levels -> Slots]
Num(I)    == I[1] + I[2] * Span(2) + I[3] * Span(3) + I[4] * Span(4)
Digits(v) == [k \in Levels |-> (v \div Span(k)) % TableEntries]
Agree(I, J, k) == \A j \in k .. 4 : I[j] = J[j]
Zero(I, k) == [j \in Levels |-> IF j <= k THEN 0 ELSE I[j]]

\* The entries of each level that are found along the indices I in the tables m.
Get(m, t, s) == IF t \in DOMAIN m THEN m[t][s] ELSE Null
F4(m, I) == Get(m, FirstFrame, I[4])
F3(m, I) == Get(m, F4(m, I).at, I[3])
F2(m, I) == IF F3(m, I).size THEN F3(m, I) ELSE Get(m, F3(m, I).at, I[2])
F1(m, I) == IF F2(m, I).size THEN F2(m, I) ELSE Get(m, F2(m, I).at, I[1])

\* There are tables along I down to level k.
On(m, I, k) == /\ k <= 3 => F4(m, I) # Null
               /\ k <= 2 => F3(m, I) # Null /\ ~F3(m, I).size
               /\ k <= 1 => F2(m, I) # Null /\ ~F2(m, I).size
-----------------------------------------------------------------------------
\* The size of the pages in a level 4 entry: that of the call at start up that uses
\* it.  The cursor moves through the entries behind those.
Kind(p, s) == IF s \in BootSlots(p)
              THEN CHOOSE k \in 1 .. 3 : \E i \in DOMAIN p.boot :
                      SlotOf(p.boot[i]) = s /\ p.boot[i].level = k
              ELSE 1
Clear(p, s) == s \notin BootSlots(p) /\ \A b \in BootSlots(p) : b < s
-----------------------------------------------------------------------------
\* The tables m are a tree: each has a level, the indices up
\* that lead to it, and the table par that selects it.
IsLeaf(e, k) == e.present /\ e.size = (k > 1)
IsLink(e, m) == e = Link(e.at) /\ e.at \in DOMAIN m
EntryOK(p, m, lev, up, par, f, s) ==
    LET e == m[f][s]
        k == Kind(p, IF lev[f] = 4 THEN s ELSE up[f][4])
    IN  /\ k <= lev[f]
        /\ \/ e = Null
           \/ /\ k < lev[f] /\ IsLink(e, m)
              /\ lev[e.at] = lev[f] - 1 /\ par[e.at] = f
              /\ up[e.at][lev[f]] = s /\ \A j \in (lev[f] + 1) .. 4 : up[e.at][j] = up[f][j]
           \/ k = lev[f] /\ IsLeaf(e, k)
TreeAt(p, m, lev, up, par) ==
    /\ lev \in [DOMAIN m -> Levels] /\ up \in [DOMAIN m -> Vectors]
    /\ FirstFrame \in DOMAIN m /\ lev[FirstFrame] = 4
    /\ \A f \in DOMAIN m : \A s \in Slots : EntryOK(p, m, lev, up, par, f, s)
Tree(p, m) == \E lev, up, par : TreeAt(p, m, lev, up, par)

\* The types of tables and walks.
IsMem(m, b) == /\ b \in Nat /\ DOMAIN m \subseteq FirstFrame .. (b - 1)
               /\ m \in [DOMAIN m -> [Slots -> EntryType]]
IsWalk(w) ==
    /\ w = [idx |-> w.idx, tab |-> w.tab, mem |-> w.mem, brk |-> w.brk, wild |-> w.wild]
    /\ w.idx \in [Levels -> 0 .. TableEntries] /\ w.tab \in [Levels -> Nat]
    /\ IsMem(w.mem, w.brk)
    /\ w.wild \in BOOLEAN

\* The tables of the walk w, down to level k, are those its indices select.
OnPath(w, k) == /\ w.idx \in Vectors /\ w.tab[4] = FirstFrame
                /\ On(w.mem, w.idx, k)
                /\ k <= 3 => w.tab[3] = F4(w.mem, w.idx).at
                /\ k <= 2 => w.tab[2] = F3(w.mem, w.idx).at
                /\ k <= 1 => w.tab[1] = F2(w.mem, w.idx).at

\* The cursor.  Nothing is mapped ahead of it, except at start up.
Ahead(p, m, v) == \A I \in Vectors : Num(I) >= v /\ Clear(p, I[4]) => F1(m, I) = Null
Fresh(w) == /\ w.idx \in Vectors /\ w.tab[4] = FirstFrame
            /\ \A k \in 1 .. 3 : w.tab[k] = 0 /\ w.idx[k] = 0
Placed(p, w) == OnPath(w, 1) /\ Clear(p, w.idx[4]) /\ Ahead(p, w.mem, Num(w.idx))
Cur(p, w) == (Fresh(w) /\ Ahead(p, w.mem, 0)) \/ Placed(p, w)
AtContext == [walk EXCEPT !.idx = context.idx, !.tab = context.tab]
-----------------------------------------------------------------------------
\* Nothing is mapped from page v up to page u.
Free(m, v, u) == \A I \in Vectors : v <= Num(I) /\ Num(I) < u => F1(m, I) = Null

\* The calls of start up that were made have their level 4 entry; what the others
\* will map is free.
BootOK(p, m, b) ==
    /\ \A i \in 1 .. b : F4(m, Digits(First(p.boot[i]))) # Null
    /\ \A i \in (b + 1) .. Len(p.boot) : Free(m, First(p.boot[i]), Past(p.boot[i]))

\* A region r as it is in the tables: all its pages are mapped, at its frames, and
\* there are tables for the page behind it.
KindOf(p, r)  == Kind(p, r.va \div Size(4))
FirstOf(r)    == r.va \div PageSize
PastOf(p, r)  == FirstOf(r) + Pages(r.bytes, KindOf(p, r)) * Span(KindOf(p, r))
Within(I, v, u) == v <= Num(I) /\ Num(I) < u
Holds(p, m, I, k, f) == LET e == F1(m, I) IN
    e # Null /\ Kind(p, I[4]) = k /\ e.at + (Num(I) % Span(k)) = f

Framed(p, r) == /\ r.va = FirstOf(r) * PageSize /\ r.va % Size(KindOf(p, r)) = 0
                /\ PastOf(p, r) \in AllPages
                /\ r.bytes > 0 /\ r.bytes <= Modulus
                /\ Len(r.frames) = Pages(r.bytes, 1)
Tabled(p, m, r) == \A I \in Vectors : Num(I) = PastOf(p, r) =>
                      On(m, I, KindOf(p, r)) /\ Kind(p, I[4]) = KindOf(p, r)
Backed(p, m, r) == \A I \in Vectors : Within(I, FirstOf(r), PastOf(p, r)) =>
    /\ F1(m, I) # Null /\ Kind(p, I[4]) = KindOf(p, r)
    /\ Num(I) - FirstOf(r) < Len(r.frames) =>
          F1(m, I).at + (Num(I) % Span(KindOf(p, r))) = r.frames[Num(I) - FirstOf(r) + 1]
Disjoint(p, q, r) == PastOf(p, q) <= FirstOf(r) \/ PastOf(p, r) <= FirstOf(q)
-----------------------------------------------------------------------------
CallInv ==
    /\ pc = "idle" => call = NoCall
    /\ pc \in {"idle", "find", "map"} => count = 0 /\ frames = <<>>
    /\ pc # "idle" /\ AtCursor(call) =>
          call \in plan.calls /\ booted = Len(plan.boot) /\ call.bytes > 0
    /\ pc \in {"map", "page"} /\ ~AtCursor(call) =>
          booted > 0 /\ call = plan.boot[booted] /\ call.va % Size(call.level) = 0
    /\ pc = "find" => AtCursor(call)
    /\ pc = "unmap" => call.op = "unmap" /\ booted = Len(plan.boot)

ContextInv == ~AtCursor(call) => Cur(plan, AtContext)

FindInv == pc = "find" =>
    LET k == SpotLevel(walk, call) IN
    \/ k = 3 /\ Fresh(walk) /\ Ahead(plan, walk.mem, 0)
    \/ /\ \A j \in 1 .. 3 : walk.tab[j] # 0
       /\ Clear(plan, walk.idx[4])
       /\ OnPath(walk, k + 1)
       /\ \/ OnPath(walk, 1) /\ Ahead(plan, walk.mem, Num(walk.idx))
          \/ Ahead(plan, walk.mem, Num(Zero(walk.idx, k)))

MapInv == pc = "map" =>
    IF AtCursor(call) THEN Placed(plan, walk)
    ELSE /\ OnPath(walk, call.level) /\ walk.idx = Digits(First(call))
         /\ Free(walk.mem, First(call), Past(call))

\* The frame of the page i of a call.
FrameFor(c, fs, i) == IF Physical(c) THEN c.pa \div PageSize + i ELSE fs[i + 1]

\* The loop over entries of level k that starts at page a is at its entry count.
AtEntry(w, k, a, i) == /\ OnPath(w, k)
                       /\ \A j \in 1 .. (k - 1) : w.idx[j] = 0
                       /\ Num(w.idx) = a + i * Span(k)

PageInv == pc = "page" =>
    LET k == call.level
        a == address \div PageSize
    IN  /\ address = a * PageSize
        /\ AtEntry(walk, k, a, count)
        /\ Kind(plan, walk.idx[4]) = k
        /\ count < Pages(call.bytes, k)
        /\ Physical(call) => call.pa % Size(k) = 0
        /\ ~Physical(call) => k = 1 /\ Len(frames) = count
        /\ IF AtCursor(call) THEN Clear(plan, Digits(a)[4]) /\ Placed(plan, walk)
           ELSE a = First(call) /\ Free(walk.mem, Num(walk.idx), Past(call))
        /\ \A I \in Vectors : Within(I, a, Num(walk.idx)) =>
              Holds(plan, walk.mem, I, k, FrameFor(call, frames, Num(I) - a))
        /\ \A r \in regions : PastOf(plan, r) <= a \/ Num(walk.idx) <= FirstOf(r)

RegionInv ==
    /\ \A r \in regions : Framed(plan, r) /\ Tabled(plan, walk.mem, r)
    /\ \A r \in regions : (pc = "unmap" => r.va # call.va) => Backed(plan, walk.mem, r)
    /\ \A q, r \in regions : q # r => Disjoint(plan, q, r)

UnmapInv == pc = "unmap" =>
    \E r \in regions : LET k == call.level IN
        /\ r.va = call.va /\ r.bytes = call.bytes /\ KindOf(plan, r) = k
        /\ count < Pages(r.bytes, k)
        /\ AtEntry(walk, k, FirstOf(r), count)
        /\ Free(walk.mem, FirstOf(r), Num(walk.idx))
        /\ \A I \in Vectors : Within(I, FirstOf(r), PastOf(plan, r)) =>
              /\ Kind(plan, I[4]) = k
              /\ Num(walk.idx) <= Num(I) => F1(walk.mem, I) # Null

Count(m) == Cardinality({v \in AllPages : F1(m, Digits(v)) # Null})
UsedInv == used_virtual_pages = CASE pc = "page"  -> Count(walk.mem) - count * Span(call.level)
                                  [] pc = "unmap" -> Count(walk.mem) + count * Span(call.level)
                                  [] OTHER        -> Count(walk.mem)

\* The frames of paging_map and paging_map_at are not those of tables.
Unshared(w, fs) == \A i \in DOMAIN fs : fs[i] < w.brk /\ fs[i] \notin DOMAIN w.mem
FramesInv == Unshared(walk, frames) /\ \A r \in regions : r.physical \/ Unshared(walk, r.frames)
-----------------------------------------------------------------------------
\* Arithmetic that the provers do not find inside larger steps.
LEMMA Quotient ==
    ASSUME NEW m \in Nat \ {0}, NEW q \in Int, NEW r \in 0 .. (m - 1), NEW a, a = q * m + r
    PROVE  a \div m = q /\ a % m = r
OBVIOUS

LEMMA DivMod ==
    ASSUME NEW a \in Nat, NEW m \in Nat \ {0}
    PROVE  /\ a \div m \in Nat /\ a % m \in 0 .. (m - 1)
           /\ a = (a \div m) * m + (a % m)
OBVIOUS

LEMMA Successor ==
    ASSUME NEW c \in Nat, NEW m \in Nat
    PROVE  (c + 1) * m = c * m + m /\ c * m \in Nat /\ (c + 1) * m \in Nat
OBVIOUS

LEMMA TimesMonotone ==
    ASSUME NEW a \in Nat, NEW b \in Nat, NEW m \in Nat, a <= b
    PROVE  a * m <= b * m
<1>1. b * m = a * m + (b - a) * m /\ (b - a) * m \in Nat /\ a * m \in Nat
  OBVIOUS
<1>2. QED
  BY <1>1

LEMMA Sizes ==
    /\ TableEntries \in Nat \ {0, 1} /\ PageSize \in Nat \ {0} /\ Modulus \in Nat \ {0}
    /\ FirstFrame \in Nat \ {0}
    /\ Levels = {1, 2, 3, 4}
    /\ Slots = 0 .. (TableEntries - 1)
BY PagingAssumption DEF Levels, Slots

\* An entry of a level covers TableEntries times what one of the level below does.
LEMMA Spans ==
    /\ Span(1) = 1 /\ Span(2) = TableEntries /\ Span(3) = TableEntries * TableEntries
    /\ Span(4) = TableEntries * TableEntries * TableEntries
    /\ \A k \in Levels : Span(k) \in Nat \ {0}
    /\ \A k \in 1 .. 3 : Span(k + 1) = TableEntries * Span(k) /\ Span(k) < Span(k + 1)
<1> DEFINE N == TableEntries
<1>1. N \in Nat /\ N >= 2
  BY Sizes
<1> HIDE DEF N
<1>2. /\ N * N \in Nat /\ N * N >= 2 * N
      /\ N * N * N \in Nat /\ N * N * N >= 2 * (N * N)
  <2>1. N * N \in Nat /\ N * N >= 2 * N
    BY <1>1, TimesMonotone
  <2>2. N * N * N \in Nat /\ N * (N * N) >= 2 * (N * N) /\ N * N * N = N * (N * N)
    BY <1>1, <2>1, TimesMonotone
  <2>3. QED
    BY <2>1, <2>2
<1>3. /\ Span(1) = 1 /\ Span(2) = N /\ Span(3) = N * N /\ Span(4) = N * N * N
  BY DEF Span, N
<1>4. Span(1) \in Nat \ {0} /\ Span(2) \in Nat \ {0} /\ Span(3) \in Nat \ {0} /\ Span(4) \in Nat \ {0}
  BY <1>1, <1>2, <1>3
<1>5. \A k \in Levels : Span(k) \in Nat \ {0}
  BY <1>4, Sizes
<1>6. /\ Span(2) = N * Span(1) /\ Span(1) < Span(2)
      /\ Span(3) = N * Span(2) /\ Span(2) < Span(3)
      /\ Span(4) = N * Span(3) /\ Span(3) < Span(4)
  BY <1>1, <1>2, <1>3
<1>7. \A k \in 1 .. 3 : Span(k + 1) = N * Span(k) /\ Span(k) < Span(k + 1)
  <2> SUFFICES ASSUME NEW k \in 1 .. 3 PROVE Span(k + 1) = N * Span(k) /\ Span(k) < Span(k + 1)
    OBVIOUS
  <2>1. CASE k = 1
    BY <2>1, <1>6
  <2>2. CASE k = 2
    BY <2>2, <1>6
  <2>3. CASE k = 3
    BY <2>3, <1>6
  <2>4. QED
    BY <2>1, <2>2, <2>3
<1>8. QED
  BY <1>3, <1>5, <1>7 DEF N

LEMMA VectorElements ==
    ASSUME NEW I \in Vectors
    PROVE  /\ I[1] \in Slots /\ I[2] \in Slots /\ I[3] \in Slots /\ I[4] \in Slots
           /\ \A k \in Levels : I[k] \in 0 .. (TableEntries - 1) /\ I[k] \in Nat
BY Sizes DEF Vectors

LEMMA SameVectors ==
    ASSUME NEW I \in Vectors, NEW J \in Vectors, I[1] = J[1], I[2] = J[2], I[3] = J[3], I[4] = J[4]
    PROVE  I = J
BY Sizes DEF Vectors

\* A vector is a number with TableEntries as its base.
LEMMA Upper ==
    ASSUME NEW I \in Vectors
    PROVE  /\ I[3] + I[4] * TableEntries \in Nat
           /\ I[2] + (I[3] + I[4] * TableEntries) * TableEntries \in Nat
           /\ Num(I) = I[1] + (I[2] + (I[3] + I[4] * TableEntries) * TableEntries) * TableEntries
           /\ Num(I) = (I[2] + (I[3] + I[4] * TableEntries) * TableEntries) * Span(2) + I[1]
           /\ Num(I) = (I[3] + I[4] * TableEntries) * Span(3) + (I[1] + I[2] * Span(2))
           /\ Num(I) = I[4] * Span(4) + (I[1] + I[2] * Span(2) + I[3] * Span(3))
           /\ I[1] + I[2] * Span(2) \in 0 .. (Span(3) - 1)
           /\ I[1] + I[2] * Span(2) + I[3] * Span(3) \in 0 .. (Span(4) - 1)
           /\ Num(I) \in 0 .. (TableEntries * Span(4) - 1)
<1> DEFINE N == TableEntries
           a == I[1]
           b == I[2]
           c == I[3]
           d == I[4]
<1>1. /\ N \in Nat /\ N >= 2 /\ a \in 0 .. (N - 1) /\ b \in 0 .. (N - 1)
      /\ c \in 0 .. (N - 1) /\ d \in 0 .. (N - 1)
  BY Sizes, VectorElements
<1>2. Span(2) = N /\ Span(3) = N * N /\ Span(4) = N * N * N
  BY Spans
<1>3. Num(I) = a + b * N + c * (N * N) + d * (N * N * N)
  BY <1>2 DEF Num
<1> HIDE DEF N, a, b, c, d
<1>4. c + d * N \in Nat /\ b + (c + d * N) * N \in Nat
  BY <1>1
<1>5. /\ a + b * N + c * (N * N) + d * (N * N * N) = a + (b + (c + d * N) * N) * N
      /\ a + b * N + c * (N * N) + d * (N * N * N) = (c + d * N) * (N * N) + (a + b * N)
  BY <1>1
<1>6. a + b * N \in 0 .. (N * N - 1)
  <2>1. b * N <= (N - 1) * N /\ b * N \in Nat
    BY <1>1, TimesMonotone
  <2>2. (N - 1) * N = N * N - N /\ N * N \in Nat
    BY <1>1
  <2>3. QED
    BY <2>1, <2>2, <1>1
<1>7. a + b * N + c * (N * N) \in 0 .. (N * N * N - 1)
  <2>1. c * (N * N) <= (N - 1) * (N * N) /\ c * (N * N) \in Nat /\ N * N \in Nat
    BY <1>1, TimesMonotone
  <2>2. (N - 1) * (N * N) = N * N * N - N * N /\ N * N * N \in Nat
    BY <1>1
  <2>3. QED
    BY <2>1, <2>2, <1>6
<1>8. a + b * N + c * (N * N) + d * (N * N * N) \in 0 .. (N * (N * N * N) - 1)
  <2>1. d * (N * N * N) <= (N - 1) * (N * N * N) /\ d * (N * N * N) \in Nat /\ N * N * N \in Nat
    BY <1>1, TimesMonotone
  <2>2. (N - 1) * (N * N * N) = N * (N * N * N) - N * N * N /\ N * (N * N * N) \in Nat
    BY <1>1
  <2>3. QED
    BY <2>1, <2>2, <1>7
<1>9. QED
  <2>1. d * (N * N * N) \in Nat /\ c * (N * N) \in Nat /\ b * N \in Nat
    BY <1>1
  <2>2. QED
    BY <1>1, <1>2, <1>3, <1>4, <1>5, <1>6, <1>7, <1>8, <2>1 DEF N, a, b, c, d

\* Pages and vectors of indices are the same thing.
LEMMA DigitsOfNum ==
    ASSUME NEW I \in Vectors
    PROVE  Digits(Num(I)) = I
<1> DEFINE N == TableEntries
           v == Num(I)
           a == I[1]
           b == I[2]
           c == I[3]
           d == I[4]
           S3 == Span(3)
           S4 == Span(4)
           u2 == c + d * N
           u1 == b + u2 * N
           l2 == a + b * Span(2)
           l3 == l2 + c * S3
<1>1. /\ N \in Nat \ {0, 1} /\ a \in 0 .. (N - 1) /\ b \in 0 .. (N - 1)
      /\ c \in 0 .. (N - 1) /\ d \in 0 .. (N - 1)
  BY Sizes, VectorElements
<1>2. /\ u1 \in Nat /\ u2 \in Nat /\ v \in Nat
      /\ v = u1 * N + a
      /\ v = u2 * S3 + l2
      /\ v = d * S4 + l3
      /\ l2 \in 0 .. (S3 - 1)
      /\ l3 \in 0 .. (S4 - 1)
  BY Upper, Spans
<1>3. Span(1) = 1 /\ Span(2) = N /\ S3 \in Nat \ {0} /\ S4 \in Nat \ {0}
  BY Spans, Sizes
<1>4. u1 = u2 * N + b /\ u2 = d * N + c
  BY <1>1, <1>2
<1> HIDE DEF u1, u2, l2, l3, N, v, a, b, c, d, S3, S4
<1>5. v \div Span(1) = v /\ v % N = a
  <2>1. v \div N = u1 /\ v % N = a
    <3>1. N \in Nat \ {0} /\ u1 \in Int /\ a \in 0 .. (N - 1) /\ v = u1 * N + a
      BY <1>1, <1>2
    <3>2. QED
      BY ONLY <3>1, Quotient
  <2>2. QED
    BY <2>1, <1>2, <1>3
<1>6. v \div Span(2) = u1 /\ u1 % N = b
  <2>1. v \div N = u1 /\ v % N = a
    <3>1. N \in Nat \ {0} /\ u1 \in Int /\ a \in 0 .. (N - 1) /\ v = u1 * N + a
      BY <1>1, <1>2
    <3>2. QED
      BY ONLY <3>1, Quotient
  <2>2. u1 \div N = u2 /\ u1 % N = b
    <3>1. N \in Nat \ {0} /\ u2 \in Int /\ b \in 0 .. (N - 1) /\ u1 = u2 * N + b
      BY <1>1, <1>2, <1>4
    <3>2. QED
      BY ONLY <3>1, Quotient
  <2>3. QED
    BY <2>1, <2>2, <1>3
<1>7. v \div S3 = u2 /\ u2 % N = c
  <2>1. v \div S3 = u2 /\ v % S3 = l2
    <3>1. S3 \in Nat \ {0} /\ u2 \in Int /\ l2 \in 0 .. (S3 - 1) /\ v = u2 * S3 + l2
      BY <1>2, <1>3
    <3>2. QED
      BY ONLY <3>1, Quotient
  <2>2. u2 \div N = d /\ u2 % N = c
    <3>1. N \in Nat \ {0} /\ d \in Int /\ c \in 0 .. (N - 1) /\ u2 = d * N + c
      BY <1>1, <1>4
    <3>2. QED
      BY ONLY <3>1, Quotient
  <2>3. QED
    BY <2>1, <2>2
<1>8. v \div S4 = d /\ d % N = d
  <2>1. v \div S4 = d /\ v % S4 = l3
    <3>1. S4 \in Nat \ {0} /\ d \in Int /\ l3 \in 0 .. (S4 - 1) /\ v = d * S4 + l3
      BY <1>1, <1>2, <1>3
    <3>2. QED
      BY ONLY <3>1, Quotient
  <2>2. QED
    BY ONLY <2>1, <1>1
<1>9. Digits(v) \in Vectors
  <2>1. \A k \in Levels : (v \div Span(k)) % N \in Slots
    BY <1>1, <1>5, <1>6, <1>7, <1>8, Sizes DEF N, S3, S4
  <2>2. QED
    BY <2>1 DEF Digits, Vectors, N
<1>10. Digits(v)[1] = a /\ Digits(v)[2] = b /\ Digits(v)[3] = c /\ Digits(v)[4] = d
  BY <1>5, <1>6, <1>7, <1>8, Sizes DEF Digits, N, S3, S4
<1>11. QED
  BY <1>9, <1>10, SameVectors DEF v, a, b, c, d

LEMMA NumOfDigits ==
    ASSUME NEW v \in AllPages
    PROVE  Digits(v) \in Vectors /\ Num(Digits(v)) = v
<1> DEFINE N == TableEntries
           q1 == v \div N
           q2 == q1 \div N
           q3 == q2 \div N
           I  == [k \in Levels |-> CASE k = 1 -> v % N [] k = 2 -> q1 % N
                                     [] k = 3 -> q2 % N [] k = 4 -> q3]
<1>1. N \in Nat \ {0, 1} /\ v \in Nat /\ v < N * (N * N * N)
  BY Sizes, Spans DEF AllPages
<1>2. /\ q1 \in Nat /\ v % N \in 0 .. (N - 1) /\ v = q1 * N + (v % N)
      /\ q2 \in Nat /\ q1 % N \in 0 .. (N - 1) /\ q1 = q2 * N + (q1 % N)
      /\ q3 \in Nat /\ q2 % N \in 0 .. (N - 1) /\ q2 = q3 * N + (q2 % N)
  <2>1. q1 \in Nat /\ v % N \in 0 .. (N - 1) /\ v = q1 * N + (v % N)
    BY <1>1, DivMod
  <2>2. q2 \in Nat /\ q1 % N \in 0 .. (N - 1) /\ q1 = q2 * N + (q1 % N)
    BY <1>1, <2>1, DivMod
  <2>3. q3 \in Nat /\ q2 % N \in 0 .. (N - 1) /\ q2 = q3 * N + (q2 % N)
    BY <1>1, <2>2, DivMod
  <2>4. QED
    BY <2>1, <2>2, <2>3
<1>3. I[1] = v % N /\ I[2] = q1 % N /\ I[3] = q2 % N /\ I[4] = q3
  BY Sizes
<1> HIDE DEF q1, q2, q3, N
<1>4. q3 \in 0 .. (N - 1)
  <2>1. SUFFICES ASSUME q3 >= N PROVE FALSE
    BY <1>1, <1>2
  <2>2. q2 >= N * N
    <3>1. q3 * N >= N * N
      BY <1>1, <1>2, <2>1, TimesMonotone
    <3>2. QED
      BY <1>1, <1>2, <3>1
  <2>3. q1 >= N * N * N
    <3>1. q2 * N >= N * N * N
      BY <1>1, <1>2, <2>2, TimesMonotone
    <3>2. QED
      BY <1>1, <1>2, <3>1
  <2>4. q1 * N >= N * (N * N * N)
    <3>1. q1 * N >= N * N * N * N
      BY <1>1, <1>2, <2>3, TimesMonotone
    <3>2. QED
      BY <1>1, <3>1
  <2>5. QED
    BY <1>1, <1>2, <2>4
<1>5. I \in Vectors
  BY <1>2, <1>4, Sizes DEF Vectors, N
<1>6. Num(I) = v
  <2> HIDE DEF I
  <2>1. Num(I) = I[1] + (I[2] + (I[3] + I[4] * N) * N) * N
    BY <1>5, Upper DEF N
  <2>2. I[3] + I[4] * N = q2
    BY <1>1, <1>2, <1>3
  <2>3. I[2] + q2 * N = q1
    BY <1>1, <1>2, <1>3
  <2>4. I[1] + q1 * N = v
    BY <1>1, <1>2, <1>3
  <2>5. QED
    BY <2>1, <2>2, <2>3, <2>4
<1>7. Digits(v) = I
  BY <1>5, <1>6, DigitsOfNum
<1>8. QED
  BY <1>5, <1>6, <1>7

\* The vector behind the one at level k.
After(w, k) == [j \in Levels |-> IF j < k \/ j > Carry(w, k) THEN w.idx[j]
                                 ELSE IF j = Carry(w, k) THEN w.idx[j] + 1 ELSE 0]

\* Carry is the level at which ++index ends: those below it are at their last entry.
LEMMA CarryFacts ==
    ASSUME NEW w, NEW k \in Levels, w.idx \in [Levels -> Nat]
    PROVE  /\ Carry(w, k) \in k .. 5
           /\ Carry(w, k) <= 4 => w.idx[Carry(w, k)] + 1 < TableEntries
           /\ \A j \in k .. (Carry(w, k) - 1) : w.idx[j] + 1 >= TableEntries
<1> DEFINE P(m) == /\ w.idx[m] + 1 < TableEntries
                   /\ \A j \in k .. (m - 1) : w.idx[j] + 1 >= TableEntries
<1>1. k \in 1 .. 4 /\ TableEntries \in Nat /\ \A j \in 1 .. 4 : w.idx[j] \in Nat
  BY Sizes DEF Levels
<1>2. CASE \E m \in k .. 4 : w.idx[m] + 1 < TableEntries
  <2>1. \E m \in k .. 4 : P(m)
    <3>1. PICK m \in k .. 4 : w.idx[m] + 1 < TableEntries
      BY <1>2
    <3>2. m \in {1, 2, 3, 4} /\ k \in {1, 2, 3, 4}
      BY <1>1
    <3>3. CASE k = 4
      BY <3>1, <3>3
    <3>4. CASE k = 3
      <4>1. P(3) \/ P(4)
        BY <1>1, <3>1, <3>4
      <4>2. QED
        BY <4>1, <3>4
    <3>5. CASE k = 2
      <4>1. P(2) \/ P(3) \/ P(4)
        BY <1>1, <3>1, <3>5
      <4>2. QED
        BY <4>1, <3>5
    <3>6. CASE k = 1
      <4>1. P(1) \/ P(2) \/ P(3) \/ P(4)
        BY <1>1, <3>1, <3>6
      <4>2. QED
        BY <4>1, <3>6
    <3>7. QED
      BY <3>2, <3>3, <3>4, <3>5, <3>6
  <2>2. Carry(w, k) = CHOOSE m \in k .. 4 : P(m)
    BY <1>2 DEF Carry
  <2>3. Carry(w, k) \in k .. 4 /\ P(Carry(w, k))
    BY <2>1, <2>2
  <2>4. QED
    BY <2>3, <1>1
<1>3. CASE ~ \E m \in k .. 4 : w.idx[m] + 1 < TableEntries
  <2>1. Carry(w, k) = 5
    BY <1>3 DEF Carry
  <2>2. QED
    BY <1>1, <1>3, <2>1
<1>4. QED
  BY <1>2, <1>3

\* Going to the next entry of level k is adding what an entry covers.
LEMMA AfterFacts ==
    ASSUME NEW w, NEW k \in Levels, w.idx \in Vectors, Carry(w, k) <= 4
    PROVE  After(w, k) \in Vectors /\ Num(After(w, k)) = Num(w.idx) + Span(k)
<1> DEFINE N == TableEntries
           I == w.idx
           J == After(w, k)
           c == Carry(w, k)
<1>1. /\ N \in Nat /\ N >= 2 /\ I[1] \in 0 .. (N - 1) /\ I[2] \in 0 .. (N - 1)
      /\ I[3] \in 0 .. (N - 1) /\ I[4] \in 0 .. (N - 1)
  BY Sizes, VectorElements
<1>2. /\ c \in k .. 4 /\ I[c] + 1 < N
      /\ \A j \in k .. (c - 1) : I[j] + 1 >= N
  <2>1. w.idx \in [Levels -> Nat]
    BY Sizes DEF Vectors
  <2>2. QED
    BY <2>1, CarryFacts
<1>3. k \in {1, 2, 3, 4} /\ c \in {1, 2, 3, 4} /\ k <= c
  BY <1>2, Sizes
<1>4. /\ \A j \in 1 .. 4 : J[j] = IF j < k \/ j > c THEN I[j] ELSE IF j = c THEN I[j] + 1 ELSE 0
      /\ J = [j \in Levels |-> J[j]]
  BY Sizes DEF After
<1> HIDE DEF N, I, J, c
<1>6. \A j \in 1 .. 4 : J[j] \in 0 .. (N - 1)
  <2> SUFFICES ASSUME NEW j \in 1 .. 4 PROVE J[j] \in 0 .. (N - 1)
    OBVIOUS
  <2>1. I[j] \in 0 .. (N - 1) /\ (j = c => I[j] + 1 < N)
    BY <1>1, <1>2
  <2>2. QED
    BY <1>1, <1>4, <2>1
<1>7. J \in Vectors
  BY <1>4, <1>6, Sizes DEF Vectors, N
<1> DEFINE T(j) == I[j] * Span(j)
           U(j) == J[j] * Span(j)
<1>8. \A j \in 1 .. 4 :
         /\ T(j) \in Int /\ U(j) \in Int /\ Span(j) \in Int
         /\ j < k \/ j > c => U(j) = T(j)
         /\ j = c => U(j) = T(j) + Span(j)
         /\ k <= j /\ j < c => U(j) = 0 /\ T(j) = Span(j + 1) - Span(j)
  <2> SUFFICES ASSUME NEW j \in 1 .. 4
               PROVE  /\ T(j) \in Int /\ U(j) \in Int /\ Span(j) \in Int
                      /\ j < k \/ j > c => U(j) = T(j)
                      /\ j = c => U(j) = T(j) + Span(j)
                      /\ k <= j /\ j < c => U(j) = 0 /\ T(j) = Span(j + 1) - Span(j)
    OBVIOUS
  <2> DEFINE x == I[j]
             y == J[j]
             s == Span(j)
  <2>1. x \in 0 .. (N - 1) /\ y \in 0 .. (N - 1) /\ s \in Nat /\ N \in Nat
    <3>1. s \in Nat
      BY Spans DEF Levels, s
    <3>2. QED
      BY <1>1, <1>6, <3>1
  <2>2. /\ j < k \/ j > c => y = x
        /\ j = c => y = x + 1
        /\ k <= j /\ j < c => y = 0 /\ x = N - 1 /\ Span(j + 1) = N * s
    <3>1. k <= j /\ j < c => x + 1 >= N /\ j \in 1 .. 3
      BY <1>2, <1>3
    <3>2. k <= j /\ j < c => Span(j + 1) = N * s
      BY <3>1, Spans DEF N
    <3>3. QED
      BY <1>3, <1>4, <2>1, <3>1, <3>2
  <2> HIDE DEF x, y, s
  <2>3. (x + 1) * s = x * s + s /\ 0 * s = 0 /\ (N - 1) * s = N * s - s /\ x * s \in Int /\ y * s \in Int
    BY ONLY <2>1
  <2>4. /\ j < k \/ j > c => y * s = x * s
        /\ j = c => y * s = x * s + s
        /\ k <= j /\ j < c => y * s = 0 /\ x * s = Span(j + 1) - s
    BY <2>2, <2>3
  <2>5. QED
    BY ONLY <2>1, <2>3, <2>4 DEF x, y, s
<1>10. /\ Num(I) = T(1) + T(2) + T(3) + T(4) /\ Num(J) = U(1) + U(2) + U(3) + U(4)
  <2>1. I[1] \in Int /\ J[1] \in Int /\ Span(1) = 1
    BY <1>1, <1>6, Spans
  <2>2. QED
    BY <2>1 DEF Num
<1> HIDE DEF T, U
<1>11. Num(J) = Num(I) + Span(k)
  <2>1. CASE k = 1
    <3>1. CASE c = 1
      BY <2>1, <3>1, <1>8, <1>10
    <3>2. CASE c = 2
      BY <2>1, <3>2, <1>8, <1>10
    <3>3. CASE c = 3
      BY <2>1, <3>3, <1>8, <1>10
    <3>4. CASE c = 4
      BY <2>1, <3>4, <1>8, <1>10
    <3>5. QED
      BY <3>1, <3>2, <3>3, <3>4, <1>3
  <2>2. CASE k = 2
    BY <2>2, <1>3, <1>8, <1>10
  <2>3. CASE k = 3
    BY <2>3, <1>3, <1>8, <1>10
  <2>4. CASE k = 4
    BY <2>4, <1>3, <1>8, <1>10
  <2>5. QED
    BY <2>1, <2>2, <2>3, <2>4, <1>3
<1>12. QED
  BY <1>7, <1>11 DEF I, J

\* A number is between the multiples q and q + 1 of m for one q only.
LEMMA Between ==
    ASSUME NEW q \in Nat, NEW p \in Nat, NEW m \in Nat \ {0}, NEW r \in 0 .. (m - 1),
           NEW z, z = q * m + r
    PROVE  q = p <=> (p * m <= z /\ z < p * m + m)
<1>1. CASE q = p
  BY <1>1
<1>2. CASE q < p
  <2>1. (q + 1) * m <= p * m /\ (q + 1) * m = q * m + m /\ q * m \in Nat /\ p * m \in Nat
    BY <1>2, TimesMonotone
  <2>2. QED
    BY <1>2, <2>1
<1>3. CASE p < q
  <2>1. (p + 1) * m <= q * m /\ (p + 1) * m = p * m + m /\ q * m \in Nat /\ p * m \in Nat
    BY <1>3, TimesMonotone
  <2>2. QED
    BY <1>3, <2>1
<1>4. QED
  BY <1>1, <1>2, <1>3

\* A number in base m has one pair of digits.
LEMMA TwoDigits ==
    ASSUME NEW m \in Nat \ {0}, NEW q \in Nat, NEW p \in Nat,
           NEW r \in 0 .. (m - 1), NEW t \in 0 .. (m - 1)
    PROVE  q * m + r = p * m + t <=> q = p /\ r = t
<1>1. q * m \in Nat /\ p * m \in Nat
  OBVIOUS
<1>2. q * m + r = p * m + t => q = p
  <2>1. q = p <=> (p * m <= q * m + r /\ q * m + r < p * m + m)
    BY Between
  <2>2. p * m <= p * m + t /\ p * m + t < p * m + m
    BY <1>1
  <2>3. QED
    BY <2>1, <2>2
<1>3. ASSUME q = p, q * m + r = p * m + t PROVE r = t
  <2> DEFINE z == p * m
  <2>1. z \in Nat /\ z + r = z + t
    BY <1>1, <1>3
  <2> HIDE DEF z
  <2>2. QED
    BY <2>1
<1>4. QED
  BY <1>2, <1>3

\* The vectors that agree with J from level k on are an interval.
LEMMA SameEntry ==
    ASSUME NEW I \in Vectors, NEW J \in Vectors, NEW k \in Levels, \A j \in 1 .. (k - 1) : J[j] = 0
    PROVE  (\A j \in k .. 4 : I[j] = J[j]) <=> (Num(J) <= Num(I) /\ Num(I) < Num(J) + Span(k))
<1> DEFINE N == TableEntries
           v == Num(I)
           u == Num(J)
           c == I[3] + I[4] * N
           b == I[2] + c * N
           y == J[3] + J[4] * N
           x == J[2] + y * N
           l1 == I[1]
           l2 == I[1] + I[2] * Span(2)
           l3 == I[1] + I[2] * Span(2) + I[3] * Span(3)
           k2 == J[1] + J[2] * Span(2)
           k3 == J[1] + J[2] * Span(2) + J[3] * Span(3)
           S2 == Span(2)
           S3 == Span(3)
           S4 == Span(4)
<1>1. /\ N \in Nat /\ N >= 2 /\ I[1] \in 0 .. (N - 1) /\ I[2] \in 0 .. (N - 1)
      /\ I[3] \in 0 .. (N - 1) /\ I[4] \in 0 .. (N - 1)
      /\ J[1] \in 0 .. (N - 1) /\ J[2] \in 0 .. (N - 1)
      /\ J[3] \in 0 .. (N - 1) /\ J[4] \in 0 .. (N - 1)
  BY Sizes, VectorElements
<1>2. /\ S2 \in Nat \ {0} /\ S3 \in Nat \ {0} /\ S4 \in Nat \ {0} /\ S2 = N
  BY Spans, Sizes
<1>3. /\ v \in Int /\ c \in Nat /\ b \in Nat
      /\ v = b * S2 + l1 /\ l1 \in 0 .. (S2 - 1)
      /\ v = c * S3 + l2 /\ l2 \in 0 .. (S3 - 1)
      /\ v = I[4] * S4 + l3 /\ l3 \in 0 .. (S4 - 1)
  BY <1>1, <1>2, Upper
<1>4. /\ u \in Int /\ y \in Nat /\ x \in Nat
      /\ u = x * S2 + J[1]
      /\ u = y * S3 + k2
      /\ u = J[4] * S4 + k3
  BY <1>1, <1>2, Upper
<1>5. /\ b = c * N + I[2] /\ c = I[4] * N + I[3] /\ x = y * N + J[2] /\ y = J[4] * N + J[3]
  BY <1>1, <1>3, <1>4
<1>6. /\ k >= 2 => J[1] = 0
      /\ k >= 3 => k2 = 0
      /\ k = 4 => k3 = 0
  <2>1. k \in 1 .. 4 /\ 0 * S2 = 0 /\ 0 * S3 = 0
    BY <1>2, Sizes
  <2>2. (k >= 2 => J[1] = 0) /\ (k >= 3 => J[2] = 0) /\ (k = 4 => J[3] = 0)
    BY <2>1
  <2>3. k >= 3 => k2 = 0
    BY <2>1, <2>2
  <2>4. k = 4 => k3 = 0
    BY <2>1, <2>2
  <2>5. QED
    BY <2>2, <2>3, <2>4
<1> HIDE DEF N, v, u, c, b, y, x, l1, l2, l3, k2, k3, S2, S3, S4
<1>8. CASE k = 4
  <2>1. I[4] = J[4] <=> (J[4] * S4 <= v /\ v < J[4] * S4 + S4)
    BY <1>1, <1>2, <1>3, Between
  <2>2. u = J[4] * S4
    BY <1>1, <1>2, <1>4, <1>6, <1>8
  <2>3. QED
    BY <2>1, <2>2, <1>8 DEF v, u, S4
<1>9. c = y <=> I[3] = J[3] /\ I[4] = J[4]
  <2> DEFINE q == I[4]
             p == J[4]
             r == I[3]
             t == J[3]
  <2>1. N \in Nat \ {0} /\ q \in Nat /\ p \in Nat /\ r \in 0 .. (N - 1) /\ t \in 0 .. (N - 1)
    BY <1>1
  <2>2. c = q * N + r /\ y = p * N + t
    BY <1>5
  <2> HIDE DEF q, p, r, t
  <2>3. q * N + r = p * N + t <=> q = p /\ r = t
    BY ONLY <2>1, TwoDigits
  <2>4. QED
    BY <2>2, <2>3 DEF q, p, r, t
<1>10. b = x <=> I[2] = J[2] /\ c = y
  <2>1. /\ N \in Nat \ {0} /\ c \in Nat /\ y \in Nat
        /\ I[2] \in 0 .. (N - 1) /\ J[2] \in 0 .. (N - 1)
    BY <1>1, <1>3, <1>4
  <2>2. c * N + I[2] = y * N + J[2] <=> c = y /\ I[2] = J[2]
    BY ONLY <2>1, TwoDigits
  <2>3. QED
    BY <2>2, <1>5
<1>11. CASE k = 3
  <2>1. c = y <=> (y * S3 <= v /\ v < y * S3 + S3)
    BY <1>2, <1>3, <1>4, Between
  <2>2. u = y * S3
    BY <1>1, <1>2, <1>4, <1>6, <1>11
  <2>3. (\A j \in k .. 4 : I[j] = J[j]) <=> I[3] = J[3] /\ I[4] = J[4]
    BY <1>11
  <2>4. QED
    BY <2>1, <2>2, <2>3, <1>9, <1>11 DEF v, u, S3
<1>12. CASE k = 2
  <2>1. b = x <=> (x * S2 <= v /\ v < x * S2 + S2)
    BY <1>2, <1>3, <1>4, Between
  <2>2. u = x * S2
    BY <1>1, <1>2, <1>4, <1>6, <1>12
  <2>3. (\A j \in k .. 4 : I[j] = J[j]) <=> I[2] = J[2] /\ I[3] = J[3] /\ I[4] = J[4]
    BY <1>12
  <2>4. QED
    BY <2>1, <2>2, <2>3, <1>9, <1>10, <1>12 DEF v, u, S2
<1>13. CASE k = 1
  <2>1. (\A j \in k .. 4 : I[j] = J[j]) <=> I = J
    <3>1. I = J <=> I[1] = J[1] /\ I[2] = J[2] /\ I[3] = J[3] /\ I[4] = J[4]
      BY SameVectors
    <3>2. QED
      BY <3>1, <1>13
  <2>2. I = J <=> Num(I) = Num(J)
    BY DigitsOfNum
  <2>3. QED
    BY <2>1, <2>2, <1>3, <1>4, <1>13, Spans DEF v, u
<1>14. QED
  BY <1>8, <1>11, <1>12, <1>13, Sizes

LEMMA NumOrder ==
    ASSUME NEW I \in Vectors, NEW J \in Vectors, Num(J) <= Num(I)
    PROVE  J[4] <= I[4]
<1> DEFINE S == Span(4)
           a == I[4]
           b == J[4]
           l == I[1] + I[2] * Span(2) + I[3] * Span(3)
           m == J[1] + J[2] * Span(2) + J[3] * Span(3)
<1>1. /\ S \in Nat \ {0} /\ a \in Nat /\ b \in Nat /\ l \in 0 .. (S - 1) /\ m \in 0 .. (S - 1)
      /\ Num(I) = a * S + l /\ Num(J) = b * S + m
  BY Upper, Spans, VectorElements, Sizes
<1> HIDE DEF S, a, b, l, m
<1>2. SUFFICES ASSUME a + 1 <= b PROVE FALSE
  BY <1>1 DEF a, b
<1>3. (a + 1) * S <= b * S /\ (a + 1) * S = a * S + S /\ a * S \in Nat /\ b * S \in Nat
  BY <1>1, <1>2, TimesMonotone
<1>4. QED
  BY <1>1, <1>3

\* The first page of the entry of level k + 1 in which I is.
LEMMA ZeroFacts ==
    ASSUME NEW I \in Vectors, NEW k \in 1 .. 3
    PROVE  /\ Zero(I, k) \in Vectors
           /\ \A j \in 1 .. k : Zero(I, k)[j] = 0
           /\ \A j \in (k + 1) .. 4 : Zero(I, k)[j] = I[j]
           /\ Num(Zero(I, k)) <= Num(I) /\ Num(I) < Num(Zero(I, k)) + Span(k + 1)
<1>1. Zero(I, k) \in Vectors
  BY Sizes, VectorElements DEF Zero, Vectors
<1>2. /\ \A j \in 1 .. k : Zero(I, k)[j] = 0
      /\ \A j \in (k + 1) .. 4 : Zero(I, k)[j] = I[j]
  BY DEF Zero, Levels
<1>3. k + 1 \in Levels /\ \A j \in 1 .. (k + 1 - 1) : Zero(I, k)[j] = 0
  BY <1>2 DEF Levels
<1>4. QED
  BY <1>1, <1>2, <1>3, SameEntry

LEMMA NumFacts ==
    ASSUME NEW I \in Vectors
    PROVE  Num(I) \in AllPages /\ Num(I) \in Nat
BY Upper, Sizes, Spans DEF AllPages

\* The entries that the code writes.
LEMMA Entries ==
    /\ Null.at = 0 /\ ~Null.size /\ ~Null.present /\ Null \in EntryType
    /\ \A f \in Nat : /\ Link(f).at = f /\ ~Link(f).size /\ Link(f).present
                      /\ Link(f) # Null /\ Link(f) \in EntryType
    /\ \A f \in Nat, k \in Levels, u \in BOOLEAN :
          /\ Leaf(f, k, u).at = f /\ IsLeaf(Leaf(f, k, u), k) /\ Leaf(f, k, u) # Null
          /\ Leaf(f, k, u) \in EntryType
<1>1. Null.at = 0 /\ ~Null.size /\ ~Null.present /\ Null \in EntryType
  BY DEF Null, EntryType
<1>2. \A f \in Nat : /\ Link(f).at = f /\ ~Link(f).size /\ Link(f).present
                     /\ Link(f) # Null /\ Link(f) \in EntryType
  BY DEF Null, Link, EntryType
<1>3. ASSUME NEW f \in Nat, NEW k \in Levels, NEW u \in BOOLEAN
      PROVE  /\ Leaf(f, k, u).at = f /\ IsLeaf(Leaf(f, k, u), k) /\ Leaf(f, k, u) # Null
             /\ Leaf(f, k, u) \in EntryType
  <2>1. Leaf(f, k, u).at = f /\ Leaf(f, k, u).present /\ Leaf(f, k, u).size = (k > 1)
    BY DEF Leaf
  <2>2. Leaf(f, k, u) # Null
    BY <1>1, <2>1
  <2>3. (k > 1) \in BOOLEAN
    OBVIOUS
  <2>4. Leaf(f, k, u) \in EntryType
    BY <2>3, Zenon DEF Leaf, EntryType
  <2>5. QED
    BY <2>1, <2>2, <2>4 DEF IsLeaf
<1>4. QED
  BY <1>1, <1>2, <1>3

\* Types of the parts.
LEMMA KindType ==
    ASSUME NEW p \in PlanType, KernelPlan(p), NEW s
    PROVE  Kind(p, s) \in 1 .. 3
<1>1. CASE s \in BootSlots(p)
  <2>1. \E k \in 1 .. 3 : \E i \in DOMAIN p.boot : SlotOf(p.boot[i]) = s /\ p.boot[i].level = k
    <3>1. PICK i \in DOMAIN p.boot : SlotOf(p.boot[i]) = s
      BY <1>1 DEF BootSlots
    <3>2. p.boot[i].level \in 1 .. 3
      <4>1. p.boot \in Seq(CallType)
        BY DEF PlanType
      <4>2. p.boot[i] \in CallType
        BY <4>1, <3>1
      <4>3. QED
        BY <4>2 DEF CallType
    <3>3. QED
      BY <3>1, <3>2
  <2>2. QED
    BY <1>1, <2>1 DEF Kind
<1>2. CASE s \notin BootSlots(p)
  BY <1>2 DEF Kind
<1>3. QED
  BY <1>1, <1>2

LEMMA MemType ==
    ASSUME NEW m, NEW b, IsMem(m, b)
    PROVE  /\ 0 \notin DOMAIN m /\ b \notin DOMAIN m /\ b \in Nat
           /\ \A f \in DOMAIN m : f \in Nat /\ FirstFrame <= f /\ f < b /\ m[f] \in [Slots -> EntryType]
           /\ \A f \in DOMAIN m : \A s \in Slots : m[f][s] \in EntryType
<1>1. b \in Nat /\ DOMAIN m \subseteq FirstFrame .. (b - 1) /\ FirstFrame \in Nat \ {0}
  BY Sizes DEF IsMem
<1>2. \A f \in DOMAIN m : f \in Nat /\ FirstFrame <= f /\ f < b
  BY <1>1
<1>3. \A f \in DOMAIN m : m[f] \in [Slots -> EntryType]
  BY DEF IsMem
<1>4. \A f \in DOMAIN m : \A s \in Slots : m[f][s] \in EntryType
  BY <1>3
<1>5. QED
  BY <1>1, <1>2, <1>3, <1>4

LEMMA LeafSize ==
    ASSUME NEW e, NEW k \in Nat, IsLeaf(e, k)
    PROVE  (k > 1 => e.size) /\ (k <= 1 => ~e.size)
<1>1. e.size = (k > 1)
  BY DEF IsLeaf
<1>2. (k <= 1) <=> ~(k > 1)
  OBVIOUS
<1>3. QED
  BY <1>1, <1>2, Zenon

\* What the entries along I are, in a tree.
LEMMA PathInTree ==
    ASSUME NEW p \in PlanType, KernelPlan(p), NEW m, NEW b, IsMem(m, b),
           NEW lev, NEW up, NEW par, TreeAt(p, m, lev, up, par),
           NEW I \in Vectors, NEW k, k = Kind(p, I[4])
    PROVE  /\ k \in 1 .. 3
           /\ \/ F4(m, I) = Null
              \/ /\ IsLink(F4(m, I), m) /\ lev[F4(m, I).at] = 3
                 /\ up[F4(m, I).at][4] = I[4]
           /\ \/ F3(m, I) = Null
              \/ /\ k < 3 /\ IsLink(F3(m, I), m) /\ lev[F3(m, I).at] = 2
                 /\ up[F3(m, I).at][4] = I[4] /\ up[F3(m, I).at][3] = I[3]
              \/ k = 3 /\ IsLeaf(F3(m, I), 3)
           /\ \/ F2(m, I) = Null
              \/ /\ k = 1 /\ IsLink(F2(m, I), m) /\ lev[F2(m, I).at] = 1
                 /\ up[F2(m, I).at][4] = I[4] /\ up[F2(m, I).at][3] = I[3] /\ up[F2(m, I).at][2] = I[2]
              \/ k > 1 /\ IsLeaf(F2(m, I), k)
           /\ F1(m, I) = Null \/ IsLeaf(F1(m, I), k)
           /\ F4(m, I) = Null => F3(m, I) = Null
           /\ F3(m, I) = Null => F2(m, I) = Null
           /\ F2(m, I) = Null => F1(m, I) = Null
           /\ k = 3 => F2(m, I) = F3(m, I) /\ F1(m, I) = F3(m, I)
           /\ k = 2 => F1(m, I) = F2(m, I)
           /\ F4(m, I).at \in Nat /\ F3(m, I).at \in Nat /\ F2(m, I).at \in Nat
<1> DEFINE e4 == F4(m, I)
           e3 == F3(m, I)
           e2 == F2(m, I)
           e1 == F1(m, I)
<1>1. k \in 1 .. 3
  BY KindType
<1>2. I[1] \in Slots /\ I[2] \in Slots /\ I[3] \in Slots /\ I[4] \in Slots
  BY VectorElements
<1>3. \A f \in DOMAIN m : \A s \in Slots : EntryOK(p, m, lev, up, par, f, s)
  BY DEF TreeAt
<1>4. FirstFrame \in DOMAIN m /\ lev[FirstFrame] = 4 /\ 0 \notin DOMAIN m
  BY MemType DEF TreeAt
<1>5. /\ e4 = m[FirstFrame][I[4]]
      /\ e3 = Get(m, e4.at, I[3])
      /\ e2 = IF e3.size THEN e3 ELSE Get(m, e3.at, I[2])
      /\ e1 = IF e2.size THEN e2 ELSE Get(m, e2.at, I[1])
  BY <1>4 DEF F4, F3, F2, F1, Get
<1> HIDE DEF e4, e3, e2, e1
<1>6. \/ e4 = Null
      \/ IsLink(e4, m) /\ lev[e4.at] = 3 /\ up[e4.at][4] = I[4]
  <2>1. EntryOK(p, m, lev, up, par, FirstFrame, I[4])
    BY <1>2, <1>3, <1>4
  <2>2. QED
    BY <2>1, <1>1, <1>4, <1>5 DEF EntryOK
<1>7. e4 = Null => e3 = Null
  BY <1>4, <1>5, Entries DEF Get
<1>8. \/ e3 = Null
      \/ /\ k < 3 /\ IsLink(e3, m) /\ lev[e3.at] = 2 /\ up[e3.at][4] = I[4] /\ up[e3.at][3] = I[3]
      \/ k = 3 /\ IsLeaf(e3, 3)
  <2>1. CASE e4 = Null
    BY <2>1, <1>7
  <2>2. CASE e4 # Null
    <3>1. e4.at \in DOMAIN m /\ lev[e4.at] = 3 /\ up[e4.at][4] = I[4]
      BY <2>2, <1>6 DEF IsLink
    <3>2. EntryOK(p, m, lev, up, par, e4.at, I[3]) /\ e3 = m[e4.at][I[3]]
      BY <3>1, <1>2, <1>3, <1>5 DEF Get
    <3>3. QED
      BY <3>1, <3>2, <1>1 DEF EntryOK
  <2>3. QED
    BY <2>1, <2>2
<1>9. e3 = Null => e2 = Null
  BY <1>4, <1>5, Entries DEF Get
<1>10. IsLink(e3, m) => ~e3.size
  BY Entries, MemType DEF IsLink
<1>11. k = 3 => e2 = e3
  BY <1>8, <1>9 , <1>5, LeafSize
<1>12. \/ e2 = Null
       \/ /\ k = 1 /\ IsLink(e2, m) /\ lev[e2.at] = 1
          /\ up[e2.at][4] = I[4] /\ up[e2.at][3] = I[3] /\ up[e2.at][2] = I[2]
       \/ k > 1 /\ IsLeaf(e2, k)
  <2>1. CASE e3 = Null
    BY <2>1, <1>9
  <2>2. CASE k = 3
    BY <2>2, <1>11, <1>8, <1>1
  <2>3. CASE e3 # Null /\ k # 3
    <3>1. e3.at \in DOMAIN m /\ lev[e3.at] = 2 /\ up[e3.at][4] = I[4] /\ up[e3.at][3] = I[3] /\ ~e3.size
      BY <2>3, <1>8, <1>10 DEF IsLink
    <3>2. EntryOK(p, m, lev, up, par, e3.at, I[2]) /\ e2 = m[e3.at][I[2]]
      BY <3>1, <1>2, <1>3, <1>5 DEF Get
    <3>3. QED
      BY <3>1, <3>2, <1>1 DEF EntryOK
  <2>4. QED
    BY <2>1, <2>2, <2>3
<1>13. e2 = Null => e1 = Null
  BY <1>4, <1>5, Entries DEF Get
<1>14. IsLink(e2, m) => ~e2.size
  BY Entries, MemType DEF IsLink
<1>15. k > 1 => e1 = e2
  <2>1. CASE e2 = Null
    BY <2>1, <1>13
  <2>2. CASE e2 # Null
    <3>1. k > 1 => IsLeaf(e2, k) /\ k \in Nat
      BY <2>2, <1>1, <1>12
    <3>2. k > 1 => e2.size
      BY <3>1, LeafSize
    <3>3. QED
      BY <3>2, <1>5
  <2>3. QED
    BY <2>1, <2>2
<1>16. e1 = Null \/ IsLeaf(e1, k)
  <2>1. CASE e2 = Null
    BY <2>1, <1>13
  <2>2. CASE k > 1
    BY <2>2, <1>15, <1>12
  <2>3. CASE e2 # Null /\ ~(k > 1)
    <3>1. e2.at \in DOMAIN m /\ lev[e2.at] = 1 /\ up[e2.at][4] = I[4] /\ ~e2.size /\ k = 1
      BY <2>3, <1>12, <1>14 DEF IsLink
    <3>2. EntryOK(p, m, lev, up, par, e2.at, I[1]) /\ e1 = m[e2.at][I[1]]
      BY <3>1, <1>2, <1>3, <1>5 DEF Get
    <3>3. Kind(p, IF lev[e2.at] = 4 THEN I[1] ELSE up[e2.at][4]) = 1
      BY <3>1
    <3>4. e1 = Null \/ IsLeaf(e1, 1)
      BY <3>1, <3>2, <3>3 DEF EntryOK
    <3>5. QED
      BY <3>1, <3>4
  <2>4. QED
    BY <2>1, <2>2, <2>3
<1>17. e4.at \in Nat /\ e3.at \in Nat /\ e2.at \in Nat
  <2>1. \A t \in Nat, s \in Slots : Get(m, t, s) \in EntryType
    BY MemType, Entries DEF Get
  <2>2. e4 \in EntryType
    BY <1>4, <1>5, <1>2, MemType
  <2>3. e4.at \in Nat
    BY <2>2 DEF EntryType
  <2>4. e3 \in EntryType
    BY <2>1, <2>3, <1>2, <1>5
  <2>5. e3.at \in Nat
    BY <2>4 DEF EntryType
  <2>6. e2 \in EntryType
    BY <2>1, <2>4, <2>5, <1>2, <1>5
  <2>7. e2.at \in Nat
    BY <2>6 DEF EntryType
  <2>8. QED
    BY <2>3, <2>5, <2>7
<1>18. QED
  BY <1>1, <1>6, <1>7, <1>8, <1>9, <1>11, <1>12, <1>13, <1>15, <1>16, <1>17 DEF e4, e3, e2, e1

At(m, I, k) == CASE k = 4 -> F4(m, I) [] k = 3 -> F3(m, I) [] k = 2 -> F2(m, I) [] k = 1 -> F1(m, I)

LEMMA AtLevels ==
    \A m, I : At(m, I, 4) = F4(m, I) /\ At(m, I, 3) = F3(m, I) /\ At(m, I, 2) = F2(m, I) /\ At(m, I, 1) = F1(m, I)
BY DEF At

\* The table of level k of a walk on its path.
LEMMA OnTree ==
    ASSUME NEW p \in PlanType, KernelPlan(p), NEW w, IsWalk(w), NEW lev, NEW up, NEW par,
           TreeAt(p, w.mem, lev, up, par), NEW k \in 1 .. 4, OnPath(w, k)
    PROVE  /\ Valid(w, k) /\ Entry(w, k) = At(w.mem, w.idx, k)
           /\ Entry(w, k) = w.mem[w.tab[k]][w.idx[k]] /\ Entry(w, k) \in EntryType
           /\ w.tab[k] \in DOMAIN w.mem /\ w.idx[k] \in Slots /\ lev[w.tab[k]] = k
           /\ \A i \in (k + 1) .. 4 : up[w.tab[k]][i] = w.idx[i]
           /\ k <= 3 => At(w.mem, w.idx, k + 1) = Link(w.tab[k])
<1> DEFINE m == w.mem
           I == w.idx
<1>1. IsMem(m, w.brk) /\ I \in Vectors /\ w.tab[4] = FirstFrame /\ On(m, I, k)
  BY DEF IsWalk, OnPath
<1>2. /\ k <= 3 => w.tab[3] = F4(m, I).at /\ F4(m, I) # Null
      /\ k <= 2 => w.tab[2] = F3(m, I).at /\ F3(m, I) # Null /\ ~F3(m, I).size
      /\ k <= 1 => w.tab[1] = F2(m, I).at /\ F2(m, I) # Null /\ ~F2(m, I).size
  BY DEF OnPath, On
<1>3. FirstFrame \in DOMAIN m /\ lev[FirstFrame] = 4
  BY DEF TreeAt
<1>4. /\ F4(m, I) = Get(m, FirstFrame, I[4])
      /\ F3(m, I) = Get(m, F4(m, I).at, I[3])
      /\ F2(m, I) = IF F3(m, I).size THEN F3(m, I) ELSE Get(m, F3(m, I).at, I[2])
      /\ F1(m, I) = IF F2(m, I).size THEN F2(m, I) ELSE Get(m, F2(m, I).at, I[1])
  BY DEF F4, F3, F2, F1
<1>5. \A j \in 1 .. 4 : I[j] \in Slots
  BY <1>1, VectorElements
<1>6. k \in 1 .. 4
  OBVIOUS
<1>7. /\ \/ F4(m, I) = Null
         \/ /\ IsLink(F4(m, I), m) /\ lev[F4(m, I).at] = 3
            /\ up[F4(m, I).at][4] = I[4]
      /\ \/ F3(m, I) = Null
         \/ /\ IsLink(F3(m, I), m) /\ lev[F3(m, I).at] = 2
            /\ up[F3(m, I).at][4] = I[4] /\ up[F3(m, I).at][3] = I[3]
         \/ IsLeaf(F3(m, I), 3)
      /\ \/ F2(m, I) = Null
         \/ /\ IsLink(F2(m, I), m) /\ lev[F2(m, I).at] = 1
            /\ up[F2(m, I).at][4] = I[4] /\ up[F2(m, I).at][3] = I[3] /\ up[F2(m, I).at][2] = I[2]
         \/ (Kind(p, I[4]) \in 2 .. 3 /\ IsLeaf(F2(m, I), Kind(p, I[4])))
  BY <1>1, PathInTree
<1>8. (IsLeaf(F3(m, I), 3) => F3(m, I).size) /\ (Kind(p, I[4]) \in 2 .. 3 /\ IsLeaf(F2(m, I), Kind(p, I[4])) => F2(m, I).size)
  BY LeafSize
<1> HIDE DEF m, I
<1>9. /\ k <= 3 => IsLink(F4(m, I), m) /\ lev[w.tab[3]] = 3 /\ up[w.tab[3]][4] = I[4]
      /\ k <= 2 => IsLink(F3(m, I), m) /\ lev[w.tab[2]] = 2 /\ up[w.tab[2]][4] = I[4] /\ up[w.tab[2]][3] = I[3]
      /\ k <= 1 => IsLink(F2(m, I), m) /\ lev[w.tab[1]] = 1
                   /\ up[w.tab[1]][4] = I[4] /\ up[w.tab[1]][3] = I[3] /\ up[w.tab[1]][2] = I[2]
  BY <1>2, <1>6, <1>7, <1>8
<1>10. w.tab[k] \in DOMAIN m /\ lev[w.tab[k]] = k /\ \A i \in (k + 1) .. 4 : up[w.tab[k]][i] = I[i]
  <2>1. CASE k = 4
    BY <2>1, <1>1, <1>3
  <2>2. CASE k = 3
    BY <2>2, <1>2, <1>9 DEF IsLink
  <2>3. CASE k = 2
    BY <2>3, <1>2, <1>9 DEF IsLink
  <2>4. CASE k = 1
    BY <2>4, <1>2, <1>9 DEF IsLink
  <2>5. QED
    BY <2>1, <2>2, <2>3, <2>4, <1>6
<1>11. At(m, I, k) = m[w.tab[k]][I[k]]
  <2>1. CASE k = 4
    <3>1. w.tab[4] \in DOMAIN m
      BY <2>1, <1>10
    <3>2. F4(m, I) = Get(m, w.tab[4], I[4])
      BY <2>1, <1>1, <1>4
    <3>3. F4(m, I) = m[w.tab[4]][I[4]]
      BY <3>1, <3>2 DEF Get
    <3>4. QED
      BY <3>3, <2>1, AtLevels
  <2>2. CASE k = 3
    <3>1. w.tab[3] \in DOMAIN m
      BY <2>2, <1>10
    <3>2. F3(m, I) = Get(m, w.tab[3], I[3])
      BY <2>2, <1>2, <1>4
    <3>3. F3(m, I) = m[w.tab[3]][I[3]]
      BY <3>1, <3>2 DEF Get
    <3>4. QED
      BY <3>3, <2>2, AtLevels
  <2>3. CASE k = 2
    <3>1. w.tab[2] \in DOMAIN m
      BY <2>3, <1>10
    <3>2. F2(m, I) = Get(m, w.tab[2], I[2])
      BY <2>3, <1>2, <1>4
    <3>3. F2(m, I) = m[w.tab[2]][I[2]]
      BY <3>1, <3>2 DEF Get
    <3>4. QED
      BY <3>3, <2>3, AtLevels
  <2>4. CASE k = 1
    <3>1. w.tab[1] \in DOMAIN m
      BY <2>4, <1>10
    <3>2. F1(m, I) = Get(m, w.tab[1], I[1])
      BY <2>4, <1>2, <1>4
    <3>3. F1(m, I) = m[w.tab[1]][I[1]]
      BY <3>1, <3>2 DEF Get
    <3>4. QED
      BY <3>3, <2>4, AtLevels
  <2>5. QED
    BY <2>1, <2>2, <2>3, <2>4, <1>6
<1>12. k <= 3 => At(m, I, k + 1) = Link(w.tab[k])
  <2>2. CASE k = 3
    BY <2>2, <1>2, <1>9 DEF IsLink, At
  <2>3. CASE k = 2
    BY <2>3, <1>2, <1>9 DEF IsLink, At
  <2>4. CASE k = 1
    BY <2>4, <1>2, <1>9 DEF IsLink, At
  <2>5. QED
    BY <2>2, <2>3, <2>4, <1>6
<1>13. Valid(w, k) /\ Entry(w, k) = m[w.tab[k]][I[k]]
  BY <1>5, <1>6, <1>10 DEF Valid, Entry, m, I
<1>14. Entry(w, k) \in EntryType
  BY <1>13, <1>10, <1>5, <1>6, <1>1, MemType
<1>15. QED
  BY <1>5, <1>6, <1>10, <1>11, <1>12, <1>13, <1>14 DEF m, I

\* Writing the entry of the level k whose entries are pages.
Changed(p, m, n, J, k, e) == \A I \in Vectors :
    /\ F1(n, I) = IF Agree(I, J, k) THEN e ELSE F1(m, I)
    /\ F4(n, I) = F4(m, I)
    /\ Kind(p, I[4]) <= 2 => F3(n, I) = F3(m, I)
    /\ Kind(p, I[4]) <= 1 => F2(n, I) = F2(m, I)

Put(m, t, s, e) == [m EXCEPT ![t][s] = e]

\* A page written or cleared, at the level its level 4 entry has pages of: the tables
\* stay a tree, with the same levels, indices and parents.
LEMMA PutTree ==
    ASSUME NEW p \in PlanType, KernelPlan(p), NEW m, NEW b, IsMem(m, b), NEW lev, NEW up, NEW par,
           TreeAt(p, m, lev, up, par), NEW t \in DOMAIN m, NEW s \in Slots, NEW e \in EntryType,
           NEW k \in 1 .. 3, lev[t] = k, Kind(p, up[t][4]) = k,
           e = Null \/ IsLeaf(e, k),
           NEW n, n = Put(m, t, s, e)
    PROVE  /\ IsMem(n, b) /\ TreeAt(p, n, lev, up, par) /\ DOMAIN n = DOMAIN m
           /\ \A f \in DOMAIN m : \A i \in Slots : n[f][i] = IF f = t /\ i = s THEN e ELSE m[f][i]
<1>1. m \in [DOMAIN m -> [Slots -> EntryType]] /\ b \in Nat /\ DOMAIN m \subseteq FirstFrame .. (b - 1)
  BY DEF IsMem
<1>2. n \in [DOMAIN m -> [Slots -> EntryType]] /\ DOMAIN n = DOMAIN m
  BY <1>1 DEF Put
<1>3. \A f \in DOMAIN m : \A i \in Slots : n[f][i] = IF f = t /\ i = s THEN e ELSE m[f][i]
  BY <1>1 DEF Put
<1>4. IsMem(n, b)
  BY <1>1, <1>2 DEF IsMem
<1>5. ASSUME NEW f \in DOMAIN n, NEW i \in Slots PROVE EntryOK(p, n, lev, up, par, f, i)
  <2>1. f \in DOMAIN m /\ EntryOK(p, m, lev, up, par, f, i)
    BY <1>2, <1>5 DEF TreeAt
  <2>2. CASE f = t /\ i = s
    <3>1. n[f][i] = e
      BY <2>1, <2>2, <1>3
    <3>2. lev[f] = k /\ Kind(p, up[f][4]) = k /\ k # 4 /\ k <= k
      BY <2>2
    <3>3. QED
      BY <3>1, <3>2 DEF EntryOK
  <2>3. CASE ~(f = t /\ i = s)
    <3>1. n[f][i] = m[f][i]
      BY <2>1, <2>3, <1>3
    <3>2. QED
      BY <3>1, <2>1, <1>2 DEF EntryOK, IsLink
  <2>4. QED
    BY <2>2, <2>3
<1>6. TreeAt(p, n, lev, up, par)
  BY <1>2, <1>5 DEF TreeAt
<1>7. QED
  BY <1>2, <1>3, <1>4, <1>6

\* The entries along two vectors that agree from level k on.
LEMMA SamePath ==
    ASSUME NEW m, NEW I, NEW J, NEW k \in 1 .. 4, Agree(I, J, k)
    PROVE  /\ F4(m, I) = F4(m, J)
           /\ k <= 3 => F3(m, I) = F3(m, J)
           /\ k <= 2 => F2(m, I) = F2(m, J)
           /\ k <= 1 => F1(m, I) = F1(m, J)
<1>1. k \in 1 .. 4 /\ \A j \in k .. 4 : I[j] = J[j]
  BY DEF Agree
<1>2. I[4] = J[4] /\ (k <= 3 => I[3] = J[3]) /\ (k <= 2 => I[2] = J[2]) /\ (k <= 1 => I[1] = J[1])
  BY <1>1
<1>3. F4(m, I) = F4(m, J)
  BY <1>2 DEF F4
<1>4. k <= 3 => F3(m, I) = F3(m, J)
  BY <1>2, <1>3 DEF F3
<1>5. k <= 2 => F2(m, I) = F2(m, J)
  BY <1>1, <1>2, <1>4 DEF F2
<1>6. k <= 1 => F1(m, I) = F1(m, J)
  BY <1>1, <1>2, <1>5 DEF F1
<1>7. QED
  BY <1>3, <1>4, <1>5, <1>6

\* The same in terms of walks: what changes is the entry of the pages that agree with
\* the indices of the walk from level k up, and nothing else.
LEMMA PutFacts ==
    ASSUME NEW p \in PlanType, KernelPlan(p), NEW w, IsWalk(w), Tree(p, w.mem),
           NEW k \in 1 .. 3, k = Kind(p, w.idx[4]), OnPath(w, k), NEW e \in EntryType,
           e = Null \/ IsLeaf(e, k),
           NEW n, n = Put(w.mem, w.tab[k], w.idx[k], e)
    PROVE  /\ IsMem(n, w.brk) /\ Tree(p, n) /\ DOMAIN n = DOMAIN w.mem
           /\ Changed(p, w.mem, n, w.idx, k, e)
<1> DEFINE m == w.mem
           b == w.brk
           J == w.idx
           t == w.tab[k]
           s == w.idx[k]
<1>1. PICK lev, up, par : TreeAt(p, m, lev, up, par)
  BY DEF Tree
<1>2. IsMem(m, b) /\ J \in Vectors /\ k \in 1 .. 4
  BY DEF IsWalk, OnPath
<1>3. /\ t \in DOMAIN m /\ s \in Slots /\ lev[t] = k /\ \A i \in (k + 1) .. 4 : up[t][i] = J[i]
      /\ At(m, J, k + 1) = Link(t)
  <2>1. /\ k <= 3 /\ k \in 1 .. 4 /\ TreeAt(p, w.mem, lev, up, par)
        /\ p \in PlanType /\ KernelPlan(p) /\ IsWalk(w) /\ OnPath(w, k)
    BY <1>1, <1>2
  <2>2. /\ w.tab[k] \in DOMAIN w.mem /\ w.idx[k] \in Slots /\ lev[w.tab[k]] = k
        /\ \A i \in (k + 1) .. 4 : up[w.tab[k]][i] = w.idx[i]
        /\ k <= 3 => At(w.mem, w.idx, k + 1) = Link(w.tab[k])
    BY ONLY <2>1, OnTree
  <2>3. QED
    BY <2>1, <2>2, Zenon
<1> HIDE DEF m, b, J, t, s
<1>4. /\ IsMem(n, b) /\ TreeAt(p, n, lev, up, par) /\ DOMAIN n = DOMAIN m
      /\ \A f \in DOMAIN m : \A i \in Slots : n[f][i] = IF f = t /\ i = s THEN e ELSE m[f][i]
  <2>1. k \in 1 .. 3 /\ lev[t] = k /\ up[t][4] = J[4] /\ Kind(p, up[t][4]) = k
    BY <1>3 DEF J
  <2>2. n = Put(m, t, s, e)
    BY DEF m, t, s, J
  <2>3. e = Null \/ IsLeaf(e, k)
    OBVIOUS
  <2>4. p \in PlanType /\ KernelPlan(p) /\ IsMem(m, b) /\ TreeAt(p, m, lev, up, par) /\ t \in DOMAIN m /\ s \in Slots /\ e \in EntryType
    BY <1>1, <1>2, <1>3
  <2>5. QED
    BY ONLY <2>1, <2>2, <2>3, <2>4, PutTree
<1>4a. IsMem(n, b) /\ TreeAt(p, n, lev, up, par)
  BY <1>4
<1>5. ASSUME NEW f, NEW i \in Slots PROVE Get(n, f, i) = IF f = t /\ i = s THEN e ELSE Get(m, f, i)
  BY <1>3, <1>4, <1>5 DEF Get
<1>6. ASSUME NEW I \in Vectors
      PROVE  /\ F1(n, I) = IF Agree(I, J, k) THEN e ELSE F1(m, I)
             /\ F4(n, I) = F4(m, I)
             /\ Kind(p, I[4]) <= 2 => F3(n, I) = F3(m, I)
             /\ Kind(p, I[4]) <= 1 => F2(n, I) = F2(m, I)
  <2> DEFINE q == Kind(p, I[4])
  <2>1. I[1] \in Slots /\ I[2] \in Slots /\ I[3] \in Slots /\ I[4] \in Slots
    BY VectorElements
  <2>2. t # FirstFrame /\ t \in Nat /\ t # 0 /\ FirstFrame \in DOMAIN m
    <3>1. FirstFrame \in DOMAIN m /\ lev[FirstFrame] = 4
      BY <1>1 DEF TreeAt
    <3>2. t # FirstFrame
      BY <3>1, <1>3
    <3>3. QED
      BY <3>1, <3>2, <1>2, <1>3, MemType
  <2>3. F4(n, I) = F4(m, I)
    BY <1>5, <2>1, <2>2 DEF F4
  <2>4. /\ q \in 1 .. 3
        /\ F4(m, I) = Null \/ (lev[F4(m, I).at] = 3 /\ up[F4(m, I).at][4] = I[4])
        /\ \/ F3(m, I) = Null
           \/ (lev[F3(m, I).at] = 2 /\ up[F3(m, I).at][4] = I[4] /\ up[F3(m, I).at][3] = I[3])
           \/ (q = 3 /\ IsLeaf(F3(m, I), 3))
        /\ \/ F2(m, I) = Null
           \/ (lev[F2(m, I).at] = 1
               /\ up[F2(m, I).at][4] = I[4] /\ up[F2(m, I).at][3] = I[3] /\ up[F2(m, I).at][2] = I[2])
           \/ (q > 1 /\ IsLeaf(F2(m, I), q))
    BY <1>1, <1>2, PathInTree
  <2>5. /\ q = 3 => F2(n, I) = F3(n, I) /\ F1(n, I) = F3(n, I)
        /\ q = 2 => F1(n, I) = F2(n, I)
    BY <1>4a, PathInTree
  <2>6. Null.at = 0 /\ (IsLeaf(F3(m, I), 3) => F3(m, I).size) /\ (q > 1 /\ IsLeaf(F2(m, I), q) => F2(m, I).size)
    BY <2>4, Entries, LeafSize
  <2>7. /\ F4(m, I).at = t => k = 3 /\ up[t][4] = I[4]
        /\ F3(m, I).at = t /\ ~F3(m, I).size => k = 2 /\ up[t][4] = I[4] /\ up[t][3] = I[3]
        /\ F2(m, I).at = t /\ ~F2(m, I).size => k = 1 /\ up[t][4] = I[4] /\ up[t][3] = I[3] /\ up[t][2] = I[2]
    <3> HIDE DEF q
    <3>1. QED
      BY <2>2, <2>4, <2>6, <1>3
  <2>8. Agree(I, J, k) => q = k
    <3>1. Agree(I, J, k) => I[4] = J[4]
      BY DEF Agree
    <3>2. QED
      BY <3>1 DEF J
  <2>9. Agree(I, J, k) <=> Agree(I, J, k + 1) /\ I[k] = s
    <3>1. k \in 1 .. 3 /\ s = J[k]
      BY DEF s, J
    <3>2. QED
      BY <3>1 DEF Agree
  <2>10. Agree(I, J, k + 1) => At(m, I, k + 1) = Link(t)
    <3>1. Agree(I, J, k + 1) => At(m, I, k + 1) = At(m, J, k + 1)
      <4>1. k + 1 \in 1 .. 4 /\ k \in {1, 2, 3}
        OBVIOUS
      <4>2. QED
        BY <4>1, SamePath, AtLevels
    <3>2. QED
      BY <3>1, <1>3
  <2>11. Link(t).at = t /\ ~Link(t).size
    BY <2>2, Entries
  <2>12. (\A i \in (k + 1) .. 4 : up[t][i] = I[i]) => Agree(I, J, k + 1)
    BY <1>3 DEF Agree
  <2> HIDE DEF q
  <2>13. CASE k = 3
    <3>1. F4(m, I).at = t <=> Agree(I, J, 4)
      BY <2>13, <2>7, <2>10, <2>11, <2>12, AtLevels
    <3>2. F3(n, I) = IF Agree(I, J, 3) THEN e ELSE F3(m, I)
      BY <2>13, <3>1, <2>1, <2>3, <2>9, <1>5 DEF F3
    <3>3. CASE Agree(I, J, 3)
      <4>1. q = 3 /\ F1(n, I) = e
        BY <3>2, <3>3, <2>5, <2>8, <2>13
      <4>2. QED
        BY <4>1, <3>3, <2>3, <2>13 DEF q
    <3>4. CASE ~Agree(I, J, 3)
      <4>1. F3(n, I) = F3(m, I)
        BY <3>2, <3>4
      <4>2. F2(n, I) = F2(m, I)
        BY <4>1, <2>1, <2>7, <2>13, <1>5 DEF F2
      <4>3. F1(n, I) = F1(m, I)
        BY <4>2, <2>1, <2>7, <2>13, <1>5 DEF F1
      <4>4. QED
        BY <4>1, <4>2, <4>3, <2>3, <2>13, <3>4
    <3>5. QED
      BY <3>3, <3>4
  <2>14. CASE k = 2
    <3>0. F3(n, I) = F3(m, I)
      BY <2>14, <2>1, <2>3, <2>7, <1>5 DEF F3
    <3>1. F3(m, I).at = t /\ ~F3(m, I).size <=> Agree(I, J, 3)
      BY <2>14, <2>7, <2>10, <2>11, <2>12, AtLevels
    <3>2. F2(n, I) = IF Agree(I, J, 2) THEN e ELSE F2(m, I)
      BY <2>14, <3>0, <3>1, <2>1, <2>9, <1>5 DEF F2
    <3>3. CASE Agree(I, J, 2)
      <4>1. q = 2 /\ F1(n, I) = e
        BY <3>2, <3>3, <2>5, <2>8, <2>14
      <4>2. QED
        BY <4>1, <3>0, <3>3, <2>3, <2>14 DEF q
    <3>4. CASE ~Agree(I, J, 2)
      <4>2. F2(n, I) = F2(m, I)
        BY <3>2, <3>4
      <4>3. F1(n, I) = F1(m, I)
        BY <4>2, <2>1, <2>7, <2>14, <1>5 DEF F1
      <4>4. QED
        BY <3>0, <4>2, <4>3, <2>3, <2>14, <3>4
    <3>5. QED
      BY <3>3, <3>4
  <2>15. CASE k = 1
    <3>0. F3(n, I) = F3(m, I)
      BY <2>15, <2>1, <2>3, <2>7, <1>5 DEF F3
    <3>1. F2(n, I) = F2(m, I)
      BY <2>15, <2>1, <3>0, <2>7, <1>5 DEF F2
    <3>2. F2(m, I).at = t /\ ~F2(m, I).size <=> Agree(I, J, 2)
      BY <2>15, <2>7, <2>10, <2>11, <2>12, AtLevels
    <3>3. F1(n, I) = IF Agree(I, J, 1) THEN e ELSE F1(m, I)
      BY <2>15, <3>1, <3>2, <2>1, <2>9, <1>5 DEF F1
    <3>4. QED
      BY <3>0, <3>1, <3>3, <2>3, <2>15
  <2>16. QED
    BY <2>13, <2>14, <2>15
<1>7. Tree(p, n)
  BY <1>4 DEF Tree
<1>8. QED
  BY <1>4, <1>6, <1>7 DEF Changed, m, b, J

\* The tables with a new one in frame b, selected by the slot s of t.
AddTable(m, t, s, b) == [f \in DOMAIN m \cup {b} |->
                           IF f = b THEN EmptyTable
                           ELSE IF f = t THEN [m[f] EXCEPT ![s] = Link(b)]
                           ELSE m[f]]

\* A new table, linked in an empty entry: the tables stay a tree, and every walk finds
\* what it found before.
LEMMA AddType ==
    ASSUME NEW m, NEW b \in Nat, IsMem(m, b), NEW t \in DOMAIN m, NEW s \in Slots,
           NEW c \in Nat, c = b + 1, NEW n, n = AddTable(m, t, s, b)
    PROVE  /\ IsMem(n, c) /\ (\A f : f \in DOMAIN n <=> f \in DOMAIN m \/ f = b)
           /\ \A i \in Slots : n[b][i] = Null
           /\ \A f \in DOMAIN m : \A i \in Slots : n[f][i] = IF f = t /\ i = s THEN Link(b) ELSE m[f][i]
<1>1. /\ b \in Nat /\ DOMAIN m \subseteq FirstFrame .. (b - 1) /\ b \notin DOMAIN m
      /\ \A f \in DOMAIN m : m[f] \in [Slots -> EntryType]
  BY MemType DEF IsMem
<1>2. FirstFrame \in Nat /\ t \in FirstFrame .. (b - 1)
  BY <1>1, Sizes
<1>3. EmptyTable \in [Slots -> EntryType] /\ \A i \in Slots : EmptyTable[i] = Null
  BY Entries DEF EmptyTable
<1>4. Link(b) \in EntryType
  BY <1>1, Entries
<1>5. DOMAIN n = DOMAIN m \cup {b} /\ n[b] = EmptyTable
  BY DEF AddTable
<1>6. \A f \in DOMAIN m : n[f] = IF f = t THEN [m[f] EXCEPT ![s] = Link(b)] ELSE m[f]
  BY <1>1 DEF AddTable
<1>7. \A f \in DOMAIN m : n[f] \in [Slots -> EntryType]
  BY <1>1, <1>4, <1>6
<1>8. \A f \in DOMAIN m : \A i \in Slots : n[f][i] = IF f = t /\ i = s THEN Link(b) ELSE m[f][i]
  BY <1>1, <1>6
<1>9. n \in [DOMAIN n -> [Slots -> EntryType]]
  <2>1. n = [f \in DOMAIN n |-> n[f]]
    BY <1>5 DEF AddTable
  <2>2. \A f \in DOMAIN n : n[f] \in [Slots -> EntryType]
    BY <1>3, <1>5, <1>7
  <2>3. QED
    BY <2>1, <2>2
<1>10. c \in Nat /\ DOMAIN n \subseteq FirstFrame .. (c - 1)
  BY <1>1, <1>2, <1>5
<1>11. QED
  BY <1>3, <1>5, <1>8, <1>9, <1>10 DEF IsMem

LEMMA AddTree ==
    ASSUME NEW p \in PlanType, KernelPlan(p), NEW m, NEW b \in Nat, IsMem(m, b), NEW lev, NEW up, NEW par,
           TreeAt(p, m, lev, up, par), NEW t \in DOMAIN m, NEW s \in Slots,
           NEW j \in 1 .. 3, lev[t] = j + 1, Kind(p, IF lev[t] = 4 THEN s ELSE up[t][4]) <= j,
           NEW c \in Nat, c = b + 1, NEW n, n = AddTable(m, t, s, b)
    PROVE  Tree(p, n)
<1> DEFINE lev2 == [f \in DOMAIN n |-> IF f = b THEN j ELSE lev[f]]
           new  == [i \in Levels |-> IF i = j + 1 THEN s ELSE up[t][i]]
           up2  == [f \in DOMAIN n |-> IF f = b THEN new ELSE up[f]]
           par2 == [f \in DOMAIN n |-> IF f = b THEN t ELSE par[f]]
<1>1. /\ IsMem(n, c) /\ (\A f : f \in DOMAIN n <=> f \in DOMAIN m \/ f = b)
      /\ \A i \in Slots : n[b][i] = Null
      /\ \A f \in DOMAIN m : \A i \in Slots : n[f][i] = IF f = t /\ i = s THEN Link(b) ELSE m[f][i]
  BY AddType
<1>2. b \notin DOMAIN m /\ b \in Nat /\ \A f \in DOMAIN m : f \in Nat /\ f < b
  BY MemType
<1>3. /\ lev \in [DOMAIN m -> Levels] /\ up \in [DOMAIN m -> Vectors]
      /\ FirstFrame \in DOMAIN m /\ lev[FirstFrame] = 4
      /\ \A f \in DOMAIN m : \A i \in Slots : EntryOK(p, m, lev, up, par, f, i)
  BY DEF TreeAt
<1>4. up[t] \in Vectors /\ new \in Vectors /\ new[j + 1] = s /\ \A i \in (j + 2) .. 4 : new[i] = up[t][i]
  <2>1. up[t] \in Vectors
    BY <1>3
  <2>2. new \in Vectors
    BY <2>1 DEF Vectors
  <2>3. new[j + 1] = s /\ \A i \in (j + 2) .. 4 : new[i] = up[t][i]
    BY DEF Levels
  <2>4. QED
    BY <2>1, <2>2, <2>3
<1>5. /\ lev2[b] = j /\ up2[b] = new /\ par2[b] = t
      /\ \A f \in DOMAIN m : lev2[f] = lev[f] /\ up2[f] = up[f] /\ par2[f] = par[f]
  BY <1>1, <1>2
<1>6. /\ lev2 \in [DOMAIN n -> Levels] /\ up2 \in [DOMAIN n -> Vectors]
      /\ FirstFrame \in DOMAIN n /\ lev2[FirstFrame] = 4
  <2>1. j \in Levels
    BY DEF Levels
  <2>2. \A f \in DOMAIN n : f # b => f \in DOMAIN m
    BY <1>1
  <2>3. QED
    BY <2>1, <2>2, <1>1, <1>2, <1>3, <1>4
<1> HIDE DEF lev2, up2, par2, new
<1>7. ASSUME NEW f \in DOMAIN n, NEW i \in Slots
      PROVE  EntryOK(p, n, lev2, up2, par2, f, i)
  <2>1. CASE f = b
    <3>1. n[f][i] = Null /\ lev2[f] = j /\ j # 4 /\ up2[f] = new
      BY <2>1, <1>1, <1>5
    <3>2. Kind(p, new[4]) <= j
      <4>1. CASE j = 3
        BY <4>1, <1>4
      <4>2. CASE j # 3
        <5>1. lev[t] # 4 /\ new[4] = up[t][4]
          BY <4>2, <1>4
        <5>2. QED
          BY <5>1
      <4>3. QED
        BY <4>1, <4>2
    <3>3. QED
      BY <3>1, <3>2 DEF EntryOK
  <2>2. CASE f = t /\ i = s
    <3>1. f \in DOMAIN m /\ n[f][i] = Link(b) /\ lev2[f] = j + 1 /\ up2[f] = up[t]
      BY <2>2, <1>1, <1>5
    <3>2. Link(b).at = b /\ IsLink(Link(b), n)
      BY <1>1, <1>2, Entries DEF IsLink
    <3>3. Kind(p, IF lev2[f] = 4 THEN i ELSE up2[f][4]) <= j
      BY <3>1, <2>2
    <3>4. Kind(p, IF lev2[f] = 4 THEN i ELSE up2[f][4]) \in 1 .. 3
      BY KindType
    <3>5. lev2[b] = j /\ par2[b] = f /\ up2[b][j + 1] = i /\ \A z \in (j + 2) .. 4 : up2[b][z] = up2[f][z]
      BY <3>1, <2>2, <1>4, <1>5
    <3>6. (j + 1) - 1 = j /\ (j + 1) + 1 = j + 2
      OBVIOUS
    <3>7. LET k == Kind(p, IF lev2[f] = 4 THEN i ELSE up2[f][4]) IN k <= j + 1 /\ k < j + 1
      BY <3>3, <3>4
    <3>8. QED
      BY <3>1, <3>2, <3>5, <3>6, <3>7 DEF EntryOK
  <2>3. CASE f # b /\ ~(f = t /\ i = s)
    <3>1. f \in DOMAIN m /\ n[f][i] = m[f][i] /\ lev2[f] = lev[f] /\ up2[f] = up[f]
      BY <2>3, <1>1, <1>5
    <3>2. EntryOK(p, m, lev, up, par, f, i)
      BY <3>1, <1>3
    <3>3. IsLink(m[f][i], m) => /\ IsLink(m[f][i], n)
                                /\ lev2[m[f][i].at] = lev[m[f][i].at]
                                /\ up2[m[f][i].at] = up[m[f][i].at]
                                /\ par2[m[f][i].at] = par[m[f][i].at]
      BY <1>1, <1>5 DEF IsLink
    <3>4. QED
      BY <3>1, <3>2, <3>3 DEF EntryOK
  <2>4. QED
    BY <2>1, <2>2, <2>3
<1>8. TreeAt(p, n, lev2, up2, par2)
  BY <1>6, <1>7 DEF TreeAt
<1>9. QED
  BY <1>8 DEF Tree

\* More tables: what is mapped stays, and every table that is selected.
Grown(m, n) == \A I \in Vectors :
    /\ F1(n, I) = F1(m, I)
    /\ F4(m, I) # Null => F4(n, I) = F4(m, I)
    /\ F3(m, I) # Null => F3(n, I) = F3(m, I)
    /\ F2(m, I) # Null => F2(n, I) = F2(m, I)

LEMMA AddGrown ==
    ASSUME NEW p \in PlanType, KernelPlan(p), NEW m, NEW b \in Nat, IsMem(m, b), NEW lev, NEW up, NEW par,
           TreeAt(p, m, lev, up, par), NEW t \in DOMAIN m, NEW s \in Slots,
           NEW j \in 1 .. 3, lev[t] = j + 1, Get(m, t, s) = Null, NEW n, n = AddTable(m, t, s, b)
    PROVE  Grown(m, n)
<1>1. /\ \A f : f \in DOMAIN n <=> f \in DOMAIN m \/ f = b
      /\ \A i \in Slots : n[b][i] = Null
      /\ \A f \in DOMAIN m : \A i \in Slots : n[f][i] = IF f = t /\ i = s THEN Link(b) ELSE m[f][i]
  <2>1. PICK c \in Nat : c = b + 1
    OBVIOUS
  <2>2. QED
    BY <2>1, AddType
<1>2. b \notin DOMAIN m /\ b \in Nat /\ b # 0 /\ 0 \notin DOMAIN m /\ FirstFrame \in DOMAIN m
  <2>1. FirstFrame \in DOMAIN m
    BY DEF TreeAt
  <2>2. b \notin DOMAIN m /\ b \in Nat /\ 0 \notin DOMAIN m /\ FirstFrame < b
    BY <2>1, MemType
  <2>3. QED
    BY <2>1, <2>2, Sizes
<1>3. Link(b).at = b /\ ~Link(b).size /\ Null.at = 0 /\ ~Null.size
  BY <1>2, Entries
<1>4. \A i \in Slots : Get(n, b, i) = Null /\ Get(n, 0, i) = Null /\ Get(m, 0, i) = Null
  BY <1>1, <1>2 DEF Get
<1>5. \A f \in DOMAIN m : \A i \in Slots :
         \/ Get(n, f, i) = Get(m, f, i)
         \/ Get(m, f, i) = Null /\ Get(n, f, i) = Link(b) /\ f = t
  BY <1>1 DEF Get
<1>6. ASSUME NEW I \in Vectors
      PROVE  /\ F1(n, I) = F1(m, I)
             /\ F4(m, I) # Null => F4(n, I) = F4(m, I)
             /\ F3(m, I) # Null => F3(n, I) = F3(m, I)
             /\ F2(m, I) # Null => F2(n, I) = F2(m, I)
  <2> DEFINE R(x, y) == y = x \/ (x = Null /\ y = Link(b))
  <2>1. I[1] \in Slots /\ I[2] \in Slots /\ I[3] \in Slots /\ I[4] \in Slots
    BY VectorElements
  <2>2. PICK q : q = Kind(p, I[4])
    OBVIOUS
  <2>3. /\ q \in 1 .. 3
        /\ F4(m, I) = Null \/ F4(m, I).at \in DOMAIN m
        /\ \/ F3(m, I) = Null
           \/ F3(m, I).at \in DOMAIN m
           \/ IsLeaf(F3(m, I), 3)
        /\ \/ F2(m, I) = Null
           \/ (F2(m, I).at \in DOMAIN m /\ lev[F2(m, I).at] = 1)
           \/ (q > 1 /\ IsLeaf(F2(m, I), q))
        /\ F4(m, I) = Null => F3(m, I) = Null
        /\ F3(m, I) = Null => F2(m, I) = Null
        /\ F2(m, I) = Null => F1(m, I) = Null
    BY <2>2, PathInTree DEF IsLink
  <2>4. (IsLeaf(F3(m, I), 3) => F3(m, I).size) /\ (q > 1 /\ IsLeaf(F2(m, I), q) => F2(m, I).size)
    BY <2>3, LeafSize
  <2>5. R(F4(m, I), F4(n, I))
    BY <2>1, <1>2, <1>5 DEF F4
  <2>6. R(F3(m, I), F3(n, I))
    <3>1. CASE F4(m, I) = Null
      BY <3>1, <2>1, <2>3, <2>5, <1>3, <1>4 DEF F3
    <3>2. CASE F4(m, I) # Null
      <4>1. F4(n, I) = F4(m, I) /\ F4(m, I).at \in DOMAIN m
        BY <3>2, <2>3, <2>5
      <4>2. QED
        BY <4>1, <2>1, <1>5 DEF F3
    <3>3. QED
      BY <3>1, <3>2
  <2>7. R(F2(m, I), F2(n, I))
    <3>1. CASE F3(m, I) = Null
      BY <3>1, <2>1, <2>3, <2>6, <1>3, <1>4 DEF F2
    <3>2. CASE F3(m, I) # Null /\ F3(m, I).size
      BY <3>2, <2>6 DEF F2
    <3>3. CASE F3(m, I) # Null /\ ~F3(m, I).size
      <4>1. F3(n, I) = F3(m, I) /\ F3(m, I).at \in DOMAIN m
        BY <3>3, <2>3, <2>4, <2>6
      <4>2. QED
        BY <4>1, <3>3, <2>1, <1>5 DEF F2
    <3>4. QED
      BY <3>1, <3>2, <3>3
  <2>8. F1(n, I) = F1(m, I)
    <3>1. CASE F2(m, I) = Null
      BY <3>1, <2>1, <2>3, <2>7, <1>3, <1>4 DEF F1
    <3>2. CASE F2(m, I) # Null /\ F2(m, I).size
      BY <3>2, <2>7 DEF F1
    <3>3. CASE F2(m, I) # Null /\ ~F2(m, I).size
      <4>1. F2(n, I) = F2(m, I) /\ F2(m, I).at \in DOMAIN m /\ F2(m, I).at # t
        BY <3>3, <2>3, <2>4, <2>7
      <4>2. QED
        BY <4>1, <3>3, <2>1, <1>5 DEF F1
    <3>4. QED
      BY <3>1, <3>2, <3>3
  <2>9. QED
    BY <2>5, <2>6, <2>7, <2>8
<1>7. QED
  BY <1>6 DEF Grown

\* A walk that has not gone wrong.
Good(p, w) == IsWalk(w) /\ ~w.wild /\ Tree(p, w.mem)

\* v has the tables of w and more.
Ext(w, v) == /\ Grown(w.mem, v.mem) /\ w.brk \in Nat /\ v.brk \in Nat /\ w.brk <= v.brk
             /\ \A f \in DOMAIN v.mem : f \in DOMAIN w.mem \/ (f \in Nat /\ w.brk <= f)

\* Ext: tables may have been added, and frames taken; all else is as it was.
LEMMA ExtTransitive ==
    ASSUME NEW u, NEW v, NEW w, Ext(u, v), Ext(v, w)
    PROVE  Ext(u, w)
<1>1. Grown(u.mem, w.mem)
  BY DEF Ext, Grown
<1>2. u.brk \in Nat /\ w.brk \in Nat /\ u.brk <= w.brk
  BY DEF Ext
<1>3. \A f \in DOMAIN w.mem : f \in DOMAIN u.mem \/ (f \in Nat /\ u.brk <= f)
  BY DEF Ext
<1>4. QED
  BY <1>1, <1>2, <1>3 DEF Ext

LEMMA ExtReflexive ==
    ASSUME NEW w, NEW v, IsWalk(w), v.mem = w.mem, v.brk = w.brk
    PROVE  Ext(w, v)
<1>1. w.brk \in Nat
  BY DEF IsWalk, IsMem
<1>2. QED
  BY <1>1 DEF Ext, Grown

\* The fields of a walk determine it.
LEMMA GoodFields ==
    ASSUME NEW p, NEW w, Good(p, w), NEW v, v = [idx |-> v.idx, tab |-> v.tab, mem |-> v.mem, brk |-> v.brk, wild |-> v.wild],
           v.idx \in [Levels -> 0 .. TableEntries], v.tab \in [Levels -> Nat],
           v.mem = w.mem, v.brk = w.brk, v.wild = w.wild
    PROVE  Good(p, v)
BY DEF Good, IsWalk

LEMMA GrownPath ==
    ASSUME NEW w, NEW v, NEW k \in 1 .. 4, OnPath(w, k), Grown(w.mem, v.mem), v.idx = w.idx,
           \A j \in k .. 4 : v.tab[j] = w.tab[j]
    PROVE  OnPath(v, k)
<1>1. w.idx \in Vectors /\ w.tab[4] = FirstFrame /\ v.tab[4] = w.tab[4]
  BY DEF OnPath
<1>2. /\ F4(w.mem, w.idx) # Null => F4(v.mem, w.idx) = F4(w.mem, w.idx)
      /\ F3(w.mem, w.idx) # Null => F3(v.mem, w.idx) = F3(w.mem, w.idx)
      /\ F2(w.mem, w.idx) # Null => F2(v.mem, w.idx) = F2(w.mem, w.idx)
  BY <1>1 DEF Grown
<1>3. (k <= 3 => v.tab[3] = w.tab[3]) /\ (k <= 2 => v.tab[2] = w.tab[2]) /\ (k <= 1 => v.tab[1] = w.tab[1])
  OBVIOUS
<1>4. QED
  BY <1>1, <1>2, <1>3 DEF OnPath, On

\* The entry of level j + 1, above the pages.
LEMMA EntryAbove ==
    ASSUME NEW p \in PlanType, KernelPlan(p), NEW m, NEW b, IsMem(m, b), Tree(p, m),
           NEW I \in Vectors, NEW j \in 1 .. 3, Kind(p, I[4]) <= j, At(m, I, j + 1) # Null
    PROVE  IsLink(At(m, I, j + 1), m) /\ At(m, I, j + 1).at # 0 /\ ~At(m, I, j + 1).size
<1>1. PICK lev, up, par : TreeAt(p, m, lev, up, par)
  BY DEF Tree
<1>2. PICK k : k = Kind(p, I[4])
  OBVIOUS
<1>3. /\ k \in 1 .. 3
      /\ F4(m, I) = Null \/ IsLink(F4(m, I), m)
      /\ F3(m, I) = Null \/ (k < 3 /\ IsLink(F3(m, I), m)) \/ k = 3
      /\ F2(m, I) = Null \/ (k = 1 /\ IsLink(F2(m, I), m)) \/ k > 1
  BY <1>1, <1>2, PathInTree
<1>4. k <= j
  BY <1>2
<1>5. IsLink(At(m, I, j + 1), m)
  <2>1. CASE j = 3
    BY <2>1, <1>3, AtLevels
  <2>2. CASE j = 2
    BY <2>2, <1>3, <1>4, AtLevels
  <2>3. CASE j = 1
    BY <2>3, <1>3, <1>4, AtLevels
  <2>4. QED
    BY <2>1, <2>2, <2>3
<1>6. \A e : IsLink(e, m) => e.at # 0 /\ ~e.size
  BY MemType, Entries DEF IsLink
<1>7. QED
  BY <1>5, <1>6

LEMMA StepDown ==
    ASSUME NEW w, NEW j \in 1 .. 3, OnPath(w, j + 1), At(w.mem, w.idx, j + 1) # Null,
           ~At(w.mem, w.idx, j + 1).size, w.tab[j] = At(w.mem, w.idx, j + 1).at
    PROVE  OnPath(w, j)
<1>1. CASE j = 3
  BY <1>1, AtLevels DEF OnPath, On
<1>2. CASE j = 2
  BY <1>2, AtLevels DEF OnPath, On
<1>3. CASE j = 1
  BY <1>3, AtLevels DEF OnPath, On
<1>4. QED
  BY <1>1, <1>2, <1>3

\* What the code's functions on the tables do to a walk that is on its path: they stay on
\* it, one level further down, and add tables at most.
LEMMA NewTableFacts ==
    ASSUME NEW p \in PlanType, KernelPlan(p), NEW w, Good(p, w), NEW j \in 1 .. 3, OnPath(w, j + 1),
           Kind(p, w.idx[4]) <= j, At(w.mem, w.idx, j + 1) = Null,
           NEW v, v = NewTable(w, j, w.idx[j + 1])
    PROVE  /\ Good(p, v) /\ OnPath(v, j) /\ Ext(w, v) /\ v.idx = w.idx
           /\ \A i \in 1 .. 4 : i # j => v.tab[i] = w.tab[i]
           /\ v.tab[j] # 0 /\ At(v.mem, v.idx, j) = Null
<1> DEFINE m == w.mem
           b == w.brk
           t == w.tab[j + 1]
           s == w.idx[j + 1]
           n == AddTable(m, t, s, b)
<1>1. IsWalk(w) /\ ~w.wild /\ IsMem(m, b) /\ b \in Nat /\ j + 1 \in 1 .. 4
  BY DEF Good, IsWalk, IsMem
<1>2. PICK lev, up, par : TreeAt(p, m, lev, up, par)
  BY DEF Good, Tree
<1>3. /\ t \in DOMAIN m /\ s \in Slots /\ lev[t] = j + 1
      /\ \A i \in (j + 1 + 1) .. 4 : up[t][i] = w.idx[i]
      /\ m[t][s] = Null
  <2>1. PICK k \in 1 .. 4 : k = j + 1
    OBVIOUS
  <2>2. /\ w.tab[k] \in DOMAIN w.mem /\ w.idx[k] \in Slots /\ lev[w.tab[k]] = k
        /\ \A i \in (k + 1) .. 4 : up[w.tab[k]][i] = w.idx[i]
        /\ Entry(w, k) = At(w.mem, w.idx, k) /\ Entry(w, k) = w.mem[w.tab[k]][w.idx[k]]
    BY <1>1, <1>2, <2>1, OnTree
  <2>3. QED
    BY <2>1, <2>2
<1>4. PICK c \in Nat : c = b + 1
  BY <1>1
<1>5. v = [idx |-> w.idx, tab |-> [w.tab EXCEPT ![j] = b], mem |-> n, brk |-> c, wild |-> w.wild]
  <2>1. w = [idx |-> w.idx, tab |-> w.tab, mem |-> w.mem, brk |-> w.brk, wild |-> w.wild]
    BY <1>1 DEF IsWalk
  <2>2. v = [w EXCEPT !.tab[j] = b, !.brk = b + 1, !.mem = n]
    BY <1>3 DEF NewTable, AddTable
  <2>3. QED
    BY <2>1, <2>2, <1>4
<1>6. w.idx \in [Levels -> 0 .. TableEntries] /\ w.tab \in [Levels -> Nat] /\ w.wild \in BOOLEAN
  BY <1>1 DEF IsWalk
<1>7. /\ v.idx = w.idx /\ v.mem = n /\ v.brk = c /\ v.wild = w.wild
      /\ v.tab \in [Levels -> Nat] /\ v.tab[j] = b
      /\ \A i \in 1 .. 4 : i # j => v.tab[i] = w.tab[i]
  BY <1>1, <1>5, <1>6 DEF Levels
<1> HIDE DEF n, m, b, t, s
<1>8. /\ IsMem(n, c) /\ (\A f : f \in DOMAIN n <=> f \in DOMAIN m \/ f = b)
      /\ \A i \in Slots : n[b][i] = Null
      /\ \A f \in DOMAIN m : \A i \in Slots : n[f][i] = IF f = t /\ i = s THEN Link(b) ELSE m[f][i]
  BY <1>1, <1>3, <1>4, AddType DEF n
<1>9. Kind(p, IF lev[t] = 4 THEN s ELSE up[t][4]) <= j
  <2>1. CASE j = 3
    BY <2>1, <1>3 DEF s
  <2>2. CASE j # 3
    <3>1. lev[t] # 4 /\ up[t][4] = w.idx[4]
      BY <2>2, <1>3
    <3>2. QED
      BY <3>1
  <2>3. QED
    BY <2>1, <2>2
<1>10. Tree(p, n)
  BY <1>1, <1>2, <1>3, <1>4, <1>9, AddTree DEF n
<1>11. Grown(m, n)
  <2>1. Get(m, t, s) = Null
    BY <1>3 DEF Get
  <2>2. QED
    BY <1>1, <1>2, <1>3, <2>1, AddGrown DEF n
<1>12. Good(p, v)
  <2>1. IsWalk(v)
    BY <1>5, <1>6, <1>7, <1>8 DEF IsWalk
  <2>2. QED
    BY <2>1, <1>1, <1>7, <1>10 DEF Good
<1>13. Ext(w, v)
  <2>1. b \in Nat /\ c \in Nat /\ b <= c
    BY <1>1, <1>4
  <2>2. QED
    BY <2>1, <1>7, <1>8, <1>11 DEF Ext, m, b
<1>14. OnPath(v, j + 1)
  <2>1. \A i \in (j + 1) .. 4 : v.tab[i] = w.tab[i]
    BY <1>7
  <2>2. QED
    BY <2>1, <1>1, <1>7, <1>11, GrownPath DEF m
<1>15. PICK lev2, up2, par2 : TreeAt(p, v.mem, lev2, up2, par2)
  BY <1>12 DEF Good, Tree
<1>16. IsWalk(v)
  BY <1>12 DEF Good
<1>17. At(v.mem, v.idx, j + 1) = Link(b)
  <2>1. PICK k \in 1 .. 4 : k = j + 1
    OBVIOUS
  <2>2. At(v.mem, v.idx, k) = v.mem[v.tab[k]][v.idx[k]]
    <3>1. OnPath(v, k)
      BY <1>14, <2>1
    <3>2. p \in PlanType /\ KernelPlan(p) /\ k \in 1 .. 4
      BY <2>1
    <3>3. /\ Entry(v, k) = At(v.mem, v.idx, k) /\ Entry(v, k) = v.mem[v.tab[k]][v.idx[k]]
      BY ONLY <1>15, <1>16, <3>1, <3>2, OnTree
    <3>4. QED
      BY <3>3
  <2>3. v.tab[k] = t /\ v.idx[k] = s /\ v.mem = n
    BY <2>1, <1>7 DEF t, s
  <2>4. n[t][s] = Link(b)
    BY <1>3, <1>8
  <2>5. QED
    BY <2>1, <2>2, <2>3, <2>4
<1>18. Link(b).at = b /\ ~Link(b).size /\ Link(b) # Null
  BY <1>1, Entries
<1>19. OnPath(v, j)
  BY <1>7, <1>14, <1>17, <1>18, StepDown
<1>20. At(v.mem, v.idx, j) = Null
  <2>1. p \in PlanType /\ KernelPlan(p) /\ j \in 1 .. 4
    OBVIOUS
  <2>2. At(v.mem, v.idx, j) = v.mem[v.tab[j]][v.idx[j]] /\ v.idx[j] \in Slots
    BY ONLY <1>19, <1>15, <1>16, <2>1, OnTree
  <2>3. QED
    BY <2>2, <1>7, <1>8
<1>21. b # 0
  <2>1. FirstFrame < b
    BY <1>1, <1>2, MemType DEF TreeAt
  <2>2. QED
    BY <2>1, <1>1, Sizes
<1>22. QED
  BY <1>7, <1>12, <1>13, <1>19, <1>20, <1>21

LEMMA FollowFacts ==
    ASSUME NEW p \in PlanType, KernelPlan(p), NEW w, Good(p, w), NEW j \in 1 .. 3, OnPath(w, j + 1),
           Kind(p, w.idx[4]) <= j, NEW v, v = Follow(w, j, w.idx[j + 1])
    PROVE  /\ Good(p, v) /\ OnPath(v, j) /\ Ext(w, v) /\ v.idx = w.idx
           /\ \A i \in 1 .. 4 : i # j => v.tab[i] = w.tab[i]
           /\ v.tab[j] # 0
<1>1. IsWalk(w) /\ ~w.wild /\ IsMem(w.mem, w.brk) /\ w.idx \in Vectors
  BY DEF Good, IsWalk, OnPath
<1>2. PICK k \in 1 .. 4 : k = j + 1
  OBVIOUS
<1>3. Valid(w, k) /\ Entry(w, k) = At(w.mem, w.idx, k)
  <2>1. PICK lev, up, par : TreeAt(p, w.mem, lev, up, par)
    BY DEF Good, Tree
  <2>2. OnPath(w, k)
    BY <1>2
  <2>3. QED
    BY <1>1, <2>1, <2>2, OnTree
<1>4. CASE At(w.mem, w.idx, j + 1) = Null
  <2>1. v = NewTable(w, j, w.idx[j + 1])
    BY <1>2, <1>3, <1>4, Entries DEF Follow
  <2>2. QED
    BY <2>1, <1>4, NewTableFacts
<1>5. CASE At(w.mem, w.idx, j + 1) # Null
  <2> DEFINE e == At(w.mem, w.idx, j + 1)
  <2>1. IsLink(e, w.mem) /\ e.at # 0 /\ ~e.size /\ e # Null
    BY <1>1, <1>5, EntryAbove DEF Good
  <2>2. v = [w EXCEPT !.tab[j] = e.at] /\ e.at \in Nat
    <3>1. e.at \in Nat
      BY <2>1, <1>1, MemType DEF IsLink
    <3>2. QED
      BY <3>1, <2>1, <1>2, <1>3 DEF Follow
  <2>3. /\ w = [idx |-> w.idx, tab |-> w.tab, mem |-> w.mem, brk |-> w.brk, wild |-> w.wild]
        /\ w.idx \in [Levels -> 0 .. TableEntries] /\ w.tab \in [Levels -> Nat]
    BY <1>1 DEF IsWalk
  <2> HIDE DEF e
  <2>4. /\ v = [idx |-> v.idx, tab |-> v.tab, mem |-> v.mem, brk |-> v.brk, wild |-> v.wild]
        /\ v.idx = w.idx /\ v.mem = w.mem /\ v.brk = w.brk /\ v.wild = w.wild
        /\ v.tab \in [Levels -> Nat] /\ v.tab[j] = e.at
        /\ \A i \in 1 .. 4 : i # j => v.tab[i] = w.tab[i]
    BY <2>2, <2>3 DEF Levels
  <2>5. Good(p, v)
    BY <2>3, <2>4, GoodFields
  <2>6. Ext(w, v)
    BY <1>1, <2>4, ExtReflexive
  <2>7. OnPath(v, j + 1)
    <3>1. \A i \in (j + 1) .. 4 : v.tab[i] = w.tab[i]
      BY <2>4
    <3>2. j + 1 \in 1 .. 4 /\ Grown(w.mem, v.mem)
      BY <2>6 DEF Ext
    <3>3. QED
      BY <2>4, <3>1, <3>2, GrownPath
  <2>8. OnPath(v, j)
    BY <2>1, <2>4, <2>7, StepDown DEF e
  <2>9. QED
    BY <2>1, <2>4, <2>5, <2>6, <2>8
<1>6. QED
  BY <1>4, <1>5

\* v is w, with the tables down to level k.
Down(p, w, v, k) == /\ Good(p, v) /\ OnPath(v, k) /\ Ext(w, v) /\ v.idx = w.idx
                    /\ \A i \in 1 .. (k - 1) : v.tab[i] = w.tab[i]
                    /\ \A i \in 1 .. 3 : w.tab[i] # 0 => v.tab[i] # 0

LEMMA DownLoad ==
    ASSUME NEW p \in PlanType, KernelPlan(p), NEW w, NEW u, NEW j \in 1 .. 3, NEW k, k = j + 1, Down(p, w, u, k),
           Kind(p, w.idx[4]) <= j, NEW v, v = Load(u, j)
    PROVE  Down(p, w, v, j)
<1>1. Good(p, u) /\ OnPath(u, j + 1) /\ Ext(w, u) /\ u.idx = w.idx /\ ~u.wild
  BY DEF Down, Good
<1>2. /\ \A i \in 1 .. j : u.tab[i] = w.tab[i]
      /\ \A i \in 1 .. 3 : w.tab[i] # 0 => u.tab[i] # 0
  BY DEF Down
<1>3. v = Follow(u, j, u.idx[j + 1]) /\ Kind(p, u.idx[4]) <= j
  BY <1>1 DEF Load
<1>4. /\ Good(p, v) /\ OnPath(v, j) /\ Ext(u, v) /\ v.idx = u.idx
      /\ \A i \in 1 .. 4 : i # j => v.tab[i] = u.tab[i]
      /\ v.tab[j] # 0
  BY <1>1, <1>3, FollowFacts
<1>5. Ext(w, v)
  BY <1>1, <1>4, ExtTransitive
<1>6. /\ \A i \in 1 .. (j - 1) : v.tab[i] = w.tab[i]
      /\ \A i \in 1 .. 3 : w.tab[i] # 0 => v.tab[i] # 0
  BY <1>2, <1>4
<1>7. QED
  BY <1>1, <1>4, <1>5, <1>6 DEF Down

LEMMA DownSame ==
    ASSUME NEW p, NEW w, Good(p, w), NEW k \in 1 .. 4, OnPath(w, k)
    PROVE  Down(p, w, w, k)
<1>1. Ext(w, w)
  BY ExtReflexive DEF Good
<1>2. QED
  BY <1>1 DEF Down

\* Down to the level of the pages, through tables that are there or are made.
LEMMA DescendFacts ==
    ASSUME NEW p \in PlanType, KernelPlan(p), NEW w, Good(p, w), NEW c \in 1 .. 4, NEW k \in 1 .. c,
           OnPath(w, c), Kind(p, w.idx[4]) <= k
    PROVE  Down(p, w, Descend(w, c, k), k)
<1> DEFINE w3 == IF c > 3 /\ k <= 3 THEN Load(w, 3) ELSE w
           w2 == IF c > 2 /\ k <= 2 THEN Load(w3, 2) ELSE w3
           w1 == IF c > 1 /\ k <= 1 THEN Load(w2, 1) ELSE w2
<1>1. Descend(w, c, k) = w1
  BY DEF Descend
<1>2. Down(p, w, w, c) /\ Kind(p, w.idx[4]) \in 1 .. 3
  BY DownSame, KindType
<1>3. IF c > 3 /\ k <= 3 THEN Down(p, w, w3, 3) ELSE Down(p, w, w3, c)
  <2>1. CASE c > 3 /\ k <= 3
    <3>1. c = 3 + 1 /\ Kind(p, w.idx[4]) <= 3
      BY <2>1, <1>2
    <3>2. Down(p, w, Load(w, 3), 3)
      BY <3>1, <1>2, DownLoad
    <3>3. QED
      BY <3>2, <2>1
  <2>2. CASE ~(c > 3 /\ k <= 3)
    BY <2>2, <1>2
  <2>3. QED
    BY <2>1, <2>2
<1> HIDE DEF w3
<1>4. IF c > 2 /\ k <= 2 THEN Down(p, w, w2, 2) ELSE Down(p, w, w3, c) \/ (c > 3 /\ k = 3 /\ Down(p, w, w3, 3))
  <2>1. CASE c > 2 /\ k <= 2
    <3>1. Down(p, w, w3, 3) /\ 3 = 2 + 1 /\ Kind(p, w.idx[4]) <= 2
      BY <2>1, <1>2, <1>3
    <3>2. Down(p, w, Load(w3, 2), 2)
      BY <3>1, DownLoad
    <3>3. QED
      BY <3>2, <2>1
  <2>2. CASE ~(c > 2 /\ k <= 2)
    BY <2>2, <1>3
  <2>3. QED
    BY <2>1, <2>2
<1>5. ~(c > 2 /\ k <= 2) => w2 = w3
  OBVIOUS
<1> HIDE DEF w2
<1>6. CASE c > 1 /\ k <= 1
  <2>1. Down(p, w, w2, 2) /\ 2 = 1 + 1 /\ Kind(p, w.idx[4]) <= 1
    <3>1. Kind(p, w.idx[4]) <= 1
      BY <1>2, <1>6
    <3>2. CASE c > 2
      BY <3>1, <3>2, <1>4, <1>6
    <3>3. CASE c = 2
      BY <3>1, <3>3, <1>4, <1>5, <1>3
    <3>4. QED
      BY <3>2, <3>3, <1>6
  <2>2. Down(p, w, Load(w2, 1), 1)
    BY <2>1, DownLoad
  <2>3. k = 1 /\ w1 = Load(w2, 1)
    BY <1>6
  <2>4. QED
    BY <2>2, <2>3, <1>1
<1>7. CASE ~(c > 1 /\ k <= 1)
  <2>1. w1 = w2
    BY <1>7
  <2>2. CASE c > 2 /\ k <= 2
    <3>1. k = 2
      BY <2>2, <1>7
    <3>2. QED
      BY <3>1, <2>1, <2>2, <1>1, <1>4
  <2>3. CASE c > 3 /\ k = 3
    <3>1. Down(p, w, w3, 3) /\ w2 = w3
      BY <2>3, <1>3, <1>5
    <3>2. QED
      BY <3>1, <2>1, <2>3, <1>1
  <2>4. CASE k = c
    <3>1. Down(p, w, w3, c) /\ w2 = w3
      BY <2>4, <1>3, <1>5
    <3>2. QED
      BY <3>1, <2>1, <2>4, <1>1
  <2>5. QED
    BY <2>2, <2>3, <2>4, <1>7
<1>8. QED
  BY <1>6, <1>7

\* w with other indices.
With(w, I) == [w EXCEPT !.idx = I]

LEMMA WithFacts ==
    ASSUME NEW p, NEW w, Good(p, w), NEW I \in Vectors
    PROVE  /\ Good(p, With(w, I)) /\ With(w, I).idx = I /\ With(w, I).tab = w.tab
           /\ With(w, I).mem = w.mem /\ With(w, I).brk = w.brk /\ With(w, I).wild = w.wild
           /\ Ext(w, With(w, I))
<1>1. IsWalk(w)
  BY DEF Good
<1>2. /\ w = [idx |-> w.idx, tab |-> w.tab, mem |-> w.mem, brk |-> w.brk, wild |-> w.wild]
      /\ w.tab \in [Levels -> Nat]
  BY <1>1 DEF IsWalk
<1>3. /\ With(w, I).idx = I /\ With(w, I).tab = w.tab
      /\ With(w, I).mem = w.mem /\ With(w, I).brk = w.brk /\ With(w, I).wild = w.wild
      /\ With(w, I) = [idx |-> I, tab |-> w.tab, mem |-> w.mem, brk |-> w.brk, wild |-> w.wild]
  BY <1>2 DEF With
<1>4. I \in [Levels -> 0 .. TableEntries]
  BY Sizes DEF Vectors
<1>5. Good(p, With(w, I))
  BY <1>2, <1>3, <1>4, GoodFields
<1>6. Ext(w, With(w, I))
  BY <1>1, <1>3, ExtReflexive
<1>7. QED
  BY <1>3, <1>5, <1>6

\* It is on its path as far as the indices are the same.
LEMMA WithPath ==
    ASSUME NEW p, NEW w, Good(p, w), NEW I \in Vectors, NEW c \in 1 .. 4, OnPath(w, c),
           c <= 3 => Agree(I, w.idx, c + 1)
    PROVE  /\ OnPath(With(w, I), c)
           /\ c <= 3 => At(w.mem, I, c + 1) = At(w.mem, w.idx, c + 1)
<1>1. /\ With(w, I).idx = I /\ With(w, I).tab = w.tab /\ With(w, I).mem = w.mem
  BY WithFacts
<1>2. CASE c = 4
  BY <1>1, <1>2 DEF OnPath, On
<1>3. CASE c = 3
  <2>1. F4(w.mem, I) = F4(w.mem, w.idx)
    BY <1>3, SamePath
  <2>2. QED
    BY <1>1, <1>3, <2>1, AtLevels DEF OnPath, On
<1>4. CASE c = 2
  <2>1. F4(w.mem, I) = F4(w.mem, w.idx) /\ F3(w.mem, I) = F3(w.mem, w.idx)
    BY <1>4, SamePath
  <2>2. QED
    BY <1>1, <1>4, <2>1, AtLevels DEF OnPath, On
<1>5. CASE c = 1
  <2>1. F4(w.mem, I) = F4(w.mem, w.idx) /\ F3(w.mem, I) = F3(w.mem, w.idx) /\ F2(w.mem, I) = F2(w.mem, w.idx)
    BY <1>5, SamePath
  <2>2. QED
    BY <1>1, <1>5, <2>1, AtLevels DEF OnPath, On
<1>6. QED
  BY <1>2, <1>3, <1>4, <1>5

\* To the next entry of level k.
LEMMA IncrementFacts ==
    ASSUME NEW p, NEW w, Good(p, w), NEW k \in 1 .. 4, OnPath(w, k), Carry(w, k) <= 4,
           NEW v, v = Increment(w, k)
    PROVE  /\ Carry(w, k) \in k .. 4 /\ v = With(w, After(w, k)) /\ Good(p, v) /\ OnPath(v, Carry(w, k))
           /\ v.idx = After(w, k) /\ v.idx \in Vectors /\ Num(v.idx) = Num(w.idx) + Span(k)
           /\ v.mem = w.mem /\ v.brk = w.brk /\ v.tab = w.tab
           /\ \A j \in 1 .. (k - 1) : v.idx[j] = w.idx[j]
<1>1. w.idx \in Vectors /\ k \in Levels
  BY DEF OnPath, Levels
<1>2. Carry(w, k) \in k .. 4
  <2>1. w.idx \in [Levels -> Nat]
    BY <1>1, Sizes DEF Vectors
  <2>2. QED
    BY <1>1, <2>1, CarryFacts
<1>3. v = With(w, After(w, k))
  BY DEF Increment, After, With
<1>4. After(w, k) \in Vectors /\ Num(After(w, k)) = Num(w.idx) + Span(k)
  BY <1>1, AfterFacts
<1>5. /\ Carry(w, k) <= 3 => Agree(After(w, k), w.idx, Carry(w, k) + 1)
      /\ \A j \in 1 .. (k - 1) : After(w, k)[j] = w.idx[j]
  <2>1. \A j \in 1 .. 4 : j < k \/ j > Carry(w, k) => After(w, k)[j] = w.idx[j]
    BY DEF After, Levels
  <2>2. QED
    BY <1>2, <2>1 DEF Agree
<1>6. OnPath(w, Carry(w, k)) /\ Carry(w, k) \in 1 .. 4
  BY <1>2 DEF OnPath, On
<1>7. /\ Good(p, v) /\ v.idx = After(w, k) /\ v.tab = w.tab /\ v.mem = w.mem /\ v.brk = w.brk
  BY <1>3, <1>4, WithFacts
<1>8. OnPath(v, Carry(w, k))
  BY <1>3, <1>4, <1>5, <1>6, WithPath
<1>9. QED
  BY <1>2, <1>3, <1>4, <1>5, <1>7, <1>8

\* To the next entry: its page is Span(k) further.
LEMMA AdvanceFacts ==
    ASSUME NEW p \in PlanType, KernelPlan(p), NEW w, Good(p, w), NEW k \in 1 .. 4, OnPath(w, k), Carry(w, k) <= 4,
           Kind(p, After(w, k)[4]) <= k, NEW v, v = AdvanceWrapping(w, k)
    PROVE  /\ Good(p, v) /\ OnPath(v, k) /\ Ext(w, v) /\ v.idx = After(w, k) /\ v.idx \in Vectors
           /\ Num(v.idx) = Num(w.idx) + Span(k)
           /\ \A j \in 1 .. (k - 1) : v.idx[j] = w.idx[j]
           /\ \A i \in 1 .. 3 : w.tab[i] # 0 => v.tab[i] # 0
<1>1. PICK u : u = Increment(w, k)
  OBVIOUS
<1>2. PICK c : c = Carry(w, k)
  OBVIOUS
<1>3. /\ c \in k .. 4 /\ Good(p, u) /\ OnPath(u, c)
      /\ u.idx = After(w, k) /\ u.idx \in Vectors /\ Num(u.idx) = Num(w.idx) + Span(k)
      /\ u.mem = w.mem /\ u.brk = w.brk /\ u.tab = w.tab
      /\ \A j \in 1 .. (k - 1) : u.idx[j] = w.idx[j]
  BY <1>1, <1>2, IncrementFacts
<1>4. v = Descend(u, c, k)
  BY <1>1, <1>2 DEF AdvanceWrapping
<1>5. Down(p, u, v, k)
  <2>1. c \in 1 .. 4 /\ k \in 1 .. c /\ Kind(p, u.idx[4]) <= k
    BY <1>3
  <2>2. QED
    BY <1>3, <1>4, <2>1, DescendFacts
<1>6. Ext(w, u)
  BY <1>3, ExtReflexive DEF Good
<1>7. /\ Good(p, v) /\ OnPath(v, k) /\ Ext(u, v) /\ v.idx = u.idx
      /\ \A i \in 1 .. 3 : u.tab[i] # 0 => v.tab[i] # 0
  BY <1>5 DEF Down
<1>8. Ext(w, v)
  BY <1>6, <1>7, ExtTransitive
<1>9. QED
  BY <1>3, <1>7, <1>8

\* The new tables of a search, all at index 0.
FreshTable(w, j) == NewTable([w EXCEPT !.idx[j] = 0], j, w.idx[j + 1])

LEMMA NewTablesStep ==
    ASSUME NEW p \in PlanType, KernelPlan(p), NEW w, Good(p, w), NEW j \in 1 .. 3, OnPath(w, j + 1),
           Kind(p, w.idx[4]) = 1, At(w.mem, w.idx, j + 1) = Null,
           NEW v, v = FreshTable(w, j)
    PROVE  /\ Good(p, v) /\ OnPath(v, j) /\ Ext(w, v) /\ At(v.mem, v.idx, j) = Null
           /\ v.idx \in Vectors /\ v.idx[j] = 0 /\ \A i \in 1 .. 4 : i # j => v.idx[i] = w.idx[i]
<1> DEFINE I == [w.idx EXCEPT ![j] = 0]
<1>1. w.idx \in Vectors
  BY DEF OnPath
<1>2. I \in Vectors /\ I[j] = 0 /\ \A i \in 1 .. 4 : i # j => I[i] = w.idx[i]
  <2>1. 0 \in Slots /\ j \in Levels
    BY Sizes
  <2>2. QED
    BY <1>1, <2>1 DEF Vectors, Levels
<1>3. [w EXCEPT !.idx[j] = 0] = With(w, I)
  BY DEF With
<1> HIDE DEF I
<1>4. PICK u : u = With(w, I)
  OBVIOUS
<1>5. /\ Good(p, u) /\ u.idx = I /\ u.tab = w.tab /\ u.mem = w.mem /\ Ext(w, u)
  BY <1>2, <1>4, WithFacts
<1>6. OnPath(u, j + 1) /\ At(u.mem, u.idx, j + 1) = Null
  <2>1. PICK c \in 1 .. 4 : c = j + 1
    OBVIOUS
  <2>2. Agree(I, w.idx, c) /\ (c <= 3 => Agree(I, w.idx, c + 1))
    BY <1>2, <2>1 DEF Agree
  <2>3. OnPath(w, c)
    BY <2>1
  <2>4. OnPath(u, c)
    BY <1>2, <1>4, <2>2, <2>3, WithPath
  <2>5. At(w.mem, I, c) = At(w.mem, w.idx, c)
    <3>1. c \in {2, 3, 4}
      BY <2>1
    <3>2. QED
      BY <3>1, <2>2, SamePath, AtLevels
  <2>6. QED
    BY <2>1, <2>4, <2>5, <1>5
<1>7. Kind(p, u.idx[4]) <= j
  <2>1. CASE j = 4
    BY <2>1
  <2>2. CASE j # 4
    BY <2>2, <1>2, <1>5
  <2>3. QED
    BY <2>1, <2>2
<1>8. v = NewTable(u, j, u.idx[j + 1])
  BY <1>2, <1>3, <1>4, <1>5 DEF FreshTable
<1>9. /\ Good(p, v) /\ OnPath(v, j) /\ Ext(u, v) /\ v.idx = u.idx /\ At(v.mem, v.idx, j) = Null
  BY <1>5, <1>6, <1>7, <1>8, NewTableFacts
<1>10. Ext(w, v)
  BY <1>5, <1>9, ExtTransitive
<1>11. QED
  BY <1>2, <1>5, <1>9, <1>10

\* The new tables of paging_index_find_spot.
LEMMA NewTablesFacts ==
    ASSUME NEW p \in PlanType, KernelPlan(p), NEW w, Good(p, w), NEW k \in 1 .. 3, OnPath(w, k + 1),
           Kind(p, w.idx[4]) = 1, At(w.mem, w.idx, k + 1) = Null,
           NEW c, c.level = 1, NEW v, v = NewTables(w, c, k)
    PROVE  Good(p, v) /\ OnPath(v, 1) /\ Ext(w, v) /\ v.idx = Zero(w.idx, k)
<1> DEFINE fresh(x, j) == IF j <= k /\ j >= c.level /\ ~x.wild
                          THEN NewTable([x EXCEPT !.idx[j] = 0], j, x.idx[j + 1]) ELSE x
           w3 == fresh(w, 3)
           w2 == fresh(w3, 2)
           w1 == fresh(w2, 1)
           D(x, j) == /\ Good(p, x) /\ OnPath(x, j) /\ Ext(w, x) /\ At(x.mem, x.idx, j) = Null
                      /\ x.idx \in Vectors /\ \A i \in 1 .. 4 : x.idx[i] = IF j <= i /\ i <= k THEN 0 ELSE w.idx[i]
<1>1. v = w1
  BY DEF NewTables
<1>2. w.idx \in Vectors
  BY DEF OnPath
<1>3. D(w, k + 1)
  <2>1. Ext(w, w)
    BY ExtReflexive DEF Good
  <2>2. QED
    BY <2>1, <1>2
<1>4. ASSUME NEW x, NEW j \in 1 .. k, D(x, j + 1) PROVE D(fresh(x, j), j)
  <2>1. PICK y : y = FreshTable(x, j)
    OBVIOUS
  <2>2. fresh(x, j) = y
    BY <1>4, <2>1 DEF Good, FreshTable
  <2>3. Kind(p, x.idx[4]) = 1
    <3>1. x.idx[4] = w.idx[4]
      BY <1>4
    <3>2. QED
      BY <3>1
  <2>4. j \in 1 .. 3 /\ Good(p, x) /\ OnPath(x, j + 1) /\ At(x.mem, x.idx, j + 1) = Null
    BY <1>4
  <2>5. /\ Good(p, y) /\ OnPath(y, j) /\ Ext(x, y) /\ At(y.mem, y.idx, j) = Null
        /\ y.idx \in Vectors /\ y.idx[j] = 0 /\ \A i \in 1 .. 4 : i # j => y.idx[i] = x.idx[i]
    BY <2>1, <2>3, <2>4, NewTablesStep
  <2>6. Ext(w, y)
    BY <1>4, <2>5, ExtTransitive
  <2>7. \A i \in 1 .. 4 : y.idx[i] = IF j <= i /\ i <= k THEN 0 ELSE w.idx[i]
    <3> SUFFICES ASSUME NEW i \in 1 .. 4 PROVE y.idx[i] = IF j <= i /\ i <= k THEN 0 ELSE w.idx[i]
      OBVIOUS
    <3>1. x.idx[i] = IF j + 1 <= i /\ i <= k THEN 0 ELSE w.idx[i]
      BY <1>4
    <3>2. QED
      BY <2>5, <3>1
  <2>8. QED
    BY <2>2, <2>5, <2>6, <2>7
<1>5. \A x, j : j > k => (j \in 1 .. 3 => fresh(x, j) = x)
  OBVIOUS
<1> HIDE DEF fresh, D
<1>6. D(w1, 1)
  <2>1. CASE k = 3
    <3>1. D(w3, 3)
      BY <2>1, <1>3, <1>4
    <3>2. D(w2, 2)
      BY <2>1, <3>1, <1>4
    <3>3. QED
      BY <2>1, <3>2, <1>4
  <2>2. CASE k = 2
    <3>1. w3 = w
      BY <2>2, <1>5
    <3>2. D(w2, 2)
      BY <2>2, <3>1, <1>3, <1>4
    <3>3. QED
      BY <2>2, <3>2, <1>4
  <2>3. CASE k = 1
    <3>1. w3 = w
      BY <2>3, <1>5
    <3>2. w2 = w
      BY <2>3, <3>1, <1>5
    <3>3. QED
      BY <2>3, <3>2, <1>3, <1>4
  <2>4. QED
    BY <2>1, <2>2, <2>3
<1>7. /\ Good(p, v) /\ OnPath(v, 1) /\ Ext(w, v) /\ v.idx \in Vectors
      /\ \A i \in 1 .. 4 : v.idx[i] = IF i <= k THEN 0 ELSE w.idx[i]
  BY <1>1, <1>6 DEF D
<1>8. v.idx = Zero(w.idx, k)
  BY <1>7 DEF Zero, Vectors, Levels
<1>9. QED
  BY <1>7, <1>8

\* Vectors whose digits below k are 0.
LEMMA Multiple ==
    ASSUME NEW J \in Vectors, NEW k \in 1 .. 4, \A j \in 1 .. (k - 1) : J[j] = 0
    PROVE  \E q \in Nat : Num(J) = q * Span(k)
<1> DEFINE N == TableEntries
           y == J[3] + J[4] * N
           x == J[2] + y * N
<1>1. /\ N \in Nat /\ y \in Nat /\ x \in Nat /\ J[1] \in Nat /\ J[2] \in Nat /\ J[3] \in Nat /\ J[4] \in Nat
      /\ Num(J) \in Nat /\ Span(2) \in Nat /\ Span(3) \in Nat /\ Span(4) \in Nat /\ Span(1) = 1
  BY Sizes, VectorElements, Upper, Spans
<1>2. /\ Num(J) = x * Span(2) + J[1]
      /\ Num(J) = y * Span(3) + (J[1] + J[2] * Span(2))
      /\ Num(J) = J[4] * Span(4) + (J[1] + J[2] * Span(2) + J[3] * Span(3))
  BY Upper
<1> HIDE DEF N, x, y
<1>3. CASE k = 1
  <2>1. Num(J) = Num(J) * Span(1)
    BY <1>1
  <2>2. QED
    BY <1>1, <1>3, <2>1
<1>4. CASE k = 2
  <2>1. Num(J) = x * Span(2)
    <3>1. J[1] = 0
      BY <1>4
    <3>2. QED
      BY <1>1, <1>2, <3>1
  <2>2. QED
    BY <1>1, <1>4, <2>1
<1>5. CASE k = 3
  <2>1. Num(J) = y * Span(3)
    <3>1. J[1] = 0 /\ J[2] = 0 /\ 0 * Span(2) = 0
      BY <1>1, <1>5
    <3>2. QED
      BY <1>1, <1>2, <3>1
  <2>2. QED
    BY <1>1, <1>5, <2>1
<1>6. CASE k = 4
  <2>1. Num(J) = J[4] * Span(4)
    <3>1. J[1] = 0 /\ J[2] = 0 /\ J[3] = 0 /\ 0 * Span(2) = 0 /\ 0 * Span(3) = 0
      BY <1>1, <1>6
    <3>2. QED
      BY <1>1, <1>2, <3>1
  <2>2. QED
    BY <1>1, <1>6, <2>1
<1>7. QED
  BY <1>3, <1>4, <1>5, <1>6

\* Pages of an entry of level k, as an interval.
LEMMA LowDigits ==
    ASSUME NEW v \in AllPages, NEW k \in 1 .. 4, NEW q \in Nat, v = q * Span(k)
    PROVE  \A j \in 1 .. (k - 1) : Digits(v)[j] = 0
<1>1. CASE k = 1
  BY <1>1
<1>2. CASE k # 1
  <2> DEFINE J == Digits(v)
             Z == Zero(J, k - 1)
             S == Span(k)
  <2>1. J \in Vectors /\ Num(J) = v /\ k - 1 \in 1 .. 3 /\ (k - 1) + 1 = k
    BY <1>2, NumOfDigits
  <2>2. PICK i \in 1 .. 3 : i = k - 1
    BY <2>1
  <2>3. /\ Z \in Vectors /\ \A j \in 1 .. (k - 1) : Z[j] = 0
        /\ Num(Z) <= v /\ v < Num(Z) + S
    <3>1. /\ Zero(J, i) \in Vectors /\ (\A j \in 1 .. i : Zero(J, i)[j] = 0)
          /\ Num(Zero(J, i)) <= Num(J) /\ Num(J) < Num(Zero(J, i)) + Span(i + 1)
      BY <2>1, ZeroFacts
    <3>2. QED
      BY <3>1, <2>1, <2>2
  <2> HIDE DEF Z, J
  <2>4. PICK r \in Nat : Num(Z) = r * S
    BY <2>3, Multiple
  <2>5. S \in Nat \ {0}
    BY Spans DEF Levels
  <2> HIDE DEF S
  <2>6. q = r
    <3>1. r * S <= v /\ v < r * S + S
      BY <2>3, <2>4
    <3>2. v = q * S + 0 /\ 0 \in 0 .. (S - 1)
      BY <2>5 DEF S
    <3>3. q \in Nat /\ r \in Nat
      OBVIOUS
    <3>4. QED
      BY ONLY <3>1, <3>2, <3>3, <2>5, Between
  <2>7. Num(Z) = Num(J)
    BY <2>1, <2>4, <2>6 DEF S
  <2>8. Z = J
    BY <2>1, <2>3, <2>7, DigitsOfNum
  <2>9. QED
    BY <2>3, <2>8 DEF J
<1>3. QED
  BY <1>1, <1>2

LEMMA EntryInside ==
    ASSUME NEW J \in Vectors, NEW k \in 1 .. 4, \A j \in 1 .. (k - 1) : J[j] = 0
    PROVE  /\ Num(J) + Span(k) <= TableEntries * Span(4)
           /\ \A I \in Vectors : Num(J) <= Num(I) /\ Num(I) < Num(J) + Span(k) =>
                 Agree(I, J, k) /\ Num(I) % Span(k) = Num(I) - Num(J)
<1> DEFINE N == TableEntries
           S == Span(k)
           A == N * Span(4)
<1>1. S \in Nat \ {0} /\ N \in Nat /\ Num(J) \in Nat /\ A \in Nat /\ Num(J) < A
  <2>1. S \in Nat \ {0}
    BY Spans DEF Levels
  <2>2. Span(4) \in Nat /\ N \in Nat
    BY Spans, Sizes
  <2>3. A \in Nat
    BY <2>2
  <2>4. QED
    BY <2>1, <2>2, <2>3, Upper
<1>2. PICK q \in Nat : Num(J) = q * S
  BY Multiple
<1>3. \E M \in Nat : A = M * S
  <2>1. /\ Span(1) = 1 /\ Span(2) = N /\ Span(3) = N * N /\ Span(4) = N * N * N
    BY Spans
  <2>2. A = (N * N * N * N) * Span(1) /\ A = (N * N * N) * Span(2) /\ A = (N * N) * Span(3) /\ A = N * Span(4)
    BY <2>1, <1>1
  <2>3. N * N * N * N \in Nat /\ N * N * N \in Nat /\ N * N \in Nat
    BY <1>1
  <2>4. QED
    <3> HIDE DEF A
    <3>1. k = 1 \/ k = 2 \/ k = 3 \/ k = 4
      OBVIOUS
    <3>2. QED
      BY <3>1, <2>2, <2>3, <1>1
<1>4. PICK M \in Nat : A = M * S
  BY <1>3
<1> HIDE DEF A, S, N
<1>5. Num(J) + S <= A
  <2>1. q < M
    <3>1. SUFFICES ASSUME M <= q PROVE FALSE
      OBVIOUS
    <3>2. M * S <= q * S
      BY <3>1, <1>1, TimesMonotone
    <3>3. QED
      BY <3>2, <1>1, <1>2, <1>4
  <2>2. (q + 1) * S <= M * S
    BY <2>1, <1>1, TimesMonotone
  <2>3. (q + 1) * S = q * S + S
    BY <1>1
  <2>4. QED
    BY <2>2, <2>3, <1>2, <1>4
<1>6. ASSUME NEW I \in Vectors, Num(J) <= Num(I), Num(I) < Num(J) + S
      PROVE  Agree(I, J, k) /\ Num(I) % S = Num(I) - Num(J)
  <2>1. Agree(I, J, k)
    <3>1. k \in Levels
      BY DEF Levels
    <3>2. QED
      BY <1>6, <3>1, SameEntry DEF Agree, S
  <2>2. PICK x \in Nat : x = Num(I)
    BY NumFacts
  <2>3. PICK r \in 0 .. (S - 1) : r = x - Num(J)
    BY <1>6, <1>1, <2>2
  <2>4. S \in Nat \ {0} /\ q \in Int /\ r \in 0 .. (S - 1) /\ x = q * S + r
    BY <1>1, <1>2, <2>2, <2>3
  <2>5. x % S = r
    BY ONLY <2>4, Quotient
  <2>6. QED
    BY <2>1, <2>2, <2>3, <2>5
<1>7. QED
  BY <1>5, <1>6 DEF A, N, S

LEMMA DivDiv ==
    ASSUME NEW a \in Nat, NEW b \in Nat \ {0}, NEW c \in Nat \ {0}
    PROVE  (a \div b) \div c = a \div (b * c)
<1> DEFINE x == a \div b
           r == a % b
           y == x \div c
           t == x % c
<1>1. x \in Nat /\ r \in 0 .. (b - 1) /\ a = x * b + r
  BY DivMod
<1>2. y \in Nat /\ t \in 0 .. (c - 1) /\ x = y * c + t
  BY <1>1, DivMod
<1> HIDE DEF x, r, y, t
<1>3. a = y * (b * c) + (t * b + r)
  <2>1. a = (y * c + t) * b + r
    BY <1>1, <1>2
  <2>2. (y * c + t) * b = y * (b * c) + t * b
    BY <1>1, <1>2
  <2>3. y * (b * c) \in Nat /\ t * b \in Nat
    BY <1>1, <1>2
  <2>4. QED
    BY <2>1, <2>2, <2>3, <1>1
<1>4. b * c \in Nat \ {0} /\ t * b + r \in 0 .. (b * c - 1)
  <2>1. t * b <= (c - 1) * b /\ t * b \in Nat
    BY <1>2, TimesMonotone
  <2>2. (c - 1) * b = b * c - b /\ b * c \in Nat
    OBVIOUS
  <2>3. b * c >= b
    <3>1. 1 * b <= c * b
      BY TimesMonotone
    <3>2. QED
      BY <3>1
  <2>4. QED
    BY <2>1, <2>2, <2>3, <1>1
<1>5. a \div (b * c) = y
  <2> DEFINE m == b * c
             s == t * b + r
  <2>1. m \in Nat \ {0} /\ y \in Int /\ s \in 0 .. (m - 1) /\ a = y * m + s
    BY <1>2, <1>3, <1>4
  <2> HIDE DEF m, s
  <2>2. a \div m = y
    BY ONLY <2>1, Quotient
  <2>3. QED
    BY <2>2 DEF m
<1>6. QED
  BY <1>5 DEF y, x

\* An address and its page.
LEMMA Addresses ==
    ASSUME NEW va \in Nat
    PROVE  /\ va \div PageSize \in Nat
           /\ IndexOf(va) = Digits(va \div PageSize)
           /\ va \div Size(4) = (va \div PageSize) \div Span(4)
<1>1. PageSize \in Nat \ {0} /\ \A k \in Levels : Span(k) \in Nat \ {0}
  BY Sizes, Spans
<1>2. \A k \in Levels : va \div Size(k) = (va \div PageSize) \div Span(k)
  BY <1>1, DivDiv DEF Size
<1>3. va \div PageSize \in Nat
  BY <1>1, DivMod
<1>4. IndexOf(va) = Digits(va \div PageSize)
  BY <1>2 DEF IndexOf, Digits
<1>5. QED
  BY <1>2, <1>3, <1>4 DEF Levels

\* There is a next entry, if there is a next page.
LEMMA CarryEnd ==
    ASSUME NEW w, NEW k \in 1 .. 4, w.idx \in Vectors, Num(w.idx) + Span(k) \in AllPages
    PROVE  Carry(w, k) <= 4
<1> DEFINE I == w.idx
           N == TableEntries
           a == I[1]
           b == I[2]
           c == I[3]
           d == I[4]
           A == N * Span(4)
<1>1. /\ N \in Nat \ {0, 1} /\ a \in 0 .. (N - 1) /\ b \in 0 .. (N - 1) /\ c \in 0 .. (N - 1) /\ d \in 0 .. (N - 1)
  BY Sizes, VectorElements
<1>2. /\ Num(I) = a + (b + (c + d * N) * N) * N
      /\ Span(1) = 1 /\ Span(2) = N /\ Span(3) = N * N /\ Span(4) = N * N * N
  BY Upper, Spans
<1>3. /\ Num(I) + Span(k) < A /\ Num(I) \in Nat
  <2>1. Span(4) \in Nat /\ N \in Nat /\ Span(k) \in Nat /\ Num(I) \in Nat
    BY Spans, Sizes, NumFacts DEF Levels
  <2>2. A \in Nat
    BY <2>1
  <2>3. QED
    BY <2>1, <2>2 DEF AllPages
<1>4. w.idx \in [Levels -> Nat] /\ k \in Levels
  BY Sizes DEF Vectors
<1>5. Carry(w, k) \in k .. 5
  BY <1>4, CarryFacts
<1>6. SUFFICES ASSUME Carry(w, k) = 5 PROVE FALSE
  BY <1>5
<1>7. \A j \in k .. 4 : I[j] + 1 >= N
  <2>1. \A j \in k .. (Carry(w, k) - 1) : w.idx[j] + 1 >= N
    BY <1>4, CarryFacts
  <2>2. QED
    BY <1>6, <2>1
<1>8. /\ d = N - 1 /\ (k <= 3 => c = N - 1) /\ (k <= 2 => b = N - 1) /\ (k <= 1 => a = N - 1)
  BY <1>1, <1>7
<1>9. A = N * (N * N * N)
  BY <1>2
<1> HIDE DEF I, N, a, b, c, d, A
<1>10. (b + (c + d * N) * N) * N = b * N + (c * (N * N) + d * (N * N * N))
  BY ONLY <1>1, SMT
<1>11. /\ (N - 1) * (N * N * N) = N * (N * N * N) - N * N * N
       /\ (N - 1) * (N * N) = N * N * N - N * N
       /\ (N - 1) * N = N * N - N
       /\ N * N \in Nat /\ N * N * N \in Nat /\ N * (N * N * N) \in Nat
       /\ b * N \in Nat /\ c * (N * N) \in Nat /\ d * (N * N * N) \in Nat
  BY ONLY <1>1, SMT
<1>12. Num(I) = a + (b * N + (c * (N * N) + d * (N * N * N)))
  BY <1>2, <1>10
<1> DEFINE X == N * N
           Y == N * N * N
           Z == N * (N * N * N)
           dY == d * (N * N * N)
           cX == c * (N * N)
           bN == b * N
<1>13. /\ X \in Nat /\ Y \in Nat /\ Z \in Nat /\ bN \in Nat /\ cX \in Nat /\ dY \in Nat
       /\ a \in Nat /\ N \in Nat
       /\ dY = Z - Y /\ (k <= 3 => cX = Y - X) /\ (k <= 2 => bN = X - N) /\ (k <= 1 => a = N - 1)
       /\ Num(I) = a + (bN + (cX + dY)) /\ A = Z
  BY <1>1, <1>8, <1>9, <1>11, <1>12
<1>14. Span(1) = 1 /\ Span(2) = N /\ Span(3) = X /\ Span(4) = Y
  BY <1>2
<1> HIDE DEF X, Y, Z, dY, cX, bN
<1>15. CASE k = 1
  BY <1>3, <1>13, <1>14, <1>15
<1>16. CASE k = 2
  BY <1>3, <1>13, <1>14, <1>16
<1>17. CASE k = 3
  BY <1>3, <1>13, <1>14, <1>17
<1>18. CASE k = 4
  BY <1>3, <1>13, <1>14, <1>18
<1>19. QED
  BY <1>15, <1>16, <1>17, <1>18

\* The level 4 entry of a page.
LEMMA SlotFacts ==
    ASSUME NEW v \in Nat
    PROVE  /\ v \in AllPages => Digits(v)[4] = v \div Span(4) /\ v \div Span(4) \in Slots
           /\ v \div Span(4) \in Slots => v \in AllPages
<1> DEFINE S == Span(4)
           N == TableEntries
           q == v \div S
           A == N * S
<1>1. S \in Nat \ {0} /\ N \in Nat \ {0}
  BY Spans, Sizes DEF Levels
<1>2. q \in Nat /\ v % S \in 0 .. (S - 1) /\ v = q * S + (v % S)
  BY <1>1, DivMod
<1>3. Digits(v)[4] = q % N
  BY DEF Digits, Levels
<1>4. /\ (v \in AllPages <=> v < A) /\ A \in Nat
  <2>1. A \in Nat
    BY <1>1
  <2>2. QED
    BY <2>1 DEF AllPages
<1> HIDE DEF S, q, A
<1>5. q \in Slots <=> q < N
  BY <1>1, <1>2, Sizes
<1> HIDE DEF N
<1>6. v < A <=> q < N
  <2>1. ASSUME q < N PROVE v < A
    <3>1. PICK x \in Nat : x = q + 1
      BY <1>2
    <3>2. x * S <= N * S /\ x * S = q * S + S
      BY <1>1, <1>2, <3>1, <2>1, TimesMonotone
    <3>3. q * S \in Nat /\ N * S \in Nat /\ x * S \in Nat
      BY <1>1, <1>2, <3>1
    <3>4. QED
      BY <3>2, <3>3, <1>1, <1>2 DEF A
  <2>2. ASSUME ~(q < N) PROVE ~(v < A)
    <3>1. N * S <= q * S
      BY <1>1, <1>2, <2>2, TimesMonotone
    <3>2. q * S \in Nat /\ N * S \in Nat
      BY <1>1, <1>2
    <3>3. QED
      BY <3>1, <3>2, <1>1, <1>2 DEF A
  <2>3. QED
    BY <2>1, <2>2
<1>7. q < N => q % N = q
  <2>1. ASSUME q < N PROVE q % N = q
    <3>1. q = 0 * N + q /\ q \in 0 .. (N - 1)
      BY <1>1, <1>2, <2>1
    <3>2. QED
      BY <1>1, <3>1, Quotient
  <2>2. QED
    BY <2>1
<1>8. QED
  BY <1>3, <1>4, <1>5, <1>6, <1>7 DEF q, S

\* Addresses and pages.
LEMMA PageAddress ==
    ASSUME NEW v \in Nat, NEW k \in 1 .. 4
    PROVE  /\ v * PageSize \in Nat /\ (v * PageSize) \div PageSize = v
           /\ (v * PageSize) % Size(k) = (v % Span(k)) * PageSize
<1> DEFINE P == PageSize
           S == Span(k)
           q == v \div S
           r == v % S
<1>1. P \in Nat \ {0} /\ S \in Nat \ {0}
  BY Sizes, Spans DEF Levels
<1>2. q \in Nat /\ r \in 0 .. (S - 1) /\ v = q * S + r
  BY <1>1, DivMod
<1>3. Size(k) = P * S
  BY DEF Size
<1> HIDE DEF P, S, q, r
<1>4. v * P \in Nat /\ P * S \in Nat \ {0} /\ v * P = v * P + 0
  BY <1>1
<1>5. (v * P) \div P = v
  <2>1. 0 \in 0 .. (P - 1)
    BY <1>1
  <2>2. QED
    BY ONLY <1>1, <1>4, <2>1, v \in Nat, Quotient
<1>6. v * P = q * (P * S) + r * P
  BY <1>1, <1>2
<1>7. r * P \in 0 .. (P * S - 1)
  <2>1. PICK x \in Nat : x = r + 1
    BY <1>2
  <2>2. x * P <= S * P /\ x * P = r * P + P
    BY <1>1, <1>2, <2>1, TimesMonotone
  <2>3. r * P \in Nat /\ S * P = P * S
    BY <1>1, <1>2
  <2>4. QED
    BY <2>2, <2>3, <1>1, <1>4
<1>8. (v * P) % (P * S) = r * P
  BY ONLY <1>4, <1>6, <1>7, <1>2, Quotient
<1>9. QED
  BY <1>3, <1>4, <1>5, <1>8 DEF P, S, r

\* An address that is a multiple of the size of an entry.
LEMMA Aligned ==
    ASSUME NEW va \in Nat, NEW k \in 1 .. 4, va % Size(k) = 0
    PROVE  /\ va = (va \div PageSize) * PageSize
           /\ \E q \in Nat : va \div PageSize = q * Span(k)
<1> DEFINE P == PageSize
           S == Span(k)
           q == va \div (P * S)
<1>1. P \in Nat \ {0} /\ S \in Nat \ {0}
  BY Sizes, Spans DEF Levels
<1>2. Size(k) = P * S
  BY DEF Size
<1> HIDE DEF P, S
<1>3. P * S \in Nat \ {0}
  BY <1>1
<1>4. q \in Nat /\ va = q * (P * S) + (va % (P * S))
  BY <1>3, DivMod
<1>5. va = q * (P * S)
  BY <1>2, <1>3, <1>4
<1> HIDE DEF q
<1>6. va = (q * S) * P + 0 /\ q * S \in Nat /\ 0 \in 0 .. (P - 1)
  BY <1>1, <1>4, <1>5
<1>7. va \div P = q * S
  BY <1>1, <1>6, Quotient
<1>8. QED
  BY <1>1, <1>4, <1>6, <1>7 DEF P, S

\* The entries that bytes need.
LEMMA PagesFacts ==
    ASSUME NEW bytes \in Nat \ {0}, bytes <= Modulus, NEW k \in 1 .. 4
    PROVE  /\ Pages(bytes, k) \in Nat \ {0} /\ Pages(bytes, 1) \in Nat \ {0}
           /\ Pages(bytes, k) * Span(k) \in Nat \ {0}
           /\ Pages(bytes, 1) <= Pages(bytes, k) * Span(k)
<1> DEFINE x == bytes - 1
           S == Span(k)
           P == PageSize
           r == x \div P
           q == r \div S
<1>1. P \in Nat \ {0} /\ S \in Nat \ {0} /\ Modulus \in Nat \ {0} /\ x \in Nat /\ Span(1) = 1
  <2>1. P \in Nat \ {0} /\ S \in Nat \ {0} /\ Span(1) = 1
    BY Sizes, Spans DEF Levels
  <2>2. x \in Nat /\ Modulus \in Nat \ {0}
    BY Sizes
  <2>3. QED
    BY <2>1, <2>2
<1>2. x % Modulus = x
  <2> HIDE DEF x
  <2>1. \A a : a = 0 * Modulus + x => a % Modulus = x
    <3>1. x \in 0 .. (Modulus - 1) /\ 0 \in Int
      BY <1>1 DEF x
    <3>2. QED
      BY ONLY <1>1, <3>1, Quotient
  <2>2. QED
    BY ONLY <1>1, <2>1
<1>3. Size(k) = P * S /\ Size(1) = P * 1 /\ P * 1 = P
  BY <1>1 DEF Size
<1>4. Pages(bytes, k) = (x \div (P * S)) + 1 /\ Pages(bytes, 1) = r + 1
  BY <1>2, <1>3 DEF Pages
<1> HIDE DEF x, S, P
<1>5. r \in Nat /\ q = x \div (P * S)
  BY <1>1, DivDiv, DivMod
<1> HIDE DEF r
<1>6. q \in Nat /\ r = q * S + (r % S) /\ r % S \in 0 .. (S - 1)
  BY <1>1, <1>5, DivMod
<1> HIDE DEF q
<1>7. (q + 1) * S = q * S + S /\ q * S \in Nat
  BY <1>1, <1>6
<1>8. r + 1 <= (q + 1) * S /\ (q + 1) * S \in Nat \ {0}
  BY <1>1, <1>5, <1>6, <1>7
<1>9. QED
  BY <1>4, <1>5, <1>6, <1>8 DEF S

LEMMA AddressOfNum ==
    ASSUME NEW I \in Vectors
    PROVE  AddressOf(I) = Num(I) * PageSize
<1> DEFINE a == I[1]
           b == I[2]
           c == I[3]
           d == I[4]
           P == PageSize
           S2 == Span(2)
           S3 == Span(3)
           S4 == Span(4)
<1>1. a \in Nat /\ b \in Nat /\ c \in Nat /\ d \in Nat /\ P \in Nat /\ S2 \in Nat /\ S3 \in Nat /\ S4 \in Nat /\ Span(1) = 1
  BY Sizes, VectorElements, Spans DEF Levels
<1>2. AddressOf(I) = a * (P * 1) + b * (P * S2) + c * (P * S3) + d * (P * S4)
  BY <1>1 DEF AddressOf, Size
<1>3. Num(I) = a + b * S2 + c * S3 + d * S4
  BY DEF Num
<1> HIDE DEF a, b, c, d, P, S2, S3, S4
<1>4. b * (P * S2) = (b * S2) * P /\ c * (P * S3) = (c * S3) * P /\ d * (P * S4) = (d * S4) * P
  BY <1>1
<1>5. PICK x \in Nat : x = b * S2
  BY <1>1
<1>6. PICK y \in Nat : y = c * S3
  BY <1>1
<1>7. PICK z \in Nat : z = d * S4
  BY <1>1
<1>8. (a + x + y + z) * P = a * P + x * P + y * P + z * P
  BY <1>1, <1>5, <1>6, <1>7
<1>9. QED
  BY <1>1, <1>2, <1>3, <1>4, <1>5, <1>6, <1>7, <1>8 DEF P

\* The calls of start up.
LEMMA BootKind ==
    ASSUME NEW p \in PlanType, KernelPlan(p), NEW i \in DOMAIN p.boot
    PROVE  /\ p.boot[i] \in CallType /\ p.boot[i].level \in 1 .. 3 /\ p.boot[i].va \in Nat
           /\ BootCall(p.boot[i]) /\ SlotOf(p.boot[i]) \in BootSlots(p)
           /\ Kind(p, SlotOf(p.boot[i])) = p.boot[i].level
<1> DEFINE s == SlotOf(p.boot[i])
           Q(k) == \E j \in DOMAIN p.boot : SlotOf(p.boot[j]) = s /\ p.boot[j].level = k
<1>1. p.boot \in Seq(CallType)
  BY DEF PlanType
<1>2. \A j \in DOMAIN p.boot : p.boot[j] \in CallType
  BY <1>1
<1>3. p.boot[i].level \in 1 .. 3 /\ p.boot[i].va \in Nat
  BY <1>2 DEF CallType
<1>4. BootCall(p.boot[i]) /\ s \in BootSlots(p)
  BY DEF KernelPlan, BootSlots
<1>5. Q(p.boot[i].level)
  OBVIOUS
<1>6. \A k \in 1 .. 3 : Q(k) => k = p.boot[i].level
  BY DEF KernelPlan
<1>7. Kind(p, s) = CHOOSE k \in 1 .. 3 : Q(k)
  BY <1>4 DEF Kind
<1> HIDE DEF Q
<1>8. Kind(p, s) = p.boot[i].level
  BY <1>3, <1>5, <1>6, <1>7
<1>9. QED
  BY <1>2, <1>3, <1>4, <1>8

\* The level 4 entries behind those of start up.
LEMMA ClearFacts ==
    ASSUME NEW p \in PlanType, KernelPlan(p), NEW s \in Nat, Clear(p, s)
    PROVE  Kind(p, s) = 1 /\ \A t \in Nat : s <= t => Clear(p, t)
<1>1. Kind(p, s) = 1
  BY DEF Clear, Kind
<1>2. \A b \in BootSlots(p) : b \in Nat
  <2>1. \A i \in DOMAIN p.boot : SlotOf(p.boot[i]) \in Nat
    BY BootKind, Sizes DEF BootCall
  <2>2. QED
    BY <2>1 DEF BootSlots
<1>3. \A t \in Nat : s <= t => Clear(p, t)
  BY <1>2 DEF Clear
<1>4. QED
  BY <1>1, <1>3

\* The ranges of start up.
LEMMA BootFacts ==
    ASSUME NEW p \in PlanType, KernelPlan(p), NEW i \in DOMAIN p.boot, NEW c, c = p.boot[i]
    PROVE  /\ First(c) \in AllPages /\ Past(c) \in AllPages /\ First(c) \in Nat /\ Past(c) \in Nat
           /\ First(c) < Past(c) /\ SlotOf(c) \in Slots
           /\ Pages(c.bytes, c.level) \in Nat \ {0}
           /\ Digits(First(c)) = IndexOf(c.va) /\ Digits(First(c)) \in Vectors
           /\ Num(Digits(First(c))) = First(c) /\ Digits(First(c))[4] = SlotOf(c)
           /\ \A I \in Vectors : First(c) <= Num(I) /\ Num(I) <= Past(c) =>
                 I[4] = SlotOf(c) /\ Kind(p, I[4]) = c.level /\ ~Clear(p, I[4])
<1> DEFINE S == Span(4)
           s == SlotOf(c)
           f == First(c)
           u == Past(c)
           x == Pages(c.bytes, c.level) * Span(c.level)
<1>1. /\ c \in CallType /\ c.level \in 1 .. 3 /\ c.va \in Nat /\ BootCall(c)
      /\ s \in BootSlots(p) /\ Kind(p, s) = c.level
  BY BootKind
<1>2. c.bytes \in Nat \ {0} /\ c.bytes <= Modulus /\ s \in Slots /\ u < (s + 1) * S
  BY <1>1 DEF BootCall, CallType
<1>3. x \in Nat \ {0} /\ Pages(c.bytes, c.level) \in Nat \ {0} /\ u = f + x
  <2>1. c.level \in 1 .. 4
    BY <1>1
  <2>2. QED
    BY <1>2, <2>1, PagesFacts DEF Past
<1>4. f \in Nat /\ IndexOf(c.va) = Digits(f) /\ s = f \div S
  BY <1>1, Addresses DEF First, SlotOf
<1>5. S \in Nat \ {0} /\ s \in Nat
  BY Spans, Sizes, <1>2 DEF Levels
<1>6. f % S \in 0 .. (S - 1) /\ f = s * S + (f % S)
  BY <1>4, <1>5, DivMod
<1>7. f \in AllPages
  BY <1>2, <1>4, SlotFacts
<1> HIDE DEF S, s, f, u, x
<1>8. u \in Nat /\ f < u
  BY <1>3, <1>4
<1>9. (s + 1) * S = s * S + S /\ s * S \in Nat
  BY <1>5
<1>10. \A v \in Nat : f <= v /\ v <= u => v \div S = s
  <2>1. SUFFICES ASSUME NEW v \in Nat, f <= v, v <= u PROVE v \div S = s
    OBVIOUS
  <2>2. s * S <= v /\ v < s * S + S
    BY <1>2, <1>4, <1>5, <1>6, <1>8, <1>9, <2>1
  <2>3. v \div S \in Nat /\ v % S \in 0 .. (S - 1) /\ v = (v \div S) * S + (v % S)
    BY <1>5, DivMod
  <2>4. QED
    BY <1>5, <2>2, <2>3, Between
<1>11. u \in AllPages
  <2>1. u \div S = s
    BY <1>4, <1>8, <1>10
  <2>2. QED
    BY <1>2, <1>8, <2>1, SlotFacts DEF S
<1>12. Digits(f) \in Vectors /\ Num(Digits(f)) = f /\ Digits(f)[4] = s
  BY <1>4, <1>7, NumOfDigits, SlotFacts DEF S
<1>13. ASSUME NEW I \in Vectors, f <= Num(I), Num(I) <= u PROVE I[4] = s
  <2>1. Num(I) \in Nat /\ Num(I) \in AllPages /\ Digits(Num(I)) = I
    BY NumFacts, DigitsOfNum
  <2>2. Num(I) \div S = s
    BY <1>10, <1>13, <2>1
  <2>3. QED
    BY <2>1, <2>2, SlotFacts DEF S
<1>14. ~Clear(p, s)
  BY <1>1 DEF Clear
<1>15. QED
  BY <1>1, <1>2, <1>3, <1>4, <1>7, <1>8, <1>11, <1>12, <1>13, <1>14 DEF s, f, u

\* A level 4 entry that is not there once the calls of start up were made is behind theirs.
LEMMA FreshSlot ==
    ASSUME NEW p \in PlanType, KernelPlan(p), NEW m, BootOK(p, m, Len(p.boot)),
           NEW I \in Vectors, F4(m, I) = Null
    PROVE  Clear(p, I[4])
<1>1. DOMAIN p.boot = 1 .. Len(p.boot)
  BY DEF PlanType
<1>2. I[4] \notin BootSlots(p)
  <2>1. SUFFICES ASSUME NEW i \in DOMAIN p.boot, I[4] = SlotOf(p.boot[i]) PROVE FALSE
    BY DEF BootSlots
  <2>2. F4(m, Digits(First(p.boot[i]))) # Null
    BY <1>1 DEF BootOK
  <2>3. Digits(First(p.boot[i]))[4] = I[4]
    BY <2>1, BootFacts
  <2>4. QED
    BY <2>2, <2>3 DEF F4
<1>3. \A b \in BootSlots(p) : b < I[4]
  <2>1. SUFFICES ASSUME NEW b \in BootSlots(p) PROVE b < I[4]
    OBVIOUS
  <2>2. b \in Nat
    BY BootKind, Sizes DEF BootCall, BootSlots
  <2>3. I[4] \in Nat
    BY VectorElements, Sizes
  <2>4. \A t \in 0 .. b : t \in BootSlots(p)
    BY DEF KernelPlan
  <2>5. QED
    BY <1>2, <2>2, <2>3, <2>4
<1>4. QED
  BY <1>2, <1>3 DEF Clear

\* The entry that the walk is at is written.
LEMMA WriteFacts ==
    ASSUME NEW p \in PlanType, KernelPlan(p), NEW w, Good(p, w), NEW k \in 1 .. 3, k = Kind(p, w.idx[4]),
           OnPath(w, k), NEW e \in EntryType, e = Null \/ IsLeaf(e, k),
           NEW v, v = Write(w, k, e)
    PROVE  /\ Good(p, v) /\ OnPath(v, k) /\ v.idx = w.idx /\ v.tab = w.tab /\ v.brk = w.brk
           /\ ~v.wild /\ DOMAIN v.mem = DOMAIN w.mem /\ Changed(p, w.mem, v.mem, w.idx, k, e)
<1>1. IsWalk(w) /\ ~w.wild /\ Tree(p, w.mem)
  BY DEF Good
<1>2. PICK lev, up, par : TreeAt(p, w.mem, lev, up, par)
  BY <1>1 DEF Tree
<1>3. Valid(w, k)
  <2>1. k \in 1 .. 4
    OBVIOUS
  <2>2. QED
    BY <1>1, <1>2, <2>1, OnTree
<1>4. PICK n : n = Put(w.mem, w.tab[k], w.idx[k], e)
  OBVIOUS
<1>5. /\ IsMem(n, w.brk) /\ Tree(p, n) /\ DOMAIN n = DOMAIN w.mem
      /\ Changed(p, w.mem, n, w.idx, k, e)
  BY <1>1, <1>4, PutFacts
<1>6. /\ w = [idx |-> w.idx, tab |-> w.tab, mem |-> w.mem, brk |-> w.brk, wild |-> w.wild]
      /\ w.idx \in [Levels -> 0 .. TableEntries] /\ w.tab \in [Levels -> Nat]
  BY <1>1 DEF IsWalk
<1>7. v = [w EXCEPT !.mem = Put(w.mem, w.tab[k], w.idx[k], e)]
  BY <1>3 DEF Write, Put
<1>8. v = [w EXCEPT !.mem = n]
  BY <1>4, <1>7
<1>9. /\ v.idx = w.idx /\ v.tab = w.tab /\ v.mem = n /\ v.brk = w.brk /\ v.wild = w.wild
      /\ v = [idx |-> v.idx, tab |-> v.tab, mem |-> v.mem, brk |-> v.brk, wild |-> v.wild]
  BY <1>6, <1>8
<1>10. v.wild = FALSE /\ ~v.wild
  BY <1>1, <1>9 DEF IsWalk
<1>11. Good(p, v)
  BY <1>5, <1>6, <1>9, <1>10 DEF Good, IsWalk
<1>12. OnPath(v, k)
  <2>1. w.idx \in Vectors /\ w.idx[4] \in Slots
    BY VectorElements DEF OnPath
  <2>2. /\ F4(n, w.idx) = F4(w.mem, w.idx)
        /\ k <= 2 => F3(n, w.idx) = F3(w.mem, w.idx)
        /\ k <= 1 => F2(n, w.idx) = F2(w.mem, w.idx)
    BY <1>5, <2>1 DEF Changed
  <2>3. QED
    BY <1>9, <2>2 DEF OnPath, On
<1>13. QED
  BY <1>5, <1>9, <1>10, <1>11, <1>12

\* It has no effect on where there are tables.
LEMMA ChangedOn ==
    ASSUME NEW p \in PlanType, NEW m, NEW n, NEW J, NEW k, NEW e, Changed(p, m, n, J, k, e),
           NEW I \in Vectors, NEW j \in 1 .. 4, Kind(p, I[4]) <= j, Kind(p, I[4]) \in Nat
    PROVE  On(n, I, j) <=> On(m, I, j)
<1>1. /\ F4(n, I) = F4(m, I)
      /\ Kind(p, I[4]) <= 2 => F3(n, I) = F3(m, I)
      /\ Kind(p, I[4]) <= 1 => F2(n, I) = F2(m, I)
  BY DEF Changed
<1>2. (j <= 2 => Kind(p, I[4]) <= 2) /\ (j <= 1 => Kind(p, I[4]) <= 1)
  OBVIOUS
<1>3. QED
  BY <1>1, <1>2 DEF On

\* A frame is taken from the allocator.
Reserve(w) == [w EXCEPT !.brk = @ + 1]

LEMMA ReserveFacts ==
    ASSUME NEW p \in PlanType, KernelPlan(p), NEW w, Good(p, w), NEW v, v = Reserve(w)
    PROVE  /\ Good(p, v) /\ v.idx = w.idx /\ v.tab = w.tab /\ v.mem = w.mem /\ v.brk = w.brk + 1
           /\ Ext(w, v) /\ w.brk \in Nat /\ ~v.wild
<1>1. IsWalk(w) /\ ~w.wild /\ IsMem(w.mem, w.brk) /\ Tree(p, w.mem) /\ w.wild \in BOOLEAN
  BY DEF Good, IsWalk
<1>3. /\ w = [idx |-> w.idx, tab |-> w.tab, mem |-> w.mem, brk |-> w.brk, wild |-> w.wild]
      /\ w.idx \in [Levels -> 0 .. TableEntries] /\ w.tab \in [Levels -> Nat]
  BY <1>1 DEF IsWalk
<1>4. /\ w.brk \in Nat /\ w.brk \notin DOMAIN w.mem
      /\ \A f \in DOMAIN w.mem : f \in Nat /\ FirstFrame <= f /\ f < w.brk
      /\ \A f \in DOMAIN w.mem : \A s \in Slots : w.mem[f][s] \in EntryType
  BY <1>1, MemType
<1>5. PICK c \in Nat : c = w.brk + 1
  BY <1>4
<1>6. /\ v.idx = w.idx /\ v.tab = w.tab /\ v.mem = w.mem /\ v.brk = c /\ v.wild = w.wild
      /\ v = [idx |-> v.idx, tab |-> v.tab, mem |-> v.mem, brk |-> v.brk, wild |-> v.wild]
  BY <1>3, <1>5 DEF Reserve
<1>7. IsMem(w.mem, c)
  BY <1>1, <1>4, <1>5 DEF IsMem
<1>10. Good(p, v)
  <2>1. IsWalk(v)
    BY <1>1, <1>3, <1>6, <1>7 DEF IsWalk
  <2>2. Tree(p, v.mem)
    BY <1>1, <1>6
  <2>3. ~v.wild
    BY <1>1, <1>6
  <2>4. QED
    BY <2>1, <2>2, <2>3 DEF Good
<1>11. Ext(w, v)
  BY <1>4, <1>5, <1>6 DEF Ext, Grown
<1>13. v.brk = w.brk + 1 /\ ~v.wild
  BY <1>1, <1>5, <1>6
<1>14. QED
  BY <1>4, <1>6, <1>10, <1>11, <1>13

\* What is mapped, for a page that is.
LEMMA MappedOn ==
    ASSUME NEW p \in PlanType, KernelPlan(p), NEW m, NEW b, IsMem(m, b), Tree(p, m),
           NEW I \in Vectors, F1(m, I) # Null
    PROVE  /\ On(m, I, Kind(p, I[4])) /\ IsLeaf(F1(m, I), Kind(p, I[4])) /\ Kind(p, I[4]) \in 1 .. 3
           /\ F2(m, I) # Null /\ F3(m, I) # Null /\ F4(m, I) # Null
           /\ F3(m, I).size <=> Kind(p, I[4]) = 3
           /\ F2(m, I).size <=> Kind(p, I[4]) > 1
           /\ F1(m, I).at \in Nat
<1>1. PICK lev, up, par : TreeAt(p, m, lev, up, par)
  BY DEF Tree
<1>2. PICK k : k = Kind(p, I[4])
  OBVIOUS
<1>3. /\ k \in 1 .. 3
      /\ (F3(m, I) = Null \/ (k < 3 /\ IsLink(F3(m, I), m)) \/ (k = 3 /\ IsLeaf(F3(m, I), 3)))
      /\ (F2(m, I) = Null \/ (k = 1 /\ IsLink(F2(m, I), m)) \/ (k > 1 /\ IsLeaf(F2(m, I), k)))
      /\ F1(m, I) = Null \/ IsLeaf(F1(m, I), k)
      /\ F4(m, I) = Null => F3(m, I) = Null
      /\ F3(m, I) = Null => F2(m, I) = Null
      /\ F2(m, I) = Null => F1(m, I) = Null
  BY <1>1, <1>2, PathInTree
<1>4. /\ IsLeaf(F1(m, I), k) /\ F2(m, I) # Null /\ F3(m, I) # Null /\ F4(m, I) # Null
  BY <1>3
<1>5. /\ 0 \notin DOMAIN m
      /\ \A f \in DOMAIN m : f \in Nat
      /\ \A f \in DOMAIN m : \A s \in Slots : m[f][s] \in EntryType
  BY MemType
<1>6. \A e : IsLink(e, m) => ~e.size
  BY <1>5, Entries DEF IsLink
<1>7. \A e : IsLeaf(e, 3) => e.size
  BY LeafSize
<1>8. k > 1 => \A e : IsLeaf(e, k) => e.size
  BY <1>3, LeafSize
<1>9. (F3(m, I).size <=> k = 3) /\ (F2(m, I).size <=> k > 1)
  BY <1>3, <1>4, <1>6, <1>7, <1>8
<1>10. On(m, I, k)
  BY <1>3, <1>4, <1>9 DEF On
<1>11. F1(m, I).at \in Nat
  <2>1. \A t, s : s \in Slots => Get(m, t, s) \in EntryType
    BY <1>5, Entries DEF Get
  <2>2. I[1] \in Slots /\ I[2] \in Slots /\ I[3] \in Slots
    BY VectorElements
  <2>3. F1(m, I) \in EntryType
    BY <2>1, <2>2 DEF F1, F2, F3
  <2>4. QED
    BY <2>3 DEF EntryType
<1>12. QED
  BY <1>2, <1>3, <1>4, <1>9, <1>10, <1>11

\* A table pointer is cleared.
NoTab(w, j) == [w EXCEPT !.tab[j] = 0]

LEMMA NoTabFacts ==
    ASSUME NEW p, NEW w, Good(p, w), NEW j \in 1 .. 3, NEW v, v = NoTab(w, j)
    PROVE  /\ Good(p, v) /\ Ext(w, v) /\ v.idx = w.idx /\ v.mem = w.mem /\ v.brk = w.brk
           /\ \A k \in (j + 1) .. 4 : OnPath(w, k) => OnPath(v, k)
<1>1. IsWalk(w) /\ ~w.wild
  BY DEF Good
<1>2. /\ w = [idx |-> w.idx, tab |-> w.tab, mem |-> w.mem, brk |-> w.brk, wild |-> w.wild]
      /\ w.idx \in [Levels -> 0 .. TableEntries] /\ w.tab \in [Levels -> Nat]
  BY <1>1 DEF IsWalk
<1>3. PICK t : t = [w.tab EXCEPT ![j] = 0]
  OBVIOUS
<1>4. t \in [Levels -> Nat] /\ \A i \in 1 .. 4 : i # j => t[i] = w.tab[i]
  BY <1>2, <1>3 DEF Levels
<1>5. v = [w EXCEPT !.tab = t]
  BY <1>3 DEF NoTab
<1>6. /\ v.idx = w.idx /\ v.tab = t /\ v.mem = w.mem /\ v.brk = w.brk /\ v.wild = w.wild
      /\ v = [idx |-> v.idx, tab |-> v.tab, mem |-> v.mem, brk |-> v.brk, wild |-> v.wild]
  BY <1>2, <1>5
<1>7. Good(p, v)
  BY <1>2, <1>4, <1>6, GoodFields
<1>8. \A k \in (j + 1) .. 4 : OnPath(w, k) => OnPath(v, k)
  BY <1>4, <1>6 DEF OnPath
<1>9. Ext(w, v)
  BY <1>1, <1>6, ExtReflexive
<1>10. QED
  BY <1>6, <1>7, <1>8, <1>9

\* The indices of an address.
LEMMA IndexVector ==
    ASSUME NEW va \in Nat
    PROVE  IndexOf(va) \in Vectors
<1>1. TableEntries \in Nat \ {0} /\ Slots = 0 .. (TableEntries - 1)
  BY Sizes
<1>2. \A k \in Levels : (va \div Size(k)) % TableEntries \in Slots
  <2>1. SUFFICES ASSUME NEW k \in Levels PROVE (va \div Size(k)) % TableEntries \in Slots
    OBVIOUS
  <2>2. Size(k) \in Nat \ {0}
    <3>1. PageSize \in Nat \ {0} /\ Span(k) \in Nat \ {0}
      BY Sizes, Spans
    <3>2. QED
      BY <3>1 DEF Size
  <2>3. va \div Size(k) \in Nat
    BY <2>2, DivMod
  <2>4. QED
    BY <1>1, <2>3, DivMod
<1>3. QED
  BY <1>2 DEF IndexOf, Vectors

\* The cursor of a call of start up.
LEMMA ToIndexFacts ==
    ASSUME NEW p \in PlanType, KernelPlan(p), NEW w, Good(p, w), w.tab[4] = FirstFrame,
           NEW i \in DOMAIN p.boot, NEW c, c = p.boot[i], NEW v, v = ToIndex(w, c)
    PROVE  /\ Good(p, v) /\ OnPath(v, c.level) /\ Ext(w, v)
           /\ F4(v.mem, Digits(First(c))) # Null
           /\ c.va % Size(c.level) = 0 => v.idx = Digits(First(c))
<1> DEFINE I == IndexOf(c.va)
           l == c.level
<1>1. /\ c \in CallType /\ l \in 1 .. 3 /\ c.va \in Nat /\ BootCall(c) /\ Kind(p, SlotOf(c)) = l
  BY BootKind
<1>2. /\ I = Digits(First(c)) /\ I \in Vectors /\ I[4] = SlotOf(c) /\ First(c) \in AllPages
  BY BootFacts
<1>3. Kind(p, I[4]) = l /\ (l = 1 => I[2] = I[3])
  BY <1>1, <1>2 DEF BootCall
<1>4. PICK w4 : w4 = With(w, I)
  OBVIOUS
<1>5. /\ Good(p, w4) /\ w4.idx = I /\ w4.tab = w.tab /\ Ext(w, w4)
  BY <1>2, <1>4, WithFacts
<1>6. OnPath(w4, 4)
  BY <1>2, <1>5 DEF OnPath, On
<1>7. Down(p, w4, w4, 4)
  BY <1>5, <1>6, DownSame
<1>8. PICK w3 : w3 = Load(w4, 3)
  OBVIOUS
<1>9. Down(p, w4, w3, 3)
  <2>1. 4 = 3 + 1 /\ Kind(p, w4.idx[4]) <= 3
    BY <1>1, <1>3, <1>5
  <2>2. QED
    BY <1>7, <1>8, <2>1, DownLoad
<1>10. /\ Good(p, w3) /\ OnPath(w3, 3) /\ Ext(w, w3) /\ w3.idx = I
  BY <1>5, <1>9, ExtTransitive DEF Down
<1>11. PICK w2 : w2 = IF l < 3 THEN Load(w3, 2) ELSE NoTab(w3, 2)
  OBVIOUS
<1>12. /\ Good(p, w2) /\ Ext(w, w2) /\ w2.idx = I /\ (l < 3 => OnPath(w2, 2)) /\ OnPath(w2, 3)
  <2>1. CASE l < 3
    <3>1. 3 = 2 + 1 /\ Kind(p, w4.idx[4]) <= 2 /\ w2 = Load(w3, 2)
      BY <1>1, <1>3, <1>5, <1>11, <2>1
    <3>2. Down(p, w4, w2, 2)
      BY <1>9, <3>1, DownLoad
    <3>3. Good(p, w2) /\ OnPath(w2, 2) /\ w2.idx = I /\ Ext(w, w2)
      BY <1>5, <3>2, ExtTransitive DEF Down
    <3>4. OnPath(w2, 3)
      BY <3>3 DEF OnPath, On
    <3>5. QED
      BY <3>3, <3>4
  <2>2. CASE ~(l < 3)
    <3>1. w2 = NoTab(w3, 2)
      BY <1>11, <2>2
    <3>2. Good(p, w2) /\ Ext(w3, w2) /\ w2.idx = w3.idx /\ (OnPath(w3, 3) => OnPath(w2, 3))
      BY <1>10, <3>1, NoTabFacts
    <3>3. QED
      BY <1>10, <2>2, <3>2, ExtTransitive
  <2>3. QED
    BY <2>1, <2>2
<1>13. ~w2.wild
  BY <1>12 DEF Good
<1>14. PICK w1 : w1 = IF l < 2 THEN Follow(w2, 1, w2.idx[3]) ELSE NoTab(w2, 1)
  OBVIOUS
<1>15. /\ Good(p, w1) /\ Ext(w, w1) /\ w1.idx = I /\ OnPath(w1, l)
  <2>1. CASE l = 1
    <3>1. w1 = Follow(w2, 1, w2.idx[1 + 1]) /\ Kind(p, w2.idx[4]) <= 1 /\ OnPath(w2, 1 + 1)
      BY <1>3, <1>12, <1>14, <2>1
    <3>2. Good(p, w1) /\ OnPath(w1, 1) /\ Ext(w2, w1) /\ w1.idx = w2.idx
      BY <1>12, <3>1, FollowFacts
    <3>3. QED
      BY <1>12, <2>1, <3>2, ExtTransitive
  <2>2. CASE l # 1
    <3>1. w1 = NoTab(w2, 1) /\ l \in 2 .. 3
      BY <1>1, <1>14, <2>2
    <3>2. Good(p, w1) /\ Ext(w2, w1) /\ w1.idx = w2.idx /\ (\A k \in 2 .. 4 : OnPath(w2, k) => OnPath(w1, k))
      BY <1>12, <3>1, NoTabFacts
    <3>3. OnPath(w2, l)
      BY <1>12, <3>1
    <3>4. QED
      BY <1>12, <3>1, <3>2, <3>3, ExtTransitive
  <2>3. QED
    BY <2>1, <2>2
<1> DEFINE J == [k \in Levels |-> IF k < l THEN 0 ELSE w1.idx[k]]
<1>16. v = With(w1, J)
  <2> DEFINE A3 == Load([w EXCEPT !.idx = IndexOf(c.va)], 3)
             A2(x) == IF c.level < 3 THEN Load(x, 2) ELSE [x EXCEPT !.tab[2] = 0]
             A1(x) == IF c.level < 2 /\ ~x.wild THEN Follow(x, 1, x.idx[3]) ELSE [x EXCEPT !.tab[1] = 0]
             A0(x) == [x EXCEPT !.idx = [k \in Levels |-> IF k < c.level THEN 0 ELSE x.idx[k]]]
  <2>1. v = A0(A1(A2(A3)))
    BY DEF ToIndex
  <2>2. A3 = w3 /\ A2(w3) = w2
    BY <1>4, <1>8, <1>11 DEF With, NoTab
  <2>3. A1(w2) = w1
    BY <1>13, <1>14 DEF NoTab
  <2>4. A0(w1) = With(w1, J)
    BY DEF With
  <2> HIDE DEF A0, A1, A2, A3, J
  <2>5. QED
    BY <2>1, <2>2, <2>3, <2>4
<1>17. J \in Vectors
  BY <1>2, <1>15, Sizes DEF Vectors
<1>18. \A k \in l .. 4 : J[k] = I[k]
  BY <1>1, <1>15 DEF Levels
<1>19. \A k \in 1 .. 4 : k < l => J[k] = 0
  BY DEF Levels
<1> HIDE DEF J
<1>20. /\ Good(p, v) /\ Ext(w1, v) /\ v.idx = J /\ v.mem = w1.mem
  BY <1>15, <1>16, <1>17, WithFacts
<1>21. OnPath(v, l)
  <2>1. l <= 3 => Agree(J, w1.idx, l + 1)
    BY <1>1, <1>15, <1>18 DEF Agree
  <2>2. QED
    BY <1>1, <1>15, <1>16, <1>17, <2>1, WithPath
<1>22. F4(v.mem, I) # Null
  <2>1. F4(v.mem, v.idx) # Null
    BY <1>1, <1>21 DEF OnPath, On
  <2>2. v.idx[4] = I[4]
    BY <1>1, <1>18, <1>20
  <2>3. QED
    BY <2>1, <2>2 DEF F4
<1>23. ASSUME c.va % Size(l) = 0 PROVE J = I
  <2>1. l \in 1 .. 4
    BY <1>1
  <2>2. PICK q \in Nat : First(c) = q * Span(l)
    BY <1>1, <1>23, <2>1, Aligned DEF First
  <2>3. \A j \in 1 .. (l - 1) : I[j] = 0
    BY <1>2, <2>1, <2>2, LowDigits
  <2>4. \A j \in 1 .. 4 : J[j] = I[j]
    BY <1>1, <1>18, <1>19, <2>3
  <2>5. QED
    BY <1>2, <1>17, <2>4, SameVectors
<1>24. QED
  BY <1>2, <1>15, <1>20, <1>21, <1>22, <1>23, ExtTransitive

\* The tables below top that there are, one after the other.
DownTo(v, top, k, j) == IF j >= top \/ j < k \/ v.wild \/ v.tab[j + 1] = 0 THEN v
                        ELSE IF Valid(v, j + 1) THEN [v EXCEPT !.tab[j] = Entry(v, j + 1).at]
                        ELSE Wild(v)

\* What holds on the way, at level j.
Reaching(p, w, v, top, j) == /\ Good(p, v) /\ OnPath(v, j) /\ v.mem = w.mem /\ v.brk = w.brk /\ v.idx = w.idx
                             /\ \A i \in j .. (top - 1) : v.tab[i] # 0

LEMMA DownToFacts ==
    ASSUME NEW p \in PlanType, KernelPlan(p), NEW w, Good(p, w), NEW j \in 1 .. 3, NEW k \in 1 .. j,
           NEW top \in (j + 1) .. 4, Kind(p, w.idx[4]) <= j, On(w.mem, w.idx, j),
           NEW u, Reaching(p, w, u, top, j + 1), NEW v, v = DownTo(u, top, k, j)
    PROVE  Reaching(p, w, v, top, j)
<1>1. /\ Good(p, u) /\ OnPath(u, j + 1) /\ u.mem = w.mem /\ u.brk = w.brk /\ u.idx = w.idx
      /\ \A i \in (j + 1) .. (top - 1) : u.tab[i] # 0
  BY DEF Reaching
<1>2. PICK h \in 1 .. 4 : h = j + 1
  OBVIOUS
<1>3. PICK lev, up, par : TreeAt(p, u.mem, lev, up, par)
  BY <1>1 DEF Good, Tree
<1>4. IsWalk(u) /\ ~u.wild
  BY <1>1 DEF Good
<1>5. OnPath(u, h)
  BY <1>1, <1>2
<1>6. Valid(u, h) /\ Entry(u, h) = At(u.mem, u.idx, h) /\ u.tab[h] \in DOMAIN u.mem
  <2>1. p \in PlanType /\ KernelPlan(p) /\ h \in 1 .. 4
    OBVIOUS
  <2>2. QED
    BY ONLY <2>1, <1>3, <1>4, <1>5, OnTree
<1>7. IsMem(u.mem, u.brk) /\ Tree(p, u.mem)
  BY <1>1, <1>4 DEF Good, IsWalk
<1>8. u.tab[h] # 0
  BY <1>6, <1>7, MemType
<1>9. At(u.mem, u.idx, h) # Null
  <2>1. h \in {2, 3, 4}
    BY <1>2
  <2>2. QED
    BY <1>1, <1>2, <2>1, AtLevels DEF On
<1>10. At(u.mem, u.idx, h).at # 0
  <2>1. u.idx \in Vectors /\ Kind(p, u.idx[4]) <= j
    BY <1>1 DEF OnPath
  <2>2. At(u.mem, u.idx, j + 1) # Null
    BY <1>2, <1>9
  <2>3. At(u.mem, u.idx, j + 1).at # 0
    BY <1>7, <2>1, <2>2, EntryAbove
  <2>4. QED
    BY <1>2, <2>3
<1>11. v = [u EXCEPT !.tab[j] = Entry(u, j + 1).at]
  BY <1>2, <1>4, <1>6, <1>8 DEF DownTo
<1>12. v = Follow(u, j, u.idx[j + 1])
  BY <1>2, <1>6, <1>10, <1>11 DEF Follow
<1>13. /\ Good(p, v) /\ OnPath(v, j) /\ v.idx = u.idx
       /\ \A i \in 1 .. 4 : i # j => v.tab[i] = u.tab[i]
       /\ v.tab[j] # 0
  BY <1>1, <1>12, FollowFacts
<1>14. v.mem = u.mem /\ v.brk = u.brk
  BY <1>4, <1>11 DEF IsWalk
<1>15. \A i \in j .. (top - 1) : v.tab[i] # 0
  <2>1. \A i \in j .. (top - 1) : i = j \/ (i \in (j + 1) .. (top - 1) /\ i \in 1 .. 4 /\ i # j)
    OBVIOUS
  <2>2. QED
    BY <1>1, <1>13, <2>1
<1>16. QED
  BY <1>1, <1>13, <1>14, <1>15 DEF Reaching

LEMMA OnUp ==
    ASSUME NEW m, NEW I, NEW k \in 1 .. 4, NEW j \in k .. 4, On(m, I, k)
    PROVE  On(m, I, j)
BY DEF On

\* paging_unmap goes through tables that are there, and finds them all.
LEMMA ReachFacts ==
    ASSUME NEW p \in PlanType, KernelPlan(p), NEW w, Good(p, w), NEW k \in 1 .. 3, NEW top \in k .. 4,
           OnPath(w, top), Kind(p, w.idx[4]) <= k, Kind(p, w.idx[4]) \in Nat, On(w.mem, w.idx, k),
           NEW v, v = Reach(w, top, k)
    PROVE  Reaching(p, w, v, top, k)
<1>1. v = DownTo(DownTo(DownTo(w, top, k, 3), top, k, 2), top, k, 1)
  BY DEF Reach, DownTo
<1>2. Reaching(p, w, w, top, top)
  BY DEF Reaching
<1>3. PICK w3 : w3 = DownTo(w, top, k, 3)
  OBVIOUS
<1>4. PICK w2 : w2 = DownTo(w3, top, k, 2)
  OBVIOUS
<1>5. v = DownTo(w2, top, k, 1)
  BY <1>1, <1>3, <1>4
<1>6. \A u, j : j >= top \/ j < k => DownTo(u, top, k, j) = u
  BY DEF DownTo
<1>7. \A u, x : \A j \in 1 .. 3 : k <= j /\ j + 1 <= top /\ Reaching(p, w, u, top, j + 1) /\ x = DownTo(u, top, k, j)
          => Reaching(p, w, x, top, j)
  <2>1. SUFFICES ASSUME NEW j \in 1 .. 3, NEW u, NEW x, k <= j, j + 1 <= top,
                        Reaching(p, w, u, top, j + 1), x = DownTo(u, top, k, j)
                 PROVE  Reaching(p, w, x, top, j)
    OBVIOUS
  <2>2. k \in 1 .. j /\ top \in (j + 1) .. 4 /\ Kind(p, w.idx[4]) <= j /\ j \in k .. 4 /\ k \in 1 .. 4
    BY <2>1
  <2>3. On(w.mem, w.idx, j)
    BY <2>2, OnUp
  <2>4. QED
    BY <2>1, <2>2, <2>3, DownToFacts
<1>8. IF top = 4 /\ k <= 3 THEN Reaching(p, w, w3, top, 3) ELSE w3 = w
  <2>1. CASE top = 4
    BY <1>2, <1>3, <1>7, <2>1
  <2>2. CASE top # 4
    BY <1>3, <1>6, <2>2
  <2>3. QED
    BY <2>1, <2>2
<1>9. CASE k = 3
  <2>1. w2 = w3 /\ v = w2
    BY <1>4, <1>5, <1>6, <1>9
  <2>2. top = 4 \/ (top = 3 /\ w3 = w)
    BY <1>8, <1>9
  <2>3. QED
    BY <1>2, <1>8, <1>9, <2>1, <2>2
<1>10. CASE k = 2
  <2>1. v = w2
    BY <1>5, <1>6, <1>10
  <2>2. CASE top = 2
    <3>1. w2 = w3
      BY <1>4, <1>6, <2>2
    <3>2. QED
      BY <1>2, <1>8, <1>10, <2>1, <2>2, <3>1
  <2>3. CASE top = 3
    <3>1. Reaching(p, w, w3, top, 3)
      BY <1>2, <1>8, <2>3
    <3>2. QED
      BY <1>4, <1>7, <1>10, <2>1, <2>3, <3>1
  <2>4. CASE top = 4
    <3>1. Reaching(p, w, w3, top, 3)
      BY <1>8, <1>10, <2>4
    <3>2. QED
      BY <1>4, <1>7, <1>10, <2>1, <2>4, <3>1
  <2>5. QED
    BY <1>10, <2>2, <2>3, <2>4
<1>11. CASE k = 1
  <2>1. CASE top = 1
    <3>1. w3 = w /\ w2 = w3 /\ v = w2
      BY <1>3, <1>4, <1>5, <1>6, <2>1
    <3>2. QED
      BY <1>2, <1>11, <2>1, <3>1
  <2>2. CASE top = 2
    <3>1. w3 = w /\ w2 = w3
      BY <1>3, <1>4, <1>6, <2>2
    <3>2. Reaching(p, w, w2, top, 2)
      BY <1>2, <2>2, <3>1
    <3>3. QED
      BY <1>5, <1>7, <1>11, <2>2, <3>2
  <2>3. CASE top \in 3 .. 4
    <3>1. Reaching(p, w, w3, top, 3)
      BY <1>2, <1>8, <1>11, <2>3
    <3>2. Reaching(p, w, w2, top, 2)
      BY <1>4, <1>7, <1>11, <2>3, <3>1
    <3>3. QED
      BY <1>5, <1>7, <1>11, <2>3, <3>2
  <2>4. QED
    BY <1>11, <2>1, <2>2, <2>3
<1>12. QED
  BY <1>9, <1>10, <1>11

\* The entries on the way to an address.
LEMMA MappedFacts ==
    ASSUME NEW p \in PlanType, KernelPlan(p), NEW w, Good(p, w), w.tab[4] = FirstFrame,
           NEW va \in Nat, NEW I, I = IndexOf(va)
    PROVE  /\ I \in Vectors
           /\ Path(w, va) = <<F1(w.mem, I), F2(w.mem, I), F3(w.mem, I), F4(w.mem, I)>>
           /\ Mapped(w, va) <=> F1(w.mem, I) # Null
           /\ Mapped(w, va) => LeafLevel(Path(w, va)) = Kind(p, I[4])
<1>1. I \in Vectors
  BY IndexVector
<1>2. Path(w, va) = <<F1(w.mem, I), F2(w.mem, I), F3(w.mem, I), F4(w.mem, I)>>
  BY DEF Path, F1, F2, F3, F4, Get
<1>3. IsMem(w.mem, w.brk) /\ Tree(p, w.mem)
  BY DEF Good, IsWalk
<1>4. Mapped(w, va) <=> (F1(w.mem, I) # Null /\ F2(w.mem, I) # Null /\ F3(w.mem, I) # Null /\ F4(w.mem, I) # Null)
  BY <1>2, Sizes DEF Mapped
<1>5. F1(w.mem, I) # Null => /\ F2(w.mem, I) # Null /\ F3(w.mem, I) # Null /\ F4(w.mem, I) # Null
                             /\ Kind(p, I[4]) \in 1 .. 3
                             /\ F3(w.mem, I).size <=> Kind(p, I[4]) = 3
                             /\ F2(w.mem, I).size <=> Kind(p, I[4]) > 1
  BY <1>1, <1>3, MappedOn
<1>6. LeafLevel(Path(w, va)) = IF F3(w.mem, I).size THEN 3 ELSE IF F2(w.mem, I).size THEN 2 ELSE 1
  BY <1>2 DEF LeafLevel
<1>7. QED
  BY <1>1, <1>2, <1>4, <1>5, <1>6

\* New tables change nothing of what is mapped.
LEMMA GrownOn ==
    ASSUME NEW m, NEW n, Grown(m, n), NEW I \in Vectors, NEW k \in 1 .. 4, On(m, I, k)
    PROVE  On(n, I, k)
<1>1. /\ F4(m, I) # Null => F4(n, I) = F4(m, I)
      /\ F3(m, I) # Null => F3(n, I) = F3(m, I)
      /\ F2(m, I) # Null => F2(n, I) = F2(m, I)
  BY DEF Grown
<1>2. QED
  BY <1>1 DEF On

\* Adding tables keeps all parts of the invariant.
LEMMA GrownKeeps ==
    ASSUME NEW p \in PlanType, KernelPlan(p), NEW m, NEW n, Grown(m, n)
    PROVE  /\ \A r : Tabled(p, m, r) => Tabled(p, n, r)
           /\ \A r : Backed(p, m, r) => Backed(p, n, r)
           /\ \A v : Ahead(p, m, v) => Ahead(p, n, v)
           /\ \A v, u : Free(m, v, u) => Free(n, v, u)
           /\ \A k, f : \A I \in Vectors : Holds(p, m, I, k, f) => Holds(p, n, I, k, f)
           /\ Count(n) = Count(m)
<1>1. \A I \in Vectors : F1(n, I) = F1(m, I)
  BY DEF Grown
<1>2. ASSUME NEW r, Tabled(p, m, r) PROVE Tabled(p, n, r)
  <2>1. KindOf(p, r) \in 1 .. 4
    <3>1. KindOf(p, r) \in 1 .. 3
      BY KindType DEF KindOf
    <3>2. QED
      BY <3>1
  <2>2. QED
    BY <1>2, <2>1, GrownOn DEF Tabled
<1>3. \A v \in AllPages : F1(n, Digits(v)) = F1(m, Digits(v))
  BY <1>1, NumOfDigits
<1>4. Count(n) = Count(m)
  <2>1. {v \in AllPages : F1(n, Digits(v)) # Null} = {v \in AllPages : F1(m, Digits(v)) # Null}
    BY <1>3
  <2>2. QED
    BY <2>1 DEF Count
<1>5. \A r : Backed(p, m, r) => Backed(p, n, r)
  BY <1>1 DEF Backed
<1>6. \A v : Ahead(p, m, v) => Ahead(p, n, v)
  BY <1>1 DEF Ahead
<1>7. \A v, u : Free(m, v, u) => Free(n, v, u)
  BY <1>1 DEF Free
<1>8. \A k, f : \A I \in Vectors : Holds(p, m, I, k, f) => Holds(p, n, I, k, f)
  BY <1>1 DEF Holds
<1>9. QED
  BY <1>2, <1>4, <1>5, <1>6, <1>7, <1>8

LEMMA GrownBoot ==
    ASSUME NEW p \in PlanType, KernelPlan(p), NEW m, NEW n, Grown(m, n), NEW b \in 0 .. Len(p.boot), BootOK(p, m, b)
    PROVE  BootOK(p, n, b)
<1>1. DOMAIN p.boot = 1 .. Len(p.boot) /\ Len(p.boot) \in Nat
  BY DEF PlanType
<1>2. \A i \in 1 .. b : F4(n, Digits(First(p.boot[i]))) # Null
  <2>1. SUFFICES ASSUME NEW i \in 1 .. b PROVE F4(n, Digits(First(p.boot[i]))) # Null
    OBVIOUS
  <2>2. i \in DOMAIN p.boot
    BY <1>1
  <2>3. Digits(First(p.boot[i])) \in Vectors
    BY <2>2, BootFacts
  <2>4. QED
    BY <2>3 DEF Grown, BootOK
<1>3. QED
  BY <1>2, GrownKeeps DEF BootOK

LEMMA ExtUnshared ==
    ASSUME NEW w, NEW v, Ext(w, v), NEW fs \in Seq(Nat), Unshared(w, fs)
    PROVE  Unshared(v, fs)
<1>1. \A i \in DOMAIN fs : fs[i] \in Nat
  OBVIOUS
<1>2. QED
  BY <1>1 DEF Unshared, Ext

LEMMA ExtCur ==
    ASSUME NEW p \in PlanType, KernelPlan(p), NEW w, NEW v, Ext(w, v), v.idx = w.idx, v.tab = w.tab, Cur(p, w)
    PROVE  Cur(p, v)
<1>1. Grown(w.mem, v.mem)
  BY DEF Ext
<1>2. \A u : Ahead(p, w.mem, u) => Ahead(p, v.mem, u)
  BY <1>1, GrownKeeps
<1>3. OnPath(w, 1) => OnPath(v, 1)
  BY <1>1, GrownPath
<1>4. QED
  BY <1>2, <1>3 DEF Cur, Fresh, Placed

\* What an entry is changed to matters only for the pages that it maps.
LEMMA ChangedCur ==
    ASSUME NEW p \in PlanType, KernelPlan(p), NEW w, NEW v, NEW J, NEW k \in 1 .. 4, NEW e,
           Changed(p, w.mem, v.mem, J, k, e), e = Null \/ ~Clear(p, J[4]),
           v.idx = w.idx, v.tab = w.tab, Cur(p, w)
    PROVE  Cur(p, v)
<1>1. \A u : Ahead(p, w.mem, u) => Ahead(p, v.mem, u)
  <2>1. \A I \in Vectors : Clear(p, I[4]) => (F1(v.mem, I) = F1(w.mem, I) \/ F1(v.mem, I) = Null)
    BY DEF Changed, Agree
  <2>2. QED
    BY <2>1 DEF Ahead
<1>2. ASSUME Placed(p, w) PROVE OnPath(v, 1)
  <2>1. w.idx \in Vectors /\ w.idx[4] \in Nat /\ Clear(p, w.idx[4])
    BY <1>2, VectorElements, Sizes DEF Placed, OnPath
  <2>2. Kind(p, w.idx[4]) = 1
    BY <2>1, ClearFacts
  <2>3. /\ F4(v.mem, w.idx) = F4(w.mem, w.idx) /\ F3(v.mem, w.idx) = F3(w.mem, w.idx)
        /\ F2(v.mem, w.idx) = F2(w.mem, w.idx)
    BY <2>1, <2>2 DEF Changed
  <2>4. QED
    BY <1>2, <2>3 DEF Placed, OnPath, On
<1>3. QED
  BY <1>1, <1>2 DEF Cur, Fresh, Placed

\* Changing one entry keeps those that are about other pages.
LEMMA ChangedTabled ==
    ASSUME NEW p \in PlanType, KernelPlan(p), NEW m, NEW n, NEW J, NEW k, NEW e, Changed(p, m, n, J, k, e),
           NEW r, Tabled(p, m, r)
    PROVE  Tabled(p, n, r)
<1>1. KindOf(p, r) \in 1 .. 4 /\ KindOf(p, r) \in Nat
  <2>1. KindOf(p, r) \in 1 .. 3
    BY KindType DEF KindOf
  <2>2. QED
    BY <2>1
<1>2. SUFFICES ASSUME NEW I \in Vectors, Num(I) = PastOf(p, r)
               PROVE  On(n, I, KindOf(p, r)) /\ Kind(p, I[4]) = KindOf(p, r)
  BY DEF Tabled
<1>3. On(m, I, KindOf(p, r)) /\ Kind(p, I[4]) = KindOf(p, r)
  BY <1>2 DEF Tabled
<1>4. QED
  BY <1>1, <1>3, ChangedOn

\* Outside of the entry that is changed nothing is.
LEMMA ChangedBacked ==
    ASSUME NEW p, NEW m, NEW n, NEW J, NEW k, NEW e, Changed(p, m, n, J, k, e),
           NEW r, Backed(p, m, r), \A I \in Vectors : Within(I, FirstOf(r), PastOf(p, r)) => ~Agree(I, J, k)
    PROVE  Backed(p, n, r)
<1>1. \A I \in Vectors : Within(I, FirstOf(r), PastOf(p, r)) => F1(n, I) = F1(m, I)
  BY DEF Changed
<1>2. QED
  BY <1>1 DEF Backed

LEMMA ChangedBoot ==
    ASSUME NEW p \in PlanType, KernelPlan(p), NEW m, NEW n, NEW J, NEW k, NEW e, Changed(p, m, n, J, k, e),
           NEW b \in 0 .. Len(p.boot), BootOK(p, m, b),
           \A i \in (b + 1) .. Len(p.boot) : \A I \in Vectors :
               Within(I, First(p.boot[i]), Past(p.boot[i])) => e = Null \/ ~Agree(I, J, k)
    PROVE  BootOK(p, n, b)
<1>1. DOMAIN p.boot = 1 .. Len(p.boot) /\ Len(p.boot) \in Nat
  BY DEF PlanType
<1>2. \A i \in 1 .. b : F4(n, Digits(First(p.boot[i]))) # Null
  <2>1. SUFFICES ASSUME NEW i \in 1 .. b PROVE F4(n, Digits(First(p.boot[i]))) # Null
    OBVIOUS
  <2>2. i \in DOMAIN p.boot
    BY <1>1
  <2>3. Digits(First(p.boot[i])) \in Vectors
    BY <2>2, BootFacts
  <2>4. QED
    BY <2>3 DEF Changed, BootOK
<1>3. \A i \in (b + 1) .. Len(p.boot) : Free(n, First(p.boot[i]), Past(p.boot[i]))
  BY DEF BootOK, Changed, Free, Within
<1>4. QED
  BY <1>2, <1>3 DEF BootOK

\* The number of pages that are mapped.
LEMMA CountType ==
    \A m : Count(m) \in Nat /\ Count(m) <= TableEntries * Span(4)
<1>1. SUFFICES ASSUME NEW m PROVE Count(m) \in Nat /\ Count(m) <= TableEntries * Span(4)
  OBVIOUS
<1> DEFINE A == {v \in AllPages : F1(m, Digits(v)) # Null}
           x == TableEntries * Span(4)
<1>2. x \in Nat
  <2>1. TableEntries \in Nat /\ Span(4) \in Nat
    BY Sizes, Spans DEF Levels
  <2>2. QED
    BY <2>1
<1>3. IsFiniteSet(AllPages) /\ Cardinality(AllPages) <= x
  <2> HIDE DEF x
  <2>1. IsFiniteSet(0 .. (x - 1)) /\ Cardinality(0 .. (x - 1)) <= x
    <3>1. PICK y \in Int : y = x - 1
      BY <1>2
    <3>2. IsFiniteSet(0 .. y) /\ Cardinality(0 .. y) = IF 0 > y THEN 0 ELSE y - 0 + 1
      BY FS_Interval
    <3>3. QED
      BY <1>2, <3>1, <3>2
  <2>2. QED
    BY <2>1 DEF AllPages, x
<1>4. Count(m) = Cardinality(A)
  BY DEF Count
<1>5. A \subseteq AllPages
  OBVIOUS
<1> HIDE DEF A, x
<1>6. IsFiniteSet(A) /\ Cardinality(A) <= Cardinality(AllPages)
  BY <1>3, <1>5, FS_Subset
<1>7. Cardinality(A) \in Nat /\ Cardinality(AllPages) \in Nat
  BY <1>3, <1>6, FS_CardinalityType
<1>8. QED
  BY <1>2, <1>3, <1>4, <1>6, <1>7 DEF x

\* An entry of level k more or less.
LEMMA CountMore ==
    ASSUME NEW m, NEW n, NEW J \in Vectors, NEW k \in 1 .. 4, \A j \in 1 .. (k - 1) : J[j] = 0,
           \A I \in Vectors : Agree(I, J, k) => F1(m, I) = Null /\ F1(n, I) # Null,
           \A I \in Vectors : ~Agree(I, J, k) => F1(n, I) = F1(m, I)
    PROVE  Count(n) = Count(m) + Span(k)
<1> DEFINE A == {v \in AllPages : F1(m, Digits(v)) # Null}
           B == {v \in AllPages : F1(n, Digits(v)) # Null}
           s == Span(k)
           a == Num(J)
           C == a .. (a + s - 1)
           x == TableEntries * Span(4)
<1>1. s \in Nat \ {0} /\ a \in Nat /\ x \in Nat
  <2>1. TableEntries \in Nat /\ Span(4) \in Nat
    BY Sizes, Spans DEF Levels
  <2>2. s \in Nat \ {0} /\ a \in Nat
    BY Spans, NumFacts DEF Levels
  <2>3. QED
    BY <2>1, <2>2
<1>2. a + s <= x
  BY EntryInside
<1>3. \A v \in AllPages : Agree(Digits(v), J, k) <=> v \in C
  <2>1. SUFFICES ASSUME NEW v \in AllPages PROVE Agree(Digits(v), J, k) <=> v \in C
    OBVIOUS
  <2>2. Digits(v) \in Vectors /\ Num(Digits(v)) = v /\ k \in Levels
    BY NumOfDigits DEF Levels
  <2>3. (\A j \in k .. 4 : Digits(v)[j] = J[j]) <=> (a <= v /\ v < a + s)
    BY <2>2, SameEntry
  <2>4. v \in Nat
    BY <2>2, NumFacts
  <2> HIDE DEF a, s
  <2>5. QED
    BY <1>1, <2>3, <2>4 DEF Agree
<1>4. AllPages = 0 .. (x - 1)
  BY DEF AllPages
<1>5. \A v \in AllPages : Digits(v) \in Vectors
  BY NumOfDigits
<1>6. Count(m) = Cardinality(A) /\ Count(n) = Cardinality(B)
  BY DEF Count
<1> HIDE DEF a, s, x
<1>7. C \subseteq AllPages
  BY <1>1, <1>2, <1>4
<1>8. \A v : v \in B <=> v \in A \/ v \in C
  BY <1>3, <1>5, <1>7
<1>9. \A v : ~(v \in A /\ v \in C)
  BY <1>3, <1>5
<1>10. IsFiniteSet(C) /\ Cardinality(C) = s
  BY <1>1, FS_Interval
<1>11. A \subseteq AllPages /\ IsFiniteSet(AllPages)
  BY <1>1, <1>4, FS_Interval
<1> HIDE DEF A, B, C
<1>12. IsFiniteSet(A)
  BY <1>11, FS_Subset
<1>13. B = A \cup C /\ A \cap C = {}
  BY <1>8, <1>9
<1>14. Cardinality(A \cup C) = Cardinality(A) + Cardinality(C) - Cardinality(A \cap C)
  BY <1>10, <1>12, FS_Union
<1>15. Cardinality({}) = 0
  BY FS_EmptySet
<1>16. Cardinality(A) \in Nat
  BY <1>12, FS_CardinalityType
<1>17. QED
  BY <1>1, <1>6, <1>10, <1>13, <1>14, <1>15, <1>16 DEF s

LEMMA SpaceSize ==
    /\ TableEntries * Span(4) \in Nat /\ TableEntries * Size(4) \in Nat
    /\ TableEntries * Span(4) <= TableEntries * Size(4)
<1>1. TableEntries \in Nat /\ Span(4) \in Nat /\ PageSize \in Nat \ {0} /\ Size(4) = PageSize * Span(4)
  BY Sizes, Spans DEF Levels, Size
<1>2. PageSize * Span(4) \in Nat /\ Span(4) <= PageSize * Span(4)
  <2>1. 1 * Span(4) <= PageSize * Span(4)
    <3>1. 1 \in Nat /\ PageSize \in Nat /\ 1 <= PageSize
      BY <1>1
    <3>2. QED
      BY <1>1, <3>1, TimesMonotone
  <2>2. QED
    BY <1>1, <2>1
<1>3. PICK x \in Nat : x = Span(4)
  BY <1>1
<1>4. PICK y \in Nat : y = Size(4)
  BY <1>1, <1>2
<1>5. x <= y
  BY <1>1, <1>2, <1>3, <1>4
<1>6. x * TableEntries <= y * TableEntries
  BY <1>1, <1>5, TimesMonotone
<1>7. QED
  BY <1>1, <1>3, <1>4, <1>6
-----------------------------------------------------------------------------
\* Types, whatever the plan: every operation takes a walk to a walk.
LEMMA IdxType ==
    ASSUME NEW w, IsWalk(w), NEW I \in [Levels -> 0 .. TableEntries]
    PROVE  IsWalk([w EXCEPT !.idx = I])
<1>1. /\ w = [idx |-> w.idx, tab |-> w.tab, mem |-> w.mem, brk |-> w.brk, wild |-> w.wild]
      /\ w.tab \in [Levels -> Nat] /\ IsMem(w.mem, w.brk) /\ w.wild \in BOOLEAN
  BY DEF IsWalk
<1>2. PICK v : v = [w EXCEPT !.idx = I]
  OBVIOUS
<1>3. /\ v.idx = I /\ v.tab = w.tab /\ v.mem = w.mem /\ v.brk = w.brk /\ v.wild = w.wild
      /\ v = [idx |-> v.idx, tab |-> v.tab, mem |-> v.mem, brk |-> v.brk, wild |-> v.wild]
  BY <1>1, <1>2
<1>4. IsWalk(v)
  BY <1>1, <1>3 DEF IsWalk
<1>5. QED
  BY <1>2, <1>4

\* Types of walks, for any plan: one lemma per operator, one per action.
LEMMA TabsType ==
    ASSUME NEW w, IsWalk(w), NEW t \in [Levels -> Nat]
    PROVE  IsWalk([w EXCEPT !.tab = t])
<1>1. /\ w = [idx |-> w.idx, tab |-> w.tab, mem |-> w.mem, brk |-> w.brk, wild |-> w.wild]
      /\ w.idx \in [Levels -> 0 .. TableEntries] /\ IsMem(w.mem, w.brk) /\ w.wild \in BOOLEAN
  BY DEF IsWalk
<1>2. PICK v : v = [w EXCEPT !.tab = t]
  OBVIOUS
<1>3. /\ v.idx = w.idx /\ v.tab = t /\ v.mem = w.mem /\ v.brk = w.brk /\ v.wild = w.wild
      /\ v = [idx |-> v.idx, tab |-> v.tab, mem |-> v.mem, brk |-> v.brk, wild |-> v.wild]
  BY <1>1, <1>2
<1>4. IsWalk(v)
  BY <1>1, <1>3 DEF IsWalk
<1>5. QED
  BY <1>2, <1>4

LEMMA TabType ==
    ASSUME NEW w, IsWalk(w), NEW k \in 1 .. 4, NEW f \in Nat
    PROVE  IsWalk([w EXCEPT !.tab[k] = f])
<1>1. PICK t : t = [w.tab EXCEPT ![k] = f]
  OBVIOUS
<1>2. t \in [Levels -> Nat]
  BY <1>1 DEF IsWalk
<1>3. [w EXCEPT !.tab[k] = f] = [w EXCEPT !.tab = t]
  BY <1>1
<1>4. QED
  BY <1>2, <1>3, TabsType

LEMMA WildType ==
    ASSUME NEW w, IsWalk(w)
    PROVE  IsWalk(Wild(w)) /\ Wild(w).mem = w.mem /\ Wild(w).brk = w.brk /\ Wild(w).wild /\ Wild(w).tab = w.tab /\ Wild(w).idx = w.idx
<1>1. /\ w = [idx |-> w.idx, tab |-> w.tab, mem |-> w.mem, brk |-> w.brk, wild |-> w.wild]
      /\ w.idx \in [Levels -> 0 .. TableEntries] /\ w.tab \in [Levels -> Nat] /\ IsMem(w.mem, w.brk)
  BY DEF IsWalk
<1>2. PICK v : v = Wild(w)
  OBVIOUS
<1>3. /\ v.idx = w.idx /\ v.tab = w.tab /\ v.mem = w.mem /\ v.brk = w.brk /\ v.wild = TRUE
      /\ v = [idx |-> v.idx, tab |-> v.tab, mem |-> v.mem, brk |-> v.brk, wild |-> v.wild]
  BY <1>1, <1>2 DEF Wild
<1>4. v.wild
  BY <1>3
<1>5. IsWalk(v)
  BY <1>1, <1>3 DEF IsWalk
<1>6. QED
  BY <1>2, <1>3, <1>4, <1>5

LEMMA EntryTyped ==
    ASSUME NEW w, IsWalk(w), NEW k
    PROVE  Entry(w, k) \in EntryType /\ Entry(w, k).at \in Nat
<1>1. IsMem(w.mem, w.brk)
  BY DEF IsWalk
<1>2. Entry(w, k) \in EntryType
  BY <1>1, MemType, Entries DEF Entry, Valid
<1>3. QED
  BY <1>2 DEF EntryType

LEMMA WriteType ==
    ASSUME NEW w, IsWalk(w), NEW k, NEW e \in EntryType
    PROVE  IsWalk(Write(w, k, e))
<1>1. CASE ~Valid(w, k)
  BY <1>1, WildType DEF Write
<1>2. CASE Valid(w, k)
  <2>1. /\ w = [idx |-> w.idx, tab |-> w.tab, mem |-> w.mem, brk |-> w.brk, wild |-> w.wild]
        /\ w.idx \in [Levels -> 0 .. TableEntries] /\ w.tab \in [Levels -> Nat] /\ IsMem(w.mem, w.brk)
        /\ w.wild \in BOOLEAN
    BY DEF IsWalk
  <2>2. PICK n : n = Put(w.mem, w.tab[k], w.idx[k], e)
    OBVIOUS
  <2>3. IsMem(n, w.brk)
    BY <1>2, <2>1, <2>2 DEF IsMem, Put, Valid
  <2>4. PICK v : v = Write(w, k, e)
    OBVIOUS
  <2>5. v = [w EXCEPT !.mem = n]
    BY <1>2, <2>2, <2>4 DEF Write, Put
  <2>6. /\ v.idx = w.idx /\ v.tab = w.tab /\ v.mem = n /\ v.brk = w.brk /\ v.wild = w.wild
        /\ v = [idx |-> v.idx, tab |-> v.tab, mem |-> v.mem, brk |-> v.brk, wild |-> v.wild]
    BY <2>1, <2>5
  <2>7. IsWalk(v)
    BY <2>1, <2>3, <2>6 DEF IsWalk
  <2>8. QED
    BY <2>4, <2>7
<1>3. QED
  BY <1>1, <1>2

LEMMA ReserveType ==
    ASSUME NEW w, IsWalk(w)
    PROVE  IsWalk([w EXCEPT !.brk = @ + 1]) /\ w.brk \in Nat
<1>1. /\ w = [idx |-> w.idx, tab |-> w.tab, mem |-> w.mem, brk |-> w.brk, wild |-> w.wild]
      /\ w.idx \in [Levels -> 0 .. TableEntries] /\ w.tab \in [Levels -> Nat] /\ IsMem(w.mem, w.brk)
      /\ w.wild \in BOOLEAN
  BY DEF IsWalk
<1>2. w.brk \in Nat /\ \A f \in DOMAIN w.mem : f \in Nat /\ FirstFrame <= f /\ f < w.brk
  BY <1>1, MemType
<1>3. PICK c \in Nat : c = w.brk + 1
  BY <1>2
<1>4. IsMem(w.mem, c)
  BY <1>1, <1>2, <1>3 DEF IsMem
<1>5. PICK v : v = [w EXCEPT !.brk = @ + 1]
  OBVIOUS
<1>6. /\ v.idx = w.idx /\ v.tab = w.tab /\ v.mem = w.mem /\ v.brk = c /\ v.wild = w.wild
      /\ v = [idx |-> v.idx, tab |-> v.tab, mem |-> v.mem, brk |-> v.brk, wild |-> v.wild]
  BY <1>1, <1>3, <1>5
<1>7. IsWalk(v)
  BY <1>1, <1>4, <1>6 DEF IsWalk
<1>8. QED
  BY <1>2, <1>5, <1>7

LEMMA NewTableType ==
    ASSUME NEW w, IsWalk(w), NEW k \in 1 .. 3, NEW s
    PROVE  IsWalk(NewTable(w, k, s))
<1>1. CASE ~(w.tab[k + 1] \in DOMAIN w.mem /\ s \in Slots)
  BY <1>1, WildType DEF NewTable
<1>2. CASE w.tab[k + 1] \in DOMAIN w.mem /\ s \in Slots
  <2>1. /\ w = [idx |-> w.idx, tab |-> w.tab, mem |-> w.mem, brk |-> w.brk, wild |-> w.wild]
        /\ w.idx \in [Levels -> 0 .. TableEntries] /\ w.tab \in [Levels -> Nat] /\ IsMem(w.mem, w.brk)
        /\ w.wild \in BOOLEAN
    BY DEF IsWalk
  <2>2. w.brk \in Nat
    BY <2>1, MemType
  <2>3. PICK c \in Nat : c = w.brk + 1
    BY <2>2
  <2>4. PICK n : n = AddTable(w.mem, w.tab[k + 1], s, w.brk)
    OBVIOUS
  <2>5. IsMem(n, c)
    BY <1>2, <2>1, <2>2, <2>3, <2>4, AddType
  <2>6. PICK t : t = [w.tab EXCEPT ![k] = w.brk]
    OBVIOUS
  <2>7. t \in [Levels -> Nat]
    BY <2>1, <2>2, <2>6
  <2>8. PICK v : v = NewTable(w, k, s)
    OBVIOUS
  <2>9. v = [w EXCEPT !.tab[k] = w.brk, !.brk = @ + 1, !.mem = AddTable(w.mem, w.tab[k + 1], s, w.brk)]
    BY <1>2, <2>8 DEF NewTable, AddTable
  <2>10. v = [w EXCEPT !.tab = t, !.brk = c, !.mem = n]
    BY <2>3, <2>4, <2>6, <2>9
  <2>11. /\ v.idx = w.idx /\ v.tab = t /\ v.mem = n /\ v.brk = c /\ v.wild = w.wild
         /\ v = [idx |-> v.idx, tab |-> v.tab, mem |-> v.mem, brk |-> v.brk, wild |-> v.wild]
    BY <2>1, <2>10
  <2>12. IsWalk(v)
    BY <2>1, <2>5, <2>7, <2>11 DEF IsWalk
  <2>13. QED
    BY <2>8, <2>12
<1>3. QED
  BY <1>1, <1>2

LEMMA FollowType ==
    ASSUME NEW w, IsWalk(w), NEW k \in 1 .. 3, NEW s
    PROVE  IsWalk(Follow(w, k, s))
<1>1. Entry(w, k + 1).at \in Nat
  BY EntryTyped
<1>2. k \in 1 .. 4
  OBVIOUS
<1>3. IsWalk([w EXCEPT !.tab[k] = Entry(w, k + 1).at]) /\ IsWalk(Wild(w)) /\ IsWalk(NewTable(w, k, s))
  BY <1>1, <1>2, TabType, WildType, NewTableType
<1>4. QED
  BY <1>3 DEF Follow

LEMMA LoadType ==
    ASSUME NEW w, IsWalk(w), NEW k \in 1 .. 3
    PROVE  IsWalk(Load(w, k))
BY FollowType DEF Load

LEMMA DescendType ==
    ASSUME NEW w, IsWalk(w), NEW top, NEW k
    PROVE  IsWalk(Descend(w, top, k))
<1>1. PICK w3 : w3 = IF top > 3 /\ k <= 3 THEN Load(w, 3) ELSE w
  OBVIOUS
<1>2. PICK w2 : w2 = IF top > 2 /\ k <= 2 THEN Load(w3, 2) ELSE w3
  OBVIOUS
<1>3. IsWalk(w3)
  BY <1>1, LoadType
<1>4. IsWalk(w2)
  BY <1>2, <1>3, LoadType
<1>5. Descend(w, top, k) = IF top > 1 /\ k <= 1 THEN Load(w2, 1) ELSE w2
  BY <1>1, <1>2 DEF Descend
<1>6. QED
  BY <1>4, <1>5, LoadType

LEMMA IncrementType ==
    ASSUME NEW w, IsWalk(w), NEW k \in 1 .. 4
    PROVE  IsWalk(Increment(w, k)) /\ Carry(w, k) \in k .. 5
<1>1. w.idx \in [Levels -> 0 .. TableEntries] /\ TableEntries \in Nat /\ k \in Levels
  BY Sizes DEF IsWalk
<1>2. w.idx \in [Levels -> Nat]
  BY <1>1
<1>3. /\ Carry(w, k) \in k .. 5
      /\ Carry(w, k) <= 4 => w.idx[Carry(w, k)] + 1 < TableEntries
  BY <1>1, <1>2, CarryFacts
<1>4. After(w, k) \in [Levels -> 0 .. TableEntries]
  <2>1. ASSUME NEW j \in Levels
        PROVE  (IF j < k \/ j > Carry(w, k) THEN w.idx[j] ELSE IF j = Carry(w, k) THEN w.idx[j] + 1 ELSE 0)
                  \in 0 .. TableEntries
    <3>1. w.idx[j] \in 0 .. TableEntries /\ j \in 1 .. 4
      BY <1>1 DEF Levels
    <3>2. QED
      BY <1>1, <1>3, <3>1
  <2>2. QED
    BY <2>1 DEF After
<1>5. Increment(w, k) = [w EXCEPT !.idx = After(w, k)]
  BY DEF Increment, After
<1>6. QED
  BY <1>3, <1>4, <1>5, IdxType

LEMMA AdvanceType ==
    ASSUME NEW w, IsWalk(w), NEW k \in 1 .. 4
    PROVE  IsWalk(Advance(w, k)) /\ IsWalk(AdvanceWrapping(w, k))
<1>1. PICK n : n = Increment(w, k)
  OBVIOUS
<1>2. IsWalk(n)
  BY <1>1, IncrementType
<1>3. IsWalk(Descend(n, Carry(w, k), k))
  BY <1>2, DescendType
<1>4. Unmasked(Entry(n, 4).at) \in Nat
  BY <1>2, EntryTyped, Sizes DEF Unmasked
<1>5. IsWalk([n EXCEPT !.tab[3] = Unmasked(Entry(n, 4).at)])
  BY <1>2, <1>4, TabType
<1>6. QED
  BY <1>1, <1>3, <1>5 DEF Advance, AdvanceWrapping

LEMMA NewTablesType ==
    ASSUME NEW w, IsWalk(w), NEW c, NEW k
    PROVE  IsWalk(NewTables(w, c, k))
<1> DEFINE fresh(v, j) == IF j <= k /\ j >= c.level /\ ~v.wild
                          THEN NewTable([v EXCEPT !.idx[j] = 0], j, v.idx[j + 1]) ELSE v
<1>1. ASSUME NEW v, IsWalk(v), NEW j \in 1 .. 3 PROVE IsWalk(fresh(v, j))
  <2>1. PICK I : I = [v.idx EXCEPT ![j] = 0]
    OBVIOUS
  <2>2. I \in [Levels -> 0 .. TableEntries]
    <3>1. v.idx \in [Levels -> 0 .. TableEntries]
      BY <1>1 DEF IsWalk
    <3>2. 0 \in 0 .. TableEntries
      BY Sizes
    <3>3. QED
      BY <2>1, <3>1, <3>2
  <2>3. [v EXCEPT !.idx[j] = 0] = [v EXCEPT !.idx = I]
    BY <2>1
  <2>4. IsWalk([v EXCEPT !.idx[j] = 0])
    BY <1>1, <2>2, <2>3, IdxType
  <2>5. IsWalk(NewTable([v EXCEPT !.idx[j] = 0], j, v.idx[j + 1]))
    BY <2>4, NewTableType
  <2>6. QED
    BY <1>1, <2>5
<1>2. NewTables(w, c, k) = fresh(fresh(fresh(w, 3), 2), 1)
  BY DEF NewTables
<1> HIDE DEF fresh
<1>3. IsWalk(fresh(w, 3))
  BY <1>1
<1>4. IsWalk(fresh(fresh(w, 3), 2))
  BY <1>1, <1>3
<1>5. IsWalk(fresh(fresh(fresh(w, 3), 2), 1))
  BY <1>1, <1>4
<1>6. QED
  BY <1>2, <1>5

LEMMA ToIndexType ==
    ASSUME NEW w, IsWalk(w), NEW c \in CallType
    PROVE  IsWalk(ToIndex(w, c))
<1> DEFINE A3 == Load([w EXCEPT !.idx = IndexOf(c.va)], 3)
           A2(x) == IF c.level < 3 THEN Load(x, 2) ELSE [x EXCEPT !.tab[2] = 0]
           A1(x) == IF c.level < 2 /\ ~x.wild THEN Follow(x, 1, x.idx[3]) ELSE [x EXCEPT !.tab[1] = 0]
           A0(x) == [x EXCEPT !.idx = [k \in Levels |-> IF k < c.level THEN 0 ELSE x.idx[k]]]
<1>1. ToIndex(w, c) = A0(A1(A2(A3)))
  BY DEF ToIndex
<1>2. IsWalk(A3)
  <2>1. IndexOf(c.va) \in [Levels -> 0 .. TableEntries]
    <3>1. c.va \in Nat
      BY DEF CallType
    <3>2. IndexOf(c.va) \in [Levels -> Slots]
      BY <3>1, IndexVector DEF Vectors
    <3>3. \A s \in Slots : s \in 0 .. TableEntries
      BY Sizes
    <3>4. QED
      BY <3>2, <3>3
  <2>2. IsWalk([w EXCEPT !.idx = IndexOf(c.va)])
    BY <2>1, IdxType
  <2>3. QED
    BY <2>2, LoadType
<1>3. ASSUME NEW x, IsWalk(x) PROVE IsWalk(A2(x)) /\ IsWalk(A1(x)) /\ IsWalk(A0(x))
  <2>1. IsWalk(Load(x, 2)) /\ IsWalk(Follow(x, 1, x.idx[3]))
    BY <1>3, LoadType, FollowType
  <2>2. IsWalk([x EXCEPT !.tab[2] = 0]) /\ IsWalk([x EXCEPT !.tab[1] = 0])
    BY <1>3, TabType
  <2>3. [k \in Levels |-> IF k < c.level THEN 0 ELSE x.idx[k]] \in [Levels -> 0 .. TableEntries]
    <3>1. x.idx \in [Levels -> 0 .. TableEntries]
      BY <1>3 DEF IsWalk
    <3>2. 0 \in 0 .. TableEntries
      BY Sizes
    <3>3. QED
      BY <3>1, <3>2
  <2>4. IsWalk([x EXCEPT !.idx = [k \in Levels |-> IF k < c.level THEN 0 ELSE x.idx[k]]])
    BY <1>3, <2>3, IdxType
  <2>5. QED
    BY <2>1, <2>2, <2>4
<1> HIDE DEF A0, A1, A2, A3
<1>4. QED
  BY <1>1, <1>2, <1>3

LEMMA EndedType ==
    ASSUME NEW w, IsWalk(w), NEW k
    PROVE  IsWalk(Ended(w, k))
<1>1. [j \in Levels |-> IF j < k THEN w.idx[j] ELSE TableEntries] \in [Levels -> 0 .. TableEntries]
  BY Sizes DEF IsWalk
<1>2. QED
  BY <1>1, IdxType DEF Ended

LEMMA ReachType ==
    ASSUME NEW w, IsWalk(w), NEW top, NEW k
    PROVE  IsWalk(Reach(w, top, k))
<1>1. ASSUME NEW v, IsWalk(v), NEW j \in 1 .. 3 PROVE IsWalk(DownTo(v, top, k, j))
  <2>1. Entry(v, j + 1).at \in Nat /\ j \in 1 .. 4
    BY <1>1, EntryTyped
  <2>2. IsWalk([v EXCEPT !.tab[j] = Entry(v, j + 1).at]) /\ IsWalk(Wild(v))
    BY <1>1, <2>1, TabType, WildType
  <2>3. QED
    BY <1>1, <2>2 DEF DownTo
<1>2. Reach(w, top, k) = DownTo(DownTo(DownTo(w, top, k, 3), top, k, 2), top, k, 1)
  BY DEF Reach, DownTo
<1>3. IsWalk(DownTo(w, top, k, 3))
  BY <1>1
<1>4. IsWalk(DownTo(DownTo(w, top, k, 3), top, k, 2))
  BY <1>1, <1>3
<1>5. QED
  BY <1>1, <1>2, <1>4

LEMMA LevelTypes ==
    /\ \A w, c : SpotLevel(w, c) \in 1 .. 4
    /\ \A w, c : PageLevel(w, c) \in 1 .. 3
    /\ \A q : LeafLevel(q) \in 1 .. 3
BY DEF SpotLevel, PageLevel, LeafLevel

LEMMA SizeType ==
    \A k \in 1 .. 4 : Size(k) \in Nat \ {0}
<1>1. SUFFICES ASSUME NEW k \in 1 .. 4 PROVE Size(k) \in Nat \ {0}
  OBVIOUS
<1>2. PageSize \in Nat \ {0} /\ Span(k) \in Nat \ {0}
  BY Sizes, Spans DEF Levels
<1>3. QED
  BY <1>2 DEF Size

LEMMA AddressType ==
    ASSUME NEW I \in [Levels -> 0 .. TableEntries]
    PROVE  AddressOf(I) \in Nat
<1>1. /\ I[1] \in Nat /\ I[2] \in Nat /\ I[3] \in Nat /\ I[4] \in Nat
  BY Sizes
<1>2. Size(1) \in Nat /\ Size(2) \in Nat /\ Size(3) \in Nat /\ Size(4) \in Nat
  BY SizeType
<1>3. I[1] * Size(1) \in Nat /\ I[2] * Size(2) \in Nat /\ I[3] * Size(3) \in Nat /\ I[4] * Size(4) \in Nat
  BY <1>1, <1>2
<1>4. QED
  BY <1>3 DEF AddressOf

LEMMA ModType ==
    ASSUME NEW a \in Int
    PROVE  a % Modulus \in 0 .. (Modulus - 1)
BY Sizes
-----------------------------------------------------------------------------
RegionType == [va : Nat, bytes : Nat, user : BOOLEAN, physical : BOOLEAN, frames : Seq(Nat)]
TypeInv == /\ IsWalk(walk) /\ context \in Cursor /\ call \in CallType
           /\ used_virtual_pages \in 0 .. (Modulus - 1)
           /\ pc \in {"idle", "find", "map", "page", "unmap"}
           /\ count \in Nat /\ address \in Nat /\ ret \in Nat
           /\ plan \in Plans /\ booted \in 0 .. Len(plan.boot)
           /\ frames \in Seq(Nat) /\ regions \subseteq RegionType

LEMMA TypeInvType ==
    ASSUME TypeInv
    PROVE  TypeOK
<1>1. /\ walk.idx \in [Levels -> 0 .. TableEntries] /\ walk.tab \in [Levels -> Nat]
      /\ IsMem(walk.mem, walk.brk) /\ walk.wild \in BOOLEAN
  BY DEF TypeInv, IsWalk
<1>2. /\ DOMAIN walk.mem \subseteq FirstFrame .. (walk.brk - 1)
      /\ \A f \in DOMAIN walk.mem : walk.mem[f] \in [Slots -> EntryType]
  BY <1>1 DEF IsMem
<1>3. QED
  BY <1>1, <1>2 DEF TypeInv, TypeOK, RegionType

LEMMA OfferedType ==
    ASSUME TypeInv, NEW c \in Offered
    PROVE  c \in CallType
<1>1. plan \in PlanType /\ Len(plan.boot) \in Nat /\ booted \in 0 .. Len(plan.boot)
  BY PagingAssumption DEF TypeInv, PlanType
<1>2. CASE booted < Len(plan.boot)
  <2>1. c = plan.boot[booted + 1] /\ booted + 1 \in 1 .. Len(plan.boot)
    BY <1>1, <1>2 DEF Offered
  <2>2. plan.boot \in Seq(CallType)
    BY <1>1 DEF PlanType
  <2>3. QED
    BY <2>1, <2>2
<1>3. CASE ~(booted < Len(plan.boot))
  <2>1. c \in plan.calls \/ \E r \in regions : c = UnmapOf(r)
    BY <1>3 DEF Offered
  <2>2. plan.calls \subseteq CallType
    BY <1>1 DEF PlanType
  <2>3. \A r \in regions : UnmapOf(r) \in CallType
    <3>1. SUFFICES ASSUME NEW r \in regions PROVE UnmapOf(r) \in CallType
      OBVIOUS
    <3>2. r.va \in Nat /\ r.bytes \in Nat
      BY DEF TypeInv, RegionType
    <3>3. UnmapOf(r) = [op |-> "unmap", va |-> r.va, pa |-> 0, bytes |-> r.bytes, level |-> 1,
                        replace |-> FALSE, user |-> FALSE]
      <4>1. PICK n : n = NoCall
        OBVIOUS
      <4>2. n = [op |-> "unmap", va |-> 0, pa |-> 0, bytes |-> 0, level |-> 1, replace |-> FALSE, user |-> FALSE]
        BY <4>1 DEF NoCall
      <4>3. PICK v : v = [n EXCEPT !.va = r.va, !.bytes = r.bytes]
        OBVIOUS
      <4>4. v = [op |-> "unmap", va |-> r.va, pa |-> 0, bytes |-> r.bytes, level |-> 1,
                 replace |-> FALSE, user |-> FALSE]
        BY <4>2, <4>3
      <4>5. QED
        BY <4>1, <4>3, <4>4 DEF UnmapOf
    <3>4. QED
      BY <3>2, <3>3 DEF CallType
  <2>4. QED
    BY <2>1, <2>2, <2>3
<1>4. QED
  BY <1>2, <1>3

LEMMA BeginType ==
    ASSUME TypeInv, NEW c, Begin(c)
    PROVE  booted' \in 0 .. Len(plan.boot)
<1>1. Len(plan.boot) \in Nat /\ booted \in 0 .. Len(plan.boot)
  BY PagingAssumption DEF TypeInv, PlanType
<1>2. QED
  BY <1>1 DEF Begin

LEMMA NoCallType ==
    NoCall \in CallType
BY DEF NoCall, CallType

\* What a call leaves when it returns, and when it goes on.
LEMMA ReturnType ==
    ASSUME TypeInv, NEW c, NEW w, IsWalk(w), NEW r \in Nat, Return(c, w, r),
           used_virtual_pages' \in 0 .. (Modulus - 1), regions' \subseteq RegionType,
           booted' \in 0 .. Len(plan.boot)
    PROVE  TypeInv'
<1>1. IsWalk(walk')
  <2> DEFINE I == [k \in Levels |-> 0]
             t == [k \in Levels |-> IF k = 4 THEN w.tab[4] ELSE 0]
  <2>1. I \in [Levels -> 0 .. TableEntries] /\ t \in [Levels -> Nat]
    BY Sizes DEF IsWalk
  <2>2. walk' = [[w EXCEPT !.idx = I] EXCEPT !.tab = t]
    BY DEF Return
  <2> HIDE DEF I, t
  <2>3. QED
    BY <2>1, <2>2, IdxType, TabsType
<1>2. context' \in Cursor
  BY DEF Return, TypeInv, Cursor, IsWalk
<1>3. call' \in CallType
  BY NoCallType DEF Return
<1>4. frames' \in Seq(Nat)
  BY DEF Return
<1>5. QED
  BY <1>1, <1>2, <1>3, <1>4 DEF TypeInv, Return

LEMMA ContinueType ==
    ASSUME TypeInv, NEW c \in CallType, NEW w, IsWalk(w), NEW l \in {"find", "map", "page", "unmap"},
           Continue(c, w, l), count' \in Nat, address' \in Nat, frames' \in Seq(Nat),
           booted' \in 0 .. Len(plan.boot)
    PROVE  TypeInv'
BY DEF TypeInv, Continue

LEMMA ProceedType ==
    ASSUME TypeInv, NEW c \in CallType, NEW w, IsWalk(w), NEW l \in {"find", "map", "page", "unmap"},
           Proceed(c, w, l), booted' \in 0 .. Len(plan.boot)
    PROVE  TypeInv'
<1>1. Continue(c, w, l) /\ count' \in Nat /\ address' \in Nat /\ frames' \in Seq(Nat)
  BY DEF Proceed, TypeInv
<1>2. QED
  BY <1>1, ContinueType

LEMMA FailType ==
    ASSUME TypeInv, NEW c, NEW w, IsWalk(w), Fail(c, w), booted' \in 0 .. Len(plan.boot)
    PROVE  TypeInv'
<1>1. Return(c, w, 0) /\ used_virtual_pages' \in 0 .. (Modulus - 1) /\ regions' \subseteq RegionType
  BY DEF Fail, TypeInv
<1>2. QED
  BY <1>1, ReturnType

LEMMA PagesType ==
    ASSUME NEW bytes \in Nat, NEW k \in 1 .. 4
    PROVE  Pages(bytes, k) \in Nat \ {0} /\ SmallPages(Pages(bytes, k), k) \in Nat
<1>1. Size(k) \in Nat \ {0} /\ Span(k) \in Nat
  BY SizeType, Spans DEF Levels
<1>2. (bytes - 1) % Modulus \in Nat
  <2>1. (bytes - 1) % Modulus \in 0 .. (Modulus - 1)
    BY ModType
  <2>2. QED
    BY <2>1, Sizes
<1>3. ((bytes - 1) % Modulus) \div Size(k) \in Nat
  BY <1>1, <1>2, DivMod
<1>4. Pages(bytes, k) \in Nat \ {0}
  BY <1>3 DEF Pages
<1>5. QED
  BY <1>1, <1>4 DEF SmallPages

LEMMA PhysicalType == ASSUME NEW c PROVE Physical(c) \in BOOLEAN
BY DEF Physical

\* The frames of a mapping by physical address.
LEMMA RegionTyped ==
    ASSUME NEW c \in CallType, NEW va \in Nat, NEW fs \in Seq(Nat)
    PROVE  Region(c, va, fs) \in RegionType
<1>1. c.bytes \in Nat /\ c.user \in BOOLEAN /\ c.pa \in Nat
  BY DEF CallType
<1>2. Pages(c.bytes, 1) \in Nat
  <2>1. 1 \in 1 .. 4
    OBVIOUS
  <2>2. Pages(c.bytes, 1) \in Nat \ {0}
    BY <1>1, <2>1, PagesType
  <2>3. QED
    BY <2>2
<1>3. c.pa \div PageSize \in Nat
  BY <1>1, Sizes, DivMod
<1> DEFINE g == [i \in 1 .. Pages(c.bytes, 1) |-> c.pa \div PageSize + i - 1]
<1>4. \A i \in 1 .. Pages(c.bytes, 1) : c.pa \div PageSize + i - 1 \in Nat
  BY <1>2, <1>3
<1>5. g \in Seq(Nat)
  BY <1>2, <1>4
<1> HIDE DEF g
<1>6. PICK h \in Seq(Nat) : h = IF Physical(c) THEN g ELSE fs
  BY <1>5
<1>7. PICK y \in BOOLEAN : y = Physical(c)
  BY PhysicalType
<1>8. Region(c, va, fs) = [va |-> va, bytes |-> c.bytes, user |-> c.user, physical |-> y, frames |-> h]
  BY <1>6, <1>7 DEF Region, g
<1>9. QED
  BY <1>1, <1>8 DEF RegionType

LEMMA FrameType ==
    ASSUME TypeInv, NEW k \in 1 .. 4
    PROVE  (call.pa + count * Size(k)) \div PageSize \in Nat /\ walk.brk \in Nat
<1>1. call.pa \in Nat /\ count \in Nat /\ Size(k) \in Nat /\ PageSize \in Nat \ {0}
  BY SizeType, Sizes DEF TypeInv, CallType
<1>2. call.pa + count * Size(k) \in Nat
  BY <1>1
<1>3. (call.pa + count * Size(k)) \div PageSize \in Nat
  BY <1>1, <1>2, DivMod
<1>4. QED
  BY <1>3, ReserveType DEF TypeInv

LEMMA FindSpotType ==
    ASSUME TypeInv, NEW c \in CallType, FindSpot(c)
    PROVE  TypeInv'
<1> DEFINE w == [walk EXCEPT !.idx = context.idx, !.tab = context.tab]
<1>1. IsWalk(w)
  <2>1. /\ IsWalk(walk) /\ context.idx \in [Levels -> 0 .. TableEntries] /\ context.tab \in [Levels -> Nat]
    BY DEF TypeInv, Cursor
  <2>2. w = [[walk EXCEPT !.idx = context.idx] EXCEPT !.tab = context.tab]
    OBVIOUS
  <2> HIDE DEF w
  <2>3. QED
    BY <2>1, <2>2, IdxType, TabsType
<1>2. booted' \in 0 .. Len(plan.boot)
  BY BeginType DEF FindSpot
<1>3. Fail(c, w) \/ Proceed(c, w, "map") \/ Proceed(c, w, "find")
  BY DEF FindSpot
<1> HIDE DEF w
<1>4. QED
  BY <1>1, <1>2, <1>3, FailType, ProceedType

LEMMA FindAddressType ==
    ASSUME TypeInv, NEW c \in CallType, FindAddress(c)
    PROVE  TypeInv'
<1>1. IsWalk(ToIndex(walk, c))
  BY ToIndexType DEF TypeInv
<1>2. booted' \in 0 .. Len(plan.boot)
  BY BeginType DEF FindAddress
<1>3. Fail(c, ToIndex(walk, c)) \/ Proceed(c, ToIndex(walk, c), "map")
  BY DEF FindAddress
<1>4. QED
  BY <1>1, <1>2, <1>3, FailType, ProceedType

LEMMA PathTyped ==
    ASSUME TypeInv, NEW va \in Nat
    PROVE  /\ Path(walk, va)[4].at \in Nat /\ Path(walk, va)[3].at \in Nat /\ Path(walk, va)[2].at \in Nat
<1> DEFINE at(t, k) == IF t \in DOMAIN walk.mem THEN walk.mem[t][IndexOf(va)[k]] ELSE Null
           e4 == at(walk.tab[4], 4)
           e3 == at(e4.at, 3)
           e2 == IF e3.size THEN e3 ELSE at(e3.at, 2)
           e1 == IF e2.size THEN e2 ELSE at(e2.at, 1)
<1>1. IsMem(walk.mem, walk.brk)
  BY DEF TypeInv, IsWalk
<1>2. \A k \in 1 .. 4 : IndexOf(va)[k] \in Slots
  BY IndexVector, VectorElements, Sizes DEF Levels
<1>3. \A t, k : k \in 1 .. 4 => at(t, k) \in EntryType
  BY <1>1, <1>2, MemType, Entries
<1>4. Path(walk, va) = <<e1, e2, e3, e4>>
  BY DEF Path
<1> HIDE DEF at
<1>5. e4 \in EntryType /\ e3 \in EntryType /\ e2 \in EntryType
  BY <1>3
<1> HIDE DEF e1, e2, e3, e4
<1>6. e4.at \in Nat /\ e3.at \in Nat /\ e2.at \in Nat
  BY <1>5 DEF EntryType
<1>7. QED
  BY <1>4, <1>6

LEMMA StartUnmapType ==
    ASSUME TypeInv, NEW c \in CallType, StartUnmap(c)
    PROVE  TypeInv'
<1> DEFINE q == Path(walk, c.va)
           k == LeafLevel(q)
           w == [walk EXCEPT !.idx = IndexOf(c.va), !.tab[3] = q[4].at, !.tab[2] = q[3].at, !.tab[1] = q[2].at]
<1>1. c.va \in Nat
  BY DEF CallType
<1>2. q[4].at \in Nat /\ q[3].at \in Nat /\ q[2].at \in Nat
  BY <1>1, PathTyped
<1>3. k \in 1 .. 3
  BY LevelTypes
<1>4. Fail(c, w) \/ Proceed([c EXCEPT !.level = k], w, "unmap")
  BY DEF StartUnmap
<1>5. booted' \in 0 .. Len(plan.boot)
  BY BeginType DEF StartUnmap
<1> HIDE DEF q, k
<1>6. IsWalk(w)
  <2>1. PICK I : I = IndexOf(c.va)
    OBVIOUS
  <2>2. I \in [Levels -> 0 .. TableEntries]
    <3>1. I \in [Levels -> Slots]
      BY <1>1, <2>1, IndexVector DEF Vectors
    <3>2. \A s \in Slots : s \in 0 .. TableEntries
      BY Sizes
    <3>3. QED
      BY <3>1, <3>2
  <2>3. PICK t : t = [walk.tab EXCEPT ![3] = q[4].at, ![2] = q[3].at, ![1] = q[2].at]
    OBVIOUS
  <2>4. t \in [Levels -> Nat] /\ IsWalk(walk)
    BY <1>2, <2>3, Sizes DEF TypeInv, IsWalk
  <2>5. w = [[walk EXCEPT !.idx = I] EXCEPT !.tab = t]
    BY <2>1, <2>3, <2>4 DEF IsWalk
  <2> HIDE DEF w
  <2>6. QED
    BY <2>2, <2>4, <2>5, IdxType, TabsType
<1>7. [c EXCEPT !.level = k] \in CallType
  BY <1>3 DEF CallType
<1> HIDE DEF w
<1>8. QED
  BY <1>4, <1>5, <1>6, <1>7, FailType, ProceedType

\* A search is for no more than a level 4 entry covers.
FindBytes == pc = "find" => call.bytes <= Size(4)

LEMMA SpotBytes ==
    ASSUME NEW w, NEW c \in CallType
    PROVE  SpotLevel(w, c) # 4 <=> c.bytes <= Size(4)
<1>1. Size(2) \in Nat /\ Size(3) \in Nat /\ Size(4) \in Nat /\ c.bytes \in Nat
  BY SizeType DEF CallType
<1>2. Size(2) <= Size(4) /\ Size(3) <= Size(4)
  <2>1. Span(2) \in Nat /\ Span(3) \in Nat /\ Span(4) \in Nat /\ Span(2) < Span(2 + 1) /\ Span(3) < Span(3 + 1)
    BY Spans DEF Levels
  <2>2. Span(2) <= Span(4) /\ Span(3) <= Span(4)
    BY <2>1
  <2>3. Span(2) * PageSize <= Span(4) * PageSize /\ Span(3) * PageSize <= Span(4) * PageSize /\ PageSize \in Nat
    BY <2>1, <2>2, Sizes, TimesMonotone
  <2>4. Size(2) = Span(2) * PageSize /\ Size(3) = Span(3) * PageSize /\ Size(4) = Span(4) * PageSize
    BY <2>1, <2>3 DEF Size
  <2>5. QED
    BY <2>3, <2>4
<1>3. QED
  BY <1>1, <1>2 DEF SpotLevel

LEMMA FindEntryType ==
    ASSUME TypeInv, FindBytes, FindEntry
    PROVE  TypeInv'
<1> DEFINE k == SpotLevel(walk, call)
<1>1. IsWalk(walk) /\ call \in CallType /\ booted' \in 0 .. Len(plan.boot)
  BY DEF TypeInv, FindEntry
<1>2. /\ \/ Proceed(call, Wild(walk), "find")
         \/ Proceed(call, AdvanceWrapping(walk, k + 1), "find")
         \/ Proceed(call, NewTables(walk, call, k), "map")
  BY DEF FindEntry
<1>3. IsWalk(Wild(walk)) /\ IsWalk(NewTables(walk, call, k))
  BY <1>1, WildType, NewTablesType
<1>4. k \in 1 .. 3
  <2>1. k # 4
    BY <1>1, SpotBytes DEF FindBytes, FindEntry
  <2>2. k \in 1 .. 4
    BY LevelTypes
  <2>3. QED
    BY <2>1, <2>2
<1>5. IsWalk(AdvanceWrapping(walk, k + 1))
  <2>1. PICK j \in 1 .. 4 : j = k + 1
    BY <1>4
  <2>2. IsWalk(AdvanceWrapping(walk, j))
    BY <1>1, AdvanceType
  <2>3. QED
    BY <2>1, <2>2
<1>6. QED
  BY <1>1, <1>2, <1>3, <1>5, ProceedType

LEMMA StartMapType ==
    ASSUME TypeInv, StartMap
    PROVE  TypeInv'
<1> DEFINE k == PageLevel(walk, call)
<1>1. IsWalk(walk) /\ call \in CallType /\ booted' \in 0 .. Len(plan.boot) /\ IsWalk(Wild(walk))
  BY WildType DEF TypeInv, StartMap
<1>2. k \in 1 .. 3
  BY LevelTypes
<1>3. [call EXCEPT !.level = k] \in CallType
  BY <1>1, <1>2 DEF CallType
<1>4. \/ Proceed(call, Wild(walk), "map")
      \/ Fail(call, walk)
      \/ /\ Continue([call EXCEPT !.level = k], walk, "page")
         /\ address' = IF AtCursor(call) THEN AddressOf(walk.idx) ELSE call.va
         /\ UNCHANGED <<count, frames>>
  BY DEF StartMap
<1>5. AddressOf(walk.idx) \in Nat /\ call.va \in Nat
  BY <1>1, AddressType DEF IsWalk, CallType
<1> HIDE DEF k
<1>6. CASE Continue([call EXCEPT !.level = k], walk, "page")
           /\ (address' = IF AtCursor(call) THEN AddressOf(walk.idx) ELSE call.va)
           /\ UNCHANGED <<count, frames>>
  <2>1. count' \in Nat /\ frames' \in Seq(Nat) /\ address' \in Nat
    BY <1>5, <1>6 DEF TypeInv
  <2>2. QED
    BY <1>1, <1>3, <1>6, <2>1, ContinueType
<1>7. QED
  BY <1>1, <1>4, <1>6, ProceedType, FailType

LEMMA MapPageType ==
    ASSUME TypeInv, MapPage
    PROVE  TypeInv'
<1> DEFINE k   == call.level
           n   == Pages(call.bytes, k)
           own == IF Physical(call) THEN walk ELSE [walk EXCEPT !.brk = @ + 1]
           f   == IF Physical(call) THEN (call.pa + count * Size(k)) \div PageSize ELSE walk.brk
           w   == Write(own, k, Leaf(f, k, call.user))
           fs  == IF Physical(call) THEN frames ELSE Append(frames, f)
<1>1. /\ IsWalk(walk) /\ call \in CallType /\ booted' \in 0 .. Len(plan.boot) /\ k \in 1 .. 3 /\ k \in 1 .. 4
      /\ call.user \in BOOLEAN /\ call.bytes \in Nat /\ frames \in Seq(Nat) /\ count \in Nat /\ address \in Nat
      /\ used_virtual_pages \in 0 .. (Modulus - 1)
  <2>1. k \in 1 .. 3
    BY DEF TypeInv, CallType
  <2>2. QED
    BY <2>1 DEF TypeInv, MapPage, CallType
<1>2. f \in Nat
  BY <1>1, FrameType
<1>3. \/ Proceed(call, w, "page")
      \/ Fail(call, Ended(w, k))
      \/ /\ Continue(call, Advance(w, k), "page")
         /\ count' = count + 1 /\ frames' = fs /\ UNCHANGED address
      \/ /\ Return(call, Advance(w, k), address)
         /\ used_virtual_pages' = (used_virtual_pages + SmallPages(n, k)) % Modulus
         /\ regions' = Told(call, Region(call, address, fs))
  BY DEF MapPage
<1>4. IsWalk(own)
  BY <1>1, ReserveType
<1>5. fs \in Seq(Nat)
  BY <1>1, <1>2
<1> HIDE DEF own, f, fs
<1>6. Leaf(f, k, call.user) \in EntryType
  <2>1. k \in Levels
    BY <1>1 DEF Levels
  <2>2. QED
    BY <1>1, <1>2, <2>1, Entries
<1>7. IsWalk(w)
  BY <1>4, <1>6, WriteType
<1> HIDE DEF w
<1>8. IsWalk(Advance(w, k)) /\ IsWalk(Ended(w, k))
  BY <1>1, <1>7, AdvanceType, EndedType
<1>9. SmallPages(n, k) \in Nat
  BY <1>1, PagesType
<1>10. (used_virtual_pages + SmallPages(n, k)) % Modulus \in 0 .. (Modulus - 1)
  <2>1. used_virtual_pages + SmallPages(n, k) \in Int
    BY <1>1, <1>9, Sizes
  <2>2. QED
    BY <2>1, ModType
<1>11. Told(call, Region(call, address, fs)) \subseteq RegionType
  BY <1>1, <1>5, RegionTyped DEF Told, TypeInv
<1> HIDE DEF k, n
<1>12. CASE Proceed(call, w, "page")
  BY <1>1, <1>7, <1>12, ProceedType
<1>13. CASE Fail(call, Ended(w, k))
  BY <1>1, <1>8, <1>13, FailType
<1>14. CASE Continue(call, Advance(w, k), "page") /\ count' = count + 1 /\ frames' = fs /\ UNCHANGED address
  <2>1. count' \in Nat /\ frames' \in Seq(Nat) /\ address' \in Nat
    BY <1>1, <1>5, <1>14
  <2>2. QED
    BY <1>1, <1>8, <1>14, <2>1, ContinueType
<1>15. CASE /\ Return(call, Advance(w, k), address)
            /\ used_virtual_pages' = (used_virtual_pages + SmallPages(n, k)) % Modulus
            /\ regions' = Told(call, Region(call, address, fs))
  BY <1>1, <1>8, <1>10, <1>11, <1>15, ReturnType
<1>16. QED
  BY <1>3, <1>12, <1>13, <1>14, <1>15

LEMMA UnmapPageType ==
    ASSUME TypeInv, UnmapPage
    PROVE  TypeInv'
<1> DEFINE k   == call.level
           n   == Pages(call.bytes, k)
           w   == Write(walk, k, Null)
           r   == Reach(Increment(w, k), Carry(w, k), k)
<1>1. /\ IsWalk(walk) /\ call \in CallType /\ booted' \in 0 .. Len(plan.boot) /\ k \in 1 .. 3 /\ k \in 1 .. 4
      /\ call.bytes \in Nat /\ frames \in Seq(Nat) /\ count \in Nat /\ address \in Nat
      /\ used_virtual_pages \in 0 .. (Modulus - 1) /\ regions \subseteq RegionType
  <2>1. k \in 1 .. 3
    BY DEF TypeInv, CallType
  <2>2. QED
    BY <2>1 DEF TypeInv, UnmapPage, CallType
<1>2. IsWalk(w)
  BY <1>1, WriteType, Entries
<1>3. \/ Proceed(call, Wild(w), "unmap")
      \/ /\ Return(call, w, 0)
         /\ regions' = Forget(call)
         /\ UNCHANGED used_virtual_pages
      \/ /\ Continue(call, r, "unmap")
         /\ count' = count + 1
         /\ UNCHANGED <<address, frames>>
      \/ /\ Return(call, r, 1)
         /\ regions' = Forget(call)
         /\ used_virtual_pages' = (used_virtual_pages - SmallPages(n, k)) % Modulus
  BY DEF UnmapPage
<1> HIDE DEF w
<1>4. IsWalk(r) /\ IsWalk(Wild(w))
  BY <1>1, <1>2, IncrementType, ReachType, WildType
<1>5. SmallPages(n, k) \in Nat
  BY <1>1, PagesType
<1>6. (used_virtual_pages - SmallPages(n, k)) % Modulus \in 0 .. (Modulus - 1)
  <2>1. used_virtual_pages - SmallPages(n, k) \in Int
    BY <1>1, <1>5, Sizes
  <2>2. QED
    BY <2>1, ModType
<1>7. Forget(call) \subseteq RegionType
  BY <1>1 DEF Forget
<1> HIDE DEF k, n, r
<1>8. CASE Proceed(call, Wild(w), "unmap")
  BY <1>1, <1>4, <1>8, ProceedType
<1>9. CASE Return(call, w, 0) /\ regions' = Forget(call) /\ UNCHANGED used_virtual_pages
  BY <1>1, <1>2, <1>7, <1>9, ReturnType
<1>10. CASE Continue(call, r, "unmap") /\ count' = count + 1 /\ UNCHANGED <<address, frames>>
  <2>1. count' \in Nat /\ frames' \in Seq(Nat) /\ address' \in Nat
    BY <1>1, <1>10
  <2>2. QED
    BY <1>1, <1>4, <1>10, <2>1, ContinueType
<1>11. CASE /\ Return(call, r, 1) /\ regions' = Forget(call)
            /\ used_virtual_pages' = (used_virtual_pages - SmallPages(n, k)) % Modulus
  BY <1>1, <1>4, <1>6, <1>7, <1>11, ReturnType
<1>12. QED
  BY <1>3, <1>8, <1>9, <1>10, <1>11

LEMMA InitType ==
    ASSUME Init
    PROVE  TypeInv /\ FindBytes
<1>1. IsMem([f \in {FirstFrame} |-> EmptyTable], FirstFrame + 1)
  <2>1. EmptyTable \in [Slots -> EntryType]
    BY Entries DEF EmptyTable
  <2>2. QED
    BY <2>1, Sizes DEF IsMem
<1>2. /\ [k \in Levels |-> 0] \in [Levels -> 0 .. TableEntries]
      /\ [k \in Levels |-> IF k = 4 THEN FirstFrame ELSE 0] \in [Levels -> Nat]
  BY Sizes
<1>3. walk = [idx |-> [k \in Levels |-> 0],
              tab |-> [k \in Levels |-> IF k = 4 THEN FirstFrame ELSE 0],
              mem |-> [f \in {FirstFrame} |-> EmptyTable],
              brk |-> FirstFrame + 1,
              wild |-> FALSE]
  BY DEF Init
<1>4. /\ walk.idx = [k \in Levels |-> 0] /\ walk.tab = [k \in Levels |-> IF k = 4 THEN FirstFrame ELSE 0]
      /\ walk.mem = [f \in {FirstFrame} |-> EmptyTable] /\ walk.brk = FirstFrame + 1
      /\ walk = [idx |-> walk.idx, tab |-> walk.tab, mem |-> walk.mem, brk |-> walk.brk, wild |-> walk.wild]
  BY <1>3
<1>5. walk.wild \in BOOLEAN
  BY <1>3
<1>6. IsWalk(walk)
  BY <1>1, <1>2, <1>4, <1>5 DEF IsWalk
<1>7. context \in Cursor
  BY <1>2, <1>4 DEF Init, Cursor
<1>8. Len(plan.boot) \in Nat
  BY PagingAssumption DEF Init, PlanType
<1>9. TypeInv
  BY <1>6, <1>7, <1>8, NoCallType, Sizes DEF Init, TypeInv
<1>10. FindBytes
  BY DEF Init, FindBytes
<1>11. QED
  BY <1>9, <1>10

LEMMA FindBytesStep ==
    ASSUME TypeInv, FindBytes, Next
    PROVE  FindBytes'
<1>1. ASSUME NEW c \in Offered, FindSpot(c) PROVE FindBytes'
  <2> DEFINE w == [walk EXCEPT !.idx = context.idx, !.tab = context.tab]
  <2>1. \/ pc' # "find"
        \/ pc' = "find" /\ call' = c /\ SpotLevel(w, c) # 4
    BY <1>1 DEF FindSpot, Fail, Return, Proceed, Continue
  <2>2. c \in CallType
    BY OfferedType
  <2>3. QED
    BY <2>1, <2>2, SpotBytes DEF FindBytes
<1>2. ASSUME FindEntry PROVE FindBytes'
  BY <1>2 DEF FindEntry, Proceed, Continue, FindBytes
<1>3. ASSUME (\E c \in Offered : FindAddress(c) \/ StartUnmap(c)) \/ StartMap \/ MapPage \/ UnmapPage
      PROVE  pc' # "find"
  BY <1>3 DEF FindAddress, StartUnmap, StartMap, MapPage, UnmapPage, Fail, Return, Proceed, Continue
<1>4. QED
  BY <1>1, <1>2, <1>3 DEF Next, FindBytes

LEMMA TypeStep ==
    ASSUME TypeInv, FindBytes, [Next]_vars
    PROVE  TypeInv' /\ FindBytes'
<1>1. CASE UNCHANGED vars
  BY <1>1 DEF vars, TypeInv, FindBytes
<1>2. CASE Next
  <2>1. FindBytes'
    BY <1>2, FindBytesStep
  <2>2. ASSUME NEW c \in Offered, FindSpot(c) \/ FindAddress(c) \/ StartUnmap(c) PROVE TypeInv'
    BY <2>2, OfferedType, FindSpotType, FindAddressType, StartUnmapType
  <2>3. QED
    BY <1>2, <2>1, <2>2, FindEntryType, StartMapType, MapPageType, UnmapPageType DEF Next
<1>3. QED
  BY <1>1, <1>2

\* paging.c: whatever the callers do, the tables and the cursor are well formed, and
\* a call is always at one of its steps.
THEOREM TypeCorrect == Spec => []TypeOK
<1>1. Init => TypeInv /\ FindBytes
  BY InitType
<1>2. TypeInv /\ FindBytes /\ [Next]_vars => TypeInv' /\ FindBytes'
  BY TypeStep
<1>3. TypeInv => TypeOK
  BY TypeInvType
<1>4. QED
  BY <1>1, <1>2, <1>3, PTL DEF Spec
-----------------------------------------------------------------------------
\* The invariant.
Inv == /\ TypeInv /\ FindBytes
       /\ Good(plan, walk) /\ walk.tab[4] = FirstFrame
       /\ BootOK(plan, walk.mem, booted)
       /\ CallInv /\ ContextInv /\ FindInv /\ MapInv /\ PageInv
       /\ RegionInv /\ UnmapInv /\ UsedInv /\ FramesInv

\* The invariant and the calls that may come.
LEMMA PlanFacts ==
    ASSUME KernelPlans, TypeInv
    PROVE  /\ plan \in PlanType /\ KernelPlan(plan) /\ Len(plan.boot) \in Nat
           /\ DOMAIN plan.boot = 1 .. Len(plan.boot) /\ booted \in 0 .. Len(plan.boot)
           /\ plan.calls \subseteq CallType /\ \A c \in plan.calls : CursorCall(c)
<1>1. plan \in PlanType /\ KernelPlan(plan) /\ booted \in 0 .. Len(plan.boot)
  BY PagingAssumption DEF TypeInv, KernelPlans
<1>2. plan.boot \in Seq(CallType) /\ plan.calls \subseteq CallType
  BY <1>1 DEF PlanType
<1>3. QED
  BY <1>1, <1>2 DEF KernelPlan

LEMMA OfferedFacts ==
    ASSUME KernelPlans, TypeInv, NEW c \in Offered
    PROVE  \/ /\ booted < Len(plan.boot) /\ c = plan.boot[booted + 1] /\ booted + 1 \in DOMAIN plan.boot
              /\ c.op \in {"map_at", "map_physical_at"}
           \/ booted = Len(plan.boot) /\ c \in plan.calls /\ CursorCall(c)
           \/ booted = Len(plan.boot) /\ c.op = "unmap" /\ \E r \in regions : c = UnmapOf(r)
<1>1. /\ plan \in PlanType /\ KernelPlan(plan) /\ Len(plan.boot) \in Nat
      /\ DOMAIN plan.boot = 1 .. Len(plan.boot) /\ booted \in 0 .. Len(plan.boot)
      /\ plan.calls \subseteq CallType /\ \A d \in plan.calls : CursorCall(d)
  BY PlanFacts
<1>2. CASE booted < Len(plan.boot)
  <2>1. c = plan.boot[booted + 1] /\ booted + 1 \in DOMAIN plan.boot
    BY <1>1, <1>2 DEF Offered
  <2>2. QED
    BY <1>1, <1>2, <2>1 DEF KernelPlan, BootCall
<1>3. CASE ~(booted < Len(plan.boot))
  <2>1. booted = Len(plan.boot)
    BY <1>1, <1>3
  <2>2. c \in plan.calls \/ \E r \in regions : c = UnmapOf(r)
    BY <1>3 DEF Offered
  <2>3. \A r : UnmapOf(r).op = "unmap"
    BY DEF UnmapOf, NoCall
  <2>4. QED
    BY <1>1, <2>1, <2>2, <2>3
<1>4. QED
  BY <1>2, <1>3

\* A walk with another cursor.
Over(w, x) == [w EXCEPT !.idx = x.idx, !.tab = x.tab]

LEMMA OverFacts ==
    ASSUME NEW p, NEW w, Good(p, w), NEW x \in Cursor, NEW v, v = Over(w, x)
    PROVE  /\ Good(p, v) /\ v.idx = x.idx /\ v.tab = x.tab /\ v.mem = w.mem /\ v.brk = w.brk
           /\ Ext(w, v)
<1>1. IsWalk(w)
  BY DEF Good
<1>2. /\ w = [idx |-> w.idx, tab |-> w.tab, mem |-> w.mem, brk |-> w.brk, wild |-> w.wild]
      /\ x.idx \in [Levels -> 0 .. TableEntries] /\ x.tab \in [Levels -> Nat]
  BY <1>1 DEF IsWalk, Cursor
<1>3. /\ v.idx = x.idx /\ v.tab = x.tab /\ v.mem = w.mem /\ v.brk = w.brk /\ v.wild = w.wild
      /\ v = [idx |-> v.idx, tab |-> v.tab, mem |-> v.mem, brk |-> v.brk, wild |-> v.wild]
  BY <1>2 DEF Over
<1>4. Good(p, v)
  BY <1>2, <1>3, GoodFields
<1>5. QED
  BY <1>1, <1>3, <1>4, ExtReflexive

\* The cursor of a call that has returned.
Reset(w) == [w EXCEPT !.idx = [k \in Levels |-> 0],
                      !.tab = [k \in Levels |-> IF k = 4 THEN w.tab[4] ELSE 0]]

LEMMA ResetFacts ==
    ASSUME NEW p, NEW w, Good(p, w), NEW v, v = Reset(w)
    PROVE  Good(p, v) /\ v.mem = w.mem /\ v.brk = w.brk /\ v.tab[4] = w.tab[4]
<1> DEFINE I == [k \in Levels |-> 0]
           t == [k \in Levels |-> IF k = 4 THEN w.tab[4] ELSE 0]
           x == [idx |-> I, tab |-> t]
<1>1. I \in [Levels -> 0 .. TableEntries] /\ t \in [Levels -> Nat] /\ t[4] = w.tab[4]
  BY Sizes DEF Good, IsWalk
<1>2. v = [w EXCEPT !.idx = I, !.tab = t]
  BY DEF Reset
<1> HIDE DEF I, t
<1>3. x \in Cursor /\ v = Over(w, x) /\ x.tab = t
  BY <1>1, <1>2 DEF Cursor, Over
<1> HIDE DEF x
<1>4. QED
  BY <1>1, <1>3, OverFacts

\* A call that returns leaves its caller a cursor.
LEMMA ReturnInv ==
    ASSUME KernelPlans, TypeInv, TypeInv', NEW c, NEW w, Good(plan, w), w.tab[4] = FirstFrame, NEW r, Return(c, w, r),
           AtCursor(c) => Cur(plan, w),
           ~AtCursor(c) => Cur(plan, Over(w, context))
    PROVE  /\ walk'.mem = w.mem /\ walk'.brk = w.brk /\ Good(plan', walk') /\ walk'.tab[4] = FirstFrame
           /\ plan' = plan /\ Ext(w, walk') /\ count' = 0 /\ frames' = <<>> /\ pc' = "idle" /\ call' = NoCall
           /\ FindBytes' /\ CallInv' /\ ContextInv' /\ FindInv' /\ MapInv' /\ PageInv' /\ UnmapInv'
<1>1. /\ pc' = "idle" /\ call' = NoCall /\ count' = 0 /\ frames' = <<>> /\ plan' = plan /\ walk' = Reset(w)
      /\ context' = IF AtCursor(c) THEN [idx |-> w.idx, tab |-> w.tab] ELSE context
  BY DEF Return, Reset
<1>2. Good(plan, walk') /\ walk'.mem = w.mem /\ walk'.brk = w.brk /\ walk'.tab[4] = FirstFrame
  BY <1>1, ResetFacts
<1>3. Ext(w, walk')
  BY <1>2, ExtReflexive DEF Good
<1>4. /\ FindBytes' /\ CallInv' /\ FindInv' /\ MapInv' /\ PageInv' /\ UnmapInv'
  <2>1. ~AtCursor(NoCall)
    BY DEF AtCursor, NoCall
  <2>2. QED
    BY <1>1, <2>1 DEF FindBytes, CallInv, FindInv, MapInv, PageInv, UnmapInv
<1>5. context' \in Cursor /\ context \in Cursor
  BY DEF TypeInv
<1>6. PICK v : v = Over(walk', context')
  OBVIOUS
<1>7. v.idx = context'.idx /\ v.tab = context'.tab /\ v.mem = w.mem /\ v.brk = w.brk
  BY <1>2, <1>5, <1>6, OverFacts
<1>8. Cur(plan, v)
  <2>1. plan \in PlanType /\ KernelPlan(plan)
    BY PlanFacts
  <2>2. CASE AtCursor(c)
    <3>1. v.idx = w.idx /\ v.tab = w.tab
      BY <1>1, <1>7, <2>2
    <3>2. Ext(w, v)
      BY <1>7, ExtReflexive DEF Good
    <3>3. QED
      BY <2>1, <2>2, <3>1, <3>2, ExtCur
  <2>3. CASE ~AtCursor(c)
    <3>1. PICK u : u = Over(w, context)
      OBVIOUS
    <3>2. Good(plan, u) /\ u.idx = context.idx /\ u.tab = context.tab /\ u.mem = w.mem /\ u.brk = w.brk
      BY <1>5, <3>1, OverFacts
    <3>3. v.idx = u.idx /\ v.tab = u.tab /\ v.mem = u.mem /\ v.brk = u.brk
      BY <1>1, <1>7, <2>3, <3>2
    <3>4. Ext(u, v)
      BY <3>2, <3>3, ExtReflexive DEF Good
    <3>5. Cur(plan, u)
      BY <2>3, <3>1
    <3>6. QED
      BY <2>1, <3>3, <3>4, <3>5, ExtCur
  <2>4. QED
    BY <2>2, <2>3
<1>9. ContextInv'
  BY <1>1, <1>6, <1>8 DEF ContextInv, AtContext, Over
<1>10. QED
  BY <1>1, <1>2, <1>3, <1>4, <1>9

\* A step that writes no entry of a page.
LEMMA QuietStep ==
    ASSUME KernelPlans, Inv, TypeInv', pc \in {"idle", "find", "map"}, plan' = plan, regions' = regions,
           used_virtual_pages' = used_virtual_pages, Ext(walk, walk'), count' = 0, frames' = <<>>
    PROVE  RegionInv' /\ UsedInv' /\ FramesInv'
<1>1. plan \in PlanType /\ KernelPlan(plan)
  BY PlanFacts DEF Inv
<1>2. Grown(walk.mem, walk'.mem)
  BY DEF Ext
<1>3. /\ \A r : Tabled(plan, walk.mem, r) => Tabled(plan, walk'.mem, r)
      /\ \A r : Backed(plan, walk.mem, r) => Backed(plan, walk'.mem, r)
      /\ Count(walk'.mem) = Count(walk.mem)
  BY <1>1, <1>2, GrownKeeps
<1>4. /\ \A r \in regions : Framed(plan, r) /\ Tabled(plan, walk.mem, r) /\ Backed(plan, walk.mem, r)
      /\ \A q, r \in regions : q # r => Disjoint(plan, q, r)
  BY DEF Inv, RegionInv
<1>5. RegionInv'
  BY <1>3, <1>4 DEF RegionInv
<1>6. UsedInv'
  <2>1. used_virtual_pages = Count(walk.mem)
    BY DEF Inv, UsedInv
  <2>2. Count(walk'.mem) \in Nat
    BY CountType
  <2>3. 0 * Span(call'.level) = 0
    <3>1. call'.level \in 1 .. 3
      BY DEF TypeInv, CallType
    <3>2. Span(call'.level) \in Nat
      BY <3>1, Spans DEF Levels
    <3>3. QED
      BY <3>2
  <2>4. UsedInv' <=> (used_virtual_pages' = CASE pc' = "page"  -> Count(walk'.mem) - count' * Span(call'.level)
                                              [] pc' = "unmap" -> Count(walk'.mem) + count' * Span(call'.level)
                                              [] OTHER         -> Count(walk'.mem))
    BY DEF UsedInv, Count
  <2>5. Count(walk'.mem) - 0 * Span(call'.level) = Count(walk'.mem) /\ Count(walk'.mem) + 0 * Span(call'.level) = Count(walk'.mem)
    BY <2>2, <2>3
  <2>6. pc' \in {"idle", "find", "map", "page", "unmap"}
    BY DEF TypeInv
  <2>7. QED
    BY <1>3, <2>1, <2>4, <2>5, <2>6
<1>7. FramesInv'
  <2>1. \A r \in regions : r.frames \in Seq(Nat) /\ (r.physical \/ Unshared(walk, r.frames))
    BY DEF Inv, FramesInv, TypeInv, RegionType
  <2>2. Unshared(walk', <<>>)
    BY DEF Unshared
  <2>3. \A r \in regions : r.physical \/ Unshared(walk', r.frames)
    BY <2>1, ExtUnshared
  <2>4. QED
    BY <2>2, <2>3 DEF FramesInv, Unshared
<1>8. QED
  BY <1>5, <1>6, <1>7

LEMMA PathUp ==
    ASSUME NEW w, NEW k \in 1 .. 4, NEW j \in k .. 4, OnPath(w, k)
    PROVE  OnPath(w, j)
BY DEF OnPath, On

\* Where a walk on its path is.
LEMMA GoodPath ==
    ASSUME NEW p \in PlanType, KernelPlan(p), NEW w, Good(p, w), NEW k \in 1 .. 4, OnPath(w, k)
    PROVE  /\ \A j \in k .. 4 : Valid(w, j) /\ Entry(w, j) = At(w.mem, w.idx, j) /\ w.tab[j] # 0
           /\ \A j \in k .. 3 : Entry(w, j + 1) = Link(w.tab[j])
           /\ w.tab[4] = FirstFrame /\ w.idx \in Vectors
<1>1. IsWalk(w) /\ IsMem(w.mem, w.brk)
  BY DEF Good, IsWalk
<1>2. PICK lev, up, par : TreeAt(p, w.mem, lev, up, par)
  BY DEF Good, Tree
<1>3. \A j \in k .. 4 : j \in 1 .. 4 /\ OnPath(w, j)
  BY PathUp
<1>4. \A j \in k .. 4 : /\ Valid(w, j) /\ Entry(w, j) = At(w.mem, w.idx, j) /\ w.tab[j] \in DOMAIN w.mem
                        /\ j <= 3 => At(w.mem, w.idx, j + 1) = Link(w.tab[j])
  BY <1>1, <1>2, <1>3, OnTree
<1>5. \A j \in k .. 4 : w.tab[j] # 0
  BY <1>1, <1>4, MemType
<1>6. \A j \in k .. 3 : Entry(w, j + 1) = Link(w.tab[j])
  <2>1. SUFFICES ASSUME NEW j \in k .. 3 PROVE Entry(w, j + 1) = Link(w.tab[j])
    OBVIOUS
  <2>2. j \in k .. 4 /\ j <= 3 /\ j + 1 \in k .. 4
    OBVIOUS
  <2>3. QED
    BY <1>4, <2>2
<1>7. QED
  BY <1>4, <1>5, <1>6 DEF OnPath

\* paging_map and paging_map_physical start at the cursor.
LEMMA FindSpotStep ==
    ASSUME KernelPlans, Inv, TypeInv', NEW c \in Offered, FindSpot(c)
    PROVE  Inv'
<1>1. /\ AtCursor(c) /\ pc = "idle" /\ TypeInv /\ call = NoCall /\ count = 0 /\ frames = <<>>
      /\ Good(plan, walk) /\ walk.tab[4] = FirstFrame /\ BootOK(plan, walk.mem, booted)
  BY DEF FindSpot, Begin, Inv, CallInv
<1>2. booted = Len(plan.boot) /\ c \in plan.calls /\ CursorCall(c)
  BY <1>1, OfferedFacts DEF AtCursor
<1>3. booted' = booted
  <2>1. Len(plan.boot) \in Nat
    BY <1>1, PlanFacts
  <2>2. QED
    BY <1>2, <2>1 DEF FindSpot, Begin
<1>4. c \in CallType /\ c.level = 1 /\ c.bytes <= Size(4) /\ plan \in PlanType /\ KernelPlan(plan)
  BY <1>1, <1>2, PlanFacts DEF CursorCall
<1>5. PICK w : w = Over(walk, context)
  OBVIOUS
<1>6. /\ Good(plan, w) /\ w.idx = context.idx /\ w.tab = context.tab /\ w.mem = walk.mem /\ w.brk = walk.brk
      /\ Ext(walk, w)
  <2>1. Good(plan, walk) /\ context \in Cursor
    BY <1>1 DEF TypeInv
  <2>2. QED
    BY ONLY <1>5, <2>1, OverFacts
<1>7. Cur(plan, w)
  <2>1. ~AtCursor(call)
    BY <1>1 DEF AtCursor, NoCall
  <2>2. QED
    BY <1>5, <2>1 DEF Inv, ContextInv, AtContext, Over
<1>8. w.tab[4] = FirstFrame
  BY <1>7 DEF Cur, Fresh, Placed, OnPath
<1> DEFINE k == SpotLevel(w, c)
<1>9. k \in 1 .. 3
  BY <1>4, SpotBytes, LevelTypes
<1>10. IF c.bytes = 0 THEN Fail(c, w) ELSE Proceed(c, w, IF Fits(w, c, k) THEN "map" ELSE "find")
  BY <1>5, <1>9 DEF FindSpot, Over
<1>11. CASE c.bytes = 0
  <2>1. Return(c, w, 0) /\ UNCHANGED <<used_virtual_pages, regions>>
    BY <1>10, <1>11 DEF Fail
  <2>2. /\ walk'.mem = w.mem /\ walk'.brk = w.brk /\ Good(plan', walk') /\ walk'.tab[4] = FirstFrame
        /\ plan' = plan /\ Ext(w, walk') /\ count' = 0 /\ frames' = <<>>
        /\ FindBytes' /\ CallInv' /\ ContextInv' /\ FindInv' /\ MapInv' /\ PageInv' /\ UnmapInv'
    BY <1>1, <1>6, <1>7, <1>8, <2>1, ReturnInv
  <2>3. Ext(walk, walk')
    BY <1>6, <2>2, ExtTransitive
  <2>4. RegionInv' /\ UsedInv' /\ FramesInv'
    BY <1>1, <2>1, <2>2, <2>3, QuietStep
  <2>5. BootOK(plan, walk'.mem, booted)
    BY <1>1, <1>6, <2>2
  <2>6. QED
    BY <1>3, <2>2, <2>4, <2>5 DEF Inv
<1>12. CASE c.bytes # 0
  <2>1. /\ pc' = IF Fits(w, c, k) THEN "map" ELSE "find"
        /\ call' = c /\ walk' = w /\ count' = 0 /\ address' = address /\ frames' = <<>>
        /\ UNCHANGED <<context, used_virtual_pages, ret, regions, plan>>
    BY <1>1, <1>10, <1>12 DEF Proceed, Continue
  <2>2. RegionInv' /\ UsedInv' /\ FramesInv'
    BY <1>1, <1>6, <2>1, QuietStep
  <2>3. pc' \in {"map", "find"}
    BY <2>1
  <2>4. CallInv' /\ ContextInv' /\ PageInv' /\ UnmapInv' /\ FindBytes'
    <3>1. c.bytes > 0
      BY <1>4, <1>12 DEF CallType
    <3>2. QED
      BY <1>1, <1>2, <1>3, <1>4, <2>1, <2>3, <3>1 DEF CallInv, ContextInv, PageInv, UnmapInv, FindBytes
  <2>5. MapInv'
    <3>1. Fits(w, c, k) => w.tab[k] # 0
      BY <1>9 DEF Fits
    <3>2. Fits(w, c, k) => Placed(plan, w)
      BY <1>7, <1>9, <3>1 DEF Cur, Fresh
    <3>3. QED
      BY <1>1, <2>1, <3>2 DEF MapInv
  <2>6. FindInv'
    <3>1. CASE Fresh(w) /\ Ahead(plan, w.mem, 0)
      <4>1. k = 3
        BY <1>4, <3>1 DEF SpotLevel, Fresh
      <4>2. QED
        BY <2>1, <3>1, <4>1 DEF FindInv
    <3>2. CASE Placed(plan, w)
      <4>1. OnPath(w, 1) /\ Clear(plan, w.idx[4]) /\ Ahead(plan, w.mem, Num(w.idx))
        BY <3>2 DEF Placed
      <4>2. \A j \in 1 .. 3 : w.tab[j] # 0
        BY <1>4, <1>6, <4>1, GoodPath
      <4>3. OnPath(w, k + 1)
        BY <1>9, <4>1, PathUp
      <4>4. QED
        BY <2>1, <4>1, <4>2, <4>3 DEF FindInv
    <3>3. QED
      BY <1>7, <3>1, <3>2 DEF Cur
  <2>7. BootOK(plan, walk'.mem, booted)
    BY <1>1, <1>6, <2>1
  <2>8. QED
    BY <1>3, <1>6, <1>8, <2>1, <2>2, <2>4, <2>5, <2>6, <2>7 DEF Inv
<1>13. QED
  BY <1>11, <1>12

\* paging_map_at and paging_map_physical_at go to their address, where all is free.
LEMMA FindAddressStep ==
    ASSUME KernelPlans, Inv, TypeInv', NEW c \in Offered, FindAddress(c)
    PROVE  Inv'
<1>1. /\ c.op \in {"map_at", "map_physical_at"} /\ pc = "idle" /\ TypeInv /\ call = NoCall /\ count = 0 /\ frames = <<>>
      /\ Good(plan, walk) /\ walk.tab[4] = FirstFrame /\ BootOK(plan, walk.mem, booted) /\ ~AtCursor(c) /\ ~AtCursor(call)
  BY DEF FindAddress, Begin, Inv, CallInv, AtCursor, NoCall
<1>2. booted < Len(plan.boot) /\ c = plan.boot[booted + 1] /\ booted + 1 \in DOMAIN plan.boot
  BY <1>1, OfferedFacts DEF CursorCall
<1>3. booted' = booted + 1
  BY <1>2 DEF FindAddress, Begin
<1>4. /\ plan \in PlanType /\ KernelPlan(plan) /\ Len(plan.boot) \in Nat /\ booted \in 0 .. Len(plan.boot)
  BY <1>1, PlanFacts
<1>5. PICK w : w = ToIndex(walk, c)
  OBVIOUS
<1>6. /\ Good(plan, w) /\ OnPath(w, c.level) /\ Ext(walk, w) /\ F4(w.mem, Digits(First(c))) # Null
      /\ c.va % Size(c.level) = 0 => w.idx = Digits(First(c))
  BY <1>1, <1>2, <1>4, <1>5, ToIndexFacts
<1>7. w.tab[4] = FirstFrame /\ Grown(walk.mem, w.mem)
  BY <1>6 DEF OnPath, Ext
<1>8. BootOK(plan, w.mem, booted + 1)
  <2>1. BootOK(plan, w.mem, booted)
    BY <1>1, <1>4, <1>7, GrownBoot
  <2>2. \A i \in 1 .. (booted + 1) : i \in 1 .. booted \/ i = booted + 1
    BY <1>4
  <2>3. \A i \in (booted + 1 + 1) .. Len(plan.boot) : i \in (booted + 1) .. Len(plan.boot)
    BY <1>4
  <2>4. QED
    BY <1>2, <1>6, <2>1, <2>2, <2>3 DEF BootOK
<1>9. Free(w.mem, First(c), Past(c))
  <2>1. booted + 1 \in (booted + 1) .. Len(plan.boot)
    BY <1>2, <1>4
  <2>2. Free(walk.mem, First(c), Past(c))
    BY <1>1, <1>2, <2>1 DEF BootOK
  <2>3. QED
    BY <1>4, <1>7, <2>2, GrownKeeps
<1>10. Cur(plan, Over(w, context))
  <2>1. PICK u : u = Over(walk, context)
    OBVIOUS
  <2>2. PICK v : v = Over(w, context)
    OBVIOUS
  <2>3. Cur(plan, u)
    BY <1>1, <2>1 DEF Inv, ContextInv, AtContext, Over
  <2>4. context \in Cursor
    BY <1>1 DEF TypeInv
  <2>5. u.idx = context.idx /\ u.tab = context.tab /\ u.mem = walk.mem /\ u.brk = walk.brk
    BY <1>1, <2>1, <2>4, OverFacts
  <2>6. v.idx = context.idx /\ v.tab = context.tab /\ v.mem = w.mem /\ v.brk = w.brk
    BY <1>6, <2>2, <2>4, OverFacts
  <2>7. Ext(u, v)
    BY <1>6, <2>5, <2>6 DEF Ext
  <2>8. QED
    BY <1>4, <2>2, <2>3, <2>5, <2>6, <2>7, ExtCur
<1>11. IF c.va % Size(c.level) # 0 THEN Fail(c, w) ELSE Proceed(c, w, "map")
  BY <1>5 DEF FindAddress
<1>12. CASE c.va % Size(c.level) # 0
  <2>1. Return(c, w, 0) /\ UNCHANGED <<used_virtual_pages, regions>>
    BY <1>11, <1>12 DEF Fail
  <2>2. /\ walk'.mem = w.mem /\ walk'.brk = w.brk /\ Good(plan', walk') /\ walk'.tab[4] = FirstFrame
        /\ plan' = plan /\ Ext(w, walk') /\ count' = 0 /\ frames' = <<>>
        /\ FindBytes' /\ CallInv' /\ ContextInv' /\ FindInv' /\ MapInv' /\ PageInv' /\ UnmapInv'
    BY <1>1, <1>6, <1>7, <1>10, <2>1, ReturnInv
  <2>3. Ext(walk, walk')
    BY <1>6, <2>2, ExtTransitive
  <2>4. RegionInv' /\ UsedInv' /\ FramesInv'
    BY <1>1, <2>1, <2>2, <2>3, QuietStep
  <2>5. QED
    BY <1>3, <1>8, <2>2, <2>4 DEF Inv
<1>13. CASE c.va % Size(c.level) = 0
  <2>1. /\ pc' = "map" /\ call' = c /\ walk' = w /\ count' = 0 /\ address' = address /\ frames' = <<>>
        /\ UNCHANGED <<context, used_virtual_pages, ret, regions, plan>>
    BY <1>1, <1>11, <1>13 DEF Proceed, Continue
  <2>2. RegionInv' /\ UsedInv' /\ FramesInv'
    BY <1>1, <1>6, <2>1, QuietStep
  <2>3. CallInv' /\ PageInv' /\ UnmapInv' /\ FindBytes' /\ FindInv'
    <3>1. booted + 1 > 0
      BY <1>4
    <3>2. QED
      BY <1>1, <1>2, <1>3, <1>13, <2>1, <3>1 DEF CallInv, PageInv, UnmapInv, FindBytes, FindInv
  <2>4. ContextInv'
    BY <1>10, <2>1 DEF ContextInv, AtContext, Over
  <2>5. MapInv'
    BY <1>1, <1>6, <1>9, <1>13, <2>1 DEF MapInv
  <2>6. QED
    BY <1>3, <1>6, <1>7, <1>8, <2>1, <2>2, <2>3, <2>4, <2>5 DEF Inv
<1>14. QED
  BY <1>11, <1>12, <1>13

LEMMA AheadMore ==
    ASSUME NEW p, NEW m, NEW v \in Nat, NEW u \in Nat, Ahead(p, m, v), v <= u
    PROVE  Ahead(p, m, u)
<1>1. \A I \in Vectors : Num(I) \in Nat
  BY NumFacts
<1>2. QED
  BY <1>1 DEF Ahead

\* The search for an empty entry moves on, or makes new tables in it.
LEMMA FindEntryStep ==
    ASSUME KernelPlans, Inv, TypeInv', FindBytes', Room, FindEntry
    PROVE  Inv'
<1>1. /\ pc = "find" /\ TypeInv /\ count = 0 /\ frames = <<>> /\ AtCursor(call) /\ call \in plan.calls
      /\ booted = Len(plan.boot) /\ call.bytes > 0
      /\ Good(plan, walk) /\ walk.tab[4] = FirstFrame /\ BootOK(plan, walk.mem, booted) /\ booted' = booted
  BY DEF FindEntry, Inv, CallInv
<1>2. /\ plan \in PlanType /\ KernelPlan(plan) /\ call \in CallType /\ CursorCall(call) /\ booted \in 0 .. Len(plan.boot)
  BY <1>1, PlanFacts
<1>3. call.level = 1 /\ call.bytes <= Size(4)
  BY <1>2 DEF CursorCall
<1> DEFINE k == SpotLevel(walk, call)
<1>4. k \in 1 .. 3
  BY <1>2, <1>3, SpotBytes, LevelTypes
<1> DEFINE FreshCase == k = 3 /\ Fresh(walk) /\ Ahead(plan, walk.mem, 0)
           PlacedCase == /\ \A j \in 1 .. 3 : walk.tab[j] # 0
                         /\ Clear(plan, walk.idx[4])
                         /\ OnPath(walk, k + 1)
                         /\ \/ OnPath(walk, 1) /\ Ahead(plan, walk.mem, Num(walk.idx))
                            \/ Ahead(plan, walk.mem, Num(Zero(walk.idx, k)))
<1>5. FreshCase \/ PlacedCase
  BY <1>1 DEF Inv, FindInv
<1>6. OnPath(walk, k + 1) /\ walk.idx \in Vectors
  <2>1. CASE FreshCase
    BY <2>1 DEF Fresh, OnPath, On
  <2>2. CASE PlacedCase
    BY <2>2 DEF OnPath
  <2>3. QED
    BY <1>5, <2>1, <2>2
<1>7. PICK h \in 2 .. 4 : h = k + 1
  BY <1>4
<1>8. Valid(walk, h) /\ Entry(walk, h) = At(walk.mem, walk.idx, h)
  <2>1. h \in 1 .. 4 /\ h \in h .. 4 /\ OnPath(walk, h)
    BY <1>6, <1>7
  <2>2. QED
    BY <1>1, <1>2, <2>1, GoodPath
<1>9. IF Entry(walk, h) # Null THEN Proceed(call, AdvanceWrapping(walk, h), "find")
      ELSE Proceed(call, NewTables(walk, call, k), "map")
  BY <1>7, <1>8 DEF FindEntry
<1>10. walk.idx[4] \in Nat
  BY <1>6, VectorElements, Sizes
<1>11. CASE Entry(walk, h) # Null
  <2>1. PICK v : v = AdvanceWrapping(walk, h)
    OBVIOUS
  <2>2. Carry(walk, h) <= 4 /\ Carry(walk, h) \in h .. 5
    <3>1. walk.idx \in [Levels -> Nat] /\ h \in Levels
      BY <1>6, Sizes DEF Vectors
    <3>2. Carry(walk, h) \in h .. 5
      BY <3>1, CarryFacts
    <3>3. Carry(walk, h) # 5
      BY <1>1, <1>7, <1>11 DEF Room
    <3>4. QED
      BY <3>2, <3>3
  <2>3. After(walk, h) \in Vectors /\ Num(After(walk, h)) = Num(walk.idx) + Span(h)
    BY <1>6, <2>2, AfterFacts, Sizes
  <2>4. Num(walk.idx) \in Nat /\ Span(h) \in Nat \ {0} /\ Num(After(walk, h)) \in Nat
    <3>1. h \in Levels
      BY DEF Levels
    <3>2. Span(h) \in Nat \ {0}
      BY <3>1, Spans
    <3>3. QED
      BY <1>6, <2>3, <3>2, NumFacts
  <2>5. walk.idx[4] <= After(walk, h)[4] /\ After(walk, h)[4] \in Nat
    BY <1>6, <2>3, <2>4, NumOrder, VectorElements, Sizes
  <2>6. Clear(plan, walk.idx[4]) => Clear(plan, After(walk, h)[4]) /\ Kind(plan, After(walk, h)[4]) = 1
    BY <1>2, <1>10, <2>5, ClearFacts
  <2>7. Kind(plan, After(walk, h)[4]) <= h
    <3>1. CASE FreshCase
      <4>1. Kind(plan, After(walk, h)[4]) \in 1 .. 3
        BY <1>2, KindType
      <4>2. QED
        BY <1>7, <3>1, <4>1
    <3>2. CASE PlacedCase
      BY <2>6, <3>2
    <3>3. QED
      BY <1>5, <3>1, <3>2
  <2>8. /\ Good(plan, v) /\ OnPath(v, h) /\ Ext(walk, v) /\ v.idx = After(walk, h) /\ v.idx \in Vectors
        /\ \A j \in 1 .. (h - 1) : v.idx[j] = walk.idx[j]
        /\ \A i \in 1 .. 3 : walk.tab[i] # 0 => v.tab[i] # 0
    <3>1. h \in 1 .. 4 /\ OnPath(walk, h)
      BY <1>6, <1>7
    <3>2. QED
      BY <1>1, <1>2, <2>1, <2>2, <2>7, <3>1, AdvanceFacts
  <2>9. /\ pc' = "find" /\ call' = call /\ walk' = v /\ count' = 0 /\ frames' = <<>>
        /\ UNCHANGED <<context, used_virtual_pages, ret, regions, plan>>
    BY <1>1, <1>9, <1>11, <2>1 DEF Proceed, Continue
  <2>10. RegionInv' /\ UsedInv' /\ FramesInv'
    BY <1>1, <2>8, <2>9, QuietStep
  <2>11. \A u : Ahead(plan, walk.mem, u) => Ahead(plan, v.mem, u)
    BY <1>2, <2>8, GrownKeeps DEF Ext
  <2>12. BootOK(plan, v.mem, booted)
    BY <1>1, <1>2, <2>8, GrownBoot DEF Ext
  <2>13. v.tab[4] = FirstFrame
    BY <2>8 DEF OnPath
  <2>14. CallInv' /\ ContextInv' /\ PageInv' /\ UnmapInv' /\ MapInv'
    BY <1>1, <2>9 DEF CallInv, ContextInv, PageInv, UnmapInv, MapInv
  <2>15. FindInv'
    <3>1. CASE FreshCase
      <4>1. h = 4
        BY <1>7, <3>1
      <4>2. v = Increment(walk, h)
        BY <2>1, <4>1 DEF AdvanceWrapping, Descend
      <4>3. OnPath(walk, h) /\ h \in 1 .. 4
        BY <1>6, <1>7
      <4>4. v.tab = walk.tab
        <5>1. Good(plan, walk) /\ Carry(walk, h) <= 4
          BY <1>1, <2>2
        <5>2. QED
          BY ONLY <4>2, <4>3, <5>1, IncrementFacts
      <4>5. Fresh(v)
        BY <2>8, <3>1, <4>1, <4>4 DEF Fresh
      <4>6. SpotLevel(v, call) = 3
        BY <1>3, <4>5 DEF SpotLevel, Fresh
      <4>7. QED
        BY <2>9, <2>11, <3>1, <4>5, <4>6 DEF FindInv
    <3>2. CASE PlacedCase
      <4>1. \A j \in 1 .. 3 : v.tab[j] # 0
        BY <2>8, <3>2
      <4>2. SpotLevel(v, call) = k
        BY <3>2, <4>1 DEF SpotLevel
      <4>3. Clear(plan, v.idx[4])
        BY <2>6, <2>8, <3>2
      <4>4. /\ Num(v.idx) < Num(Zero(v.idx, k)) + Span(h) /\ Zero(v.idx, k) \in Vectors
            /\ Num(Zero(walk.idx, k)) <= Num(walk.idx) /\ Zero(walk.idx, k) \in Vectors
        BY <1>4, <1>6, <1>7, <2>8, ZeroFacts
      <4>5. Num(Zero(v.idx, k)) \in Nat /\ Num(Zero(walk.idx, k)) \in Nat
        BY <4>4, NumFacts
      <4>6. Num(walk.idx) <= Num(Zero(v.idx, k)) /\ Num(Zero(walk.idx, k)) <= Num(Zero(v.idx, k))
        BY <2>3, <2>4, <2>8, <4>4, <4>5
      <4>7. Ahead(plan, walk.mem, Num(Zero(v.idx, k)))
        BY <2>4, <3>2, <4>5, <4>6, AheadMore
      <4>8. Ahead(plan, v.mem, Num(Zero(v.idx, k)))
        BY <2>11, <4>7
      <4>9. OnPath(v, k + 1)
        BY <1>7, <2>8
      <4>10. QED
        BY <2>9, <4>1, <4>2, <4>3, <4>8, <4>9 DEF FindInv
    <3>3. QED
      BY <1>5, <3>1, <3>2
  <2>16. QED
    BY <1>1, <2>8, <2>9, <2>10, <2>12, <2>13, <2>14, <2>15 DEF Inv
<1>12. CASE Entry(walk, h) = Null
  <2>1. PICK v : v = NewTables(walk, call, k)
    OBVIOUS
  <2>2. At(walk.mem, walk.idx, k + 1) = Null
    BY <1>7, <1>8, <1>12
  <2>3. Clear(plan, walk.idx[4])
    <3>1. CASE FreshCase
      <4>1. F4(walk.mem, walk.idx) = Null
        BY <2>2, <3>1, AtLevels
      <4>2. QED
        BY <1>1, <1>2, <1>6, <4>1, FreshSlot
    <3>2. CASE PlacedCase
      BY <3>2
    <3>3. QED
      BY <1>5, <3>1, <3>2
  <2>4. Kind(plan, walk.idx[4]) = 1
    BY <1>2, <1>10, <2>3, ClearFacts
  <2>5. Good(plan, v) /\ OnPath(v, 1) /\ Ext(walk, v) /\ v.idx = Zero(walk.idx, k)
    BY <1>1, <1>2, <1>3, <1>4, <1>6, <2>1, <2>2, <2>4, NewTablesFacts
  <2>6. ~OnPath(walk, 1)
    <3>1. CASE k = 1
      BY <2>2, <3>1, AtLevels DEF OnPath, On
    <3>2. CASE k = 2
      BY <2>2, <3>2, AtLevels DEF OnPath, On
    <3>3. CASE k = 3
      BY <2>2, <3>3, AtLevels DEF OnPath, On
    <3>4. QED
      BY <1>4, <3>1, <3>2, <3>3
  <2>7. Ahead(plan, walk.mem, Num(v.idx))
    <3>1. CASE FreshCase
      <4>1. Num(v.idx) \in Nat /\ 0 <= Num(v.idx)
        BY <1>4, <1>6, <2>5, ZeroFacts, NumFacts
      <4>2. QED
        BY <3>1, <4>1, AheadMore
    <3>2. CASE PlacedCase
      BY <2>5, <2>6, <3>2
    <3>3. QED
      BY <1>5, <3>1, <3>2
  <2>8. Clear(plan, v.idx[4])
    BY <1>4, <1>6, <2>3, <2>5, ZeroFacts
  <2>9. Ahead(plan, v.mem, Num(v.idx))
    BY <1>2, <2>5, <2>7, GrownKeeps DEF Ext
  <2>10. /\ pc' = "map" /\ call' = call /\ walk' = v /\ count' = 0 /\ frames' = <<>>
         /\ UNCHANGED <<context, used_virtual_pages, ret, regions, plan>>
    BY <1>1, <1>9, <1>12, <2>1 DEF Proceed, Continue
  <2>11. RegionInv' /\ UsedInv' /\ FramesInv'
    BY <1>1, <2>5, <2>10, QuietStep
  <2>12. BootOK(plan, v.mem, booted)
    BY <1>1, <1>2, <2>5, GrownBoot DEF Ext
  <2>13. v.tab[4] = FirstFrame
    BY <2>5 DEF OnPath
  <2>14. CallInv' /\ ContextInv' /\ PageInv' /\ UnmapInv' /\ FindInv'
    BY <1>1, <2>10 DEF CallInv, ContextInv, PageInv, UnmapInv, FindInv
  <2>15. MapInv'
    BY <1>1, <2>5, <2>8, <2>9, <2>10 DEF MapInv, Placed
  <2>16. QED
    BY <1>1, <2>5, <2>10, <2>11, <2>12, <2>13, <2>14, <2>15 DEF Inv
<1>13. QED
  BY <1>11, <1>12

LEMMA RegionFacts ==
    ASSUME NEW p \in PlanType, KernelPlan(p), NEW r \in RegionType, Framed(p, r)
    PROVE  /\ FirstOf(r) \in Nat /\ PastOf(p, r) \in Nat /\ FirstOf(r) < PastOf(p, r)
           /\ FirstOf(r) \in AllPages /\ PastOf(p, r) \in AllPages
           /\ KindOf(p, r) \in 1 .. 3 /\ Pages(r.bytes, KindOf(p, r)) \in Nat \ {0}
           /\ Len(r.frames) = Pages(r.bytes, 1) /\ FirstOf(r) + Len(r.frames) <= PastOf(p, r)
<1> DEFINE k == KindOf(p, r)
           x == Pages(r.bytes, k) * Span(k)
<1>1. r.va \in Nat /\ r.bytes \in Nat /\ r.bytes > 0 /\ r.bytes <= Modulus /\ PastOf(p, r) \in AllPages
      /\ Len(r.frames) = Pages(r.bytes, 1)
  BY DEF RegionType, Framed
<1>2. k \in 1 .. 3
  BY KindType DEF KindOf
<1>3. FirstOf(r) \in Nat
  BY <1>1, Addresses DEF FirstOf
<1>4. /\ Pages(r.bytes, k) \in Nat \ {0} /\ x \in Nat \ {0} /\ Pages(r.bytes, 1) <= x
      /\ Pages(r.bytes, 1) \in Nat \ {0}
  <2>1. k \in 1 .. 4 /\ r.bytes \in Nat \ {0}
    BY <1>1, <1>2
  <2>2. QED
    BY <1>1, <2>1, PagesFacts
<1>5. PastOf(p, r) = FirstOf(r) + x
  BY DEF PastOf
<1> HIDE DEF k, x
<1>6. PastOf(p, r) \in Nat /\ FirstOf(r) < PastOf(p, r) /\ FirstOf(r) + Len(r.frames) <= PastOf(p, r)
  BY <1>1, <1>3, <1>4, <1>5
<1>7. FirstOf(r) \in AllPages
  <2>1. TableEntries * Span(4) \in Nat
    <3>1. TableEntries \in Nat /\ Span(4) \in Nat
      BY Sizes, Spans DEF Levels
    <3>2. QED
      BY <3>1
  <2>2. QED
    BY <1>1, <1>3, <1>6, <2>1 DEF AllPages
<1>8. QED
  BY <1>1, <1>2, <1>3, <1>4, <1>6, <1>7 DEF k

\* A page that is not mapped is in no region.
LEMMA OutsideRegion ==
    ASSUME NEW p \in PlanType, KernelPlan(p), NEW r \in RegionType, Framed(p, r), NEW m, Backed(p, m, r),
           NEW I \in Vectors, F1(m, I) = Null
    PROVE  PastOf(p, r) <= Num(I) \/ Num(I) < FirstOf(r)
<1>1. FirstOf(r) \in Nat /\ PastOf(p, r) \in Nat /\ Num(I) \in Nat
  BY RegionFacts, NumFacts
<1>2. ~Within(I, FirstOf(r), PastOf(p, r))
  BY DEF Backed
<1>3. QED
  BY <1>1, <1>2 DEF Within

\* The size of the pages is that of the call.
LEMMA LevelKept ==
    ASSUME NEW p \in PlanType, KernelPlan(p), NEW w, Good(p, w), NEW c \in CallType, OnPath(w, c.level)
    PROVE  PageLevel(w, c) = c.level /\ \A j \in c.level .. 3 : Valid(w, j)
<1>1. c.level \in 1 .. 3
  BY DEF CallType
<1>2. PICK l \in 1 .. 4 : l = c.level
  BY <1>1
<1>3. OnPath(w, l)
  BY <1>2
<1>4. /\ \A j \in l .. 4 : Valid(w, j) /\ Entry(w, j) = At(w.mem, w.idx, j)
  BY <1>3, GoodPath
<1>5. (l <= 2 => ~Entry(w, 3).size) /\ (l <= 1 => ~Entry(w, 2).size)
  BY <1>3, <1>4, AtLevels DEF OnPath, On
<1>6. PageLevel(w, c) = l
  <2>1. CASE l = 1
    BY <1>2, <1>5, <2>1 DEF PageLevel
  <2>2. CASE l = 2
    BY <1>2, <1>5, <2>2 DEF PageLevel
  <2>3. CASE l = 3
    BY <1>2, <2>3 DEF PageLevel
  <2>4. QED
    BY <1>1, <1>2, <2>1, <2>2, <2>3
<1>7. QED
  BY <1>1, <1>2, <1>4, <1>6

\* The first entry is looked at. In a plan of the kernel it is empty.
LEMMA StartMapStep ==
    ASSUME KernelPlans, Inv, TypeInv', StartMap
    PROVE  Inv'
<1>1. /\ pc = "map" /\ TypeInv /\ count = 0 /\ frames = <<>> /\ booted' = booted
      /\ Good(plan, walk) /\ walk.tab[4] = FirstFrame /\ BootOK(plan, walk.mem, booted) /\ call \in CallType
  BY DEF StartMap, Inv, CallInv, TypeInv
<1>2. /\ plan \in PlanType /\ KernelPlan(plan) /\ DOMAIN plan.boot = 1 .. Len(plan.boot)
      /\ booted \in 0 .. Len(plan.boot) /\ Len(plan.boot) \in Nat
  BY <1>1, PlanFacts
<1> DEFINE k == call.level
           I == walk.idx
<1>3. /\ AtCursor(call) => /\ call \in plan.calls /\ booted = Len(plan.boot) /\ call.bytes > 0
                           /\ k = 1 /\ Placed(plan, walk)
      /\ ~AtCursor(call) => /\ booted > 0 /\ call = plan.boot[booted] /\ booted \in DOMAIN plan.boot
                            /\ call.va % Size(k) = 0 /\ OnPath(walk, k) /\ I = Digits(First(call))
                            /\ Free(walk.mem, First(call), Past(call))
  <2>1. AtCursor(call) => call \in plan.calls /\ booted = Len(plan.boot) /\ call.bytes > 0 /\ Placed(plan, walk)
    BY <1>1 DEF Inv, CallInv, MapInv
  <2>2. ~AtCursor(call) => /\ booted > 0 /\ call = plan.boot[booted] /\ call.va % Size(k) = 0
                           /\ OnPath(walk, k) /\ I = Digits(First(call)) /\ Free(walk.mem, First(call), Past(call))
    BY <1>1 DEF Inv, CallInv, MapInv
  <2>3. AtCursor(call) => k = 1
    BY <1>1, <2>1, PlanFacts DEF CursorCall
  <2>4. booted > 0 => booted \in DOMAIN plan.boot
    BY <1>2
  <2>5. QED
    BY <2>1, <2>2, <2>3, <2>4
<1>4. k \in 1 .. 3 /\ OnPath(walk, k) /\ I \in Vectors
  <2>1. k \in 1 .. 3
    BY <1>1 DEF CallType
  <2>2. OnPath(walk, k)
    BY <1>3 DEF Placed
  <2>3. QED
    BY <2>1, <2>2 DEF OnPath
<1>5. PageLevel(walk, call) = k /\ \A j \in k .. 3 : Valid(walk, j)
  BY <1>1, <1>2, <1>4, LevelKept
<1>6. [call EXCEPT !.level = k] = call
  BY <1>1 DEF CallType
<1>7. IF Refused(walk, call, k) THEN Fail(call, walk)
      ELSE /\ Continue(call, walk, "page")
           /\ address' = IF AtCursor(call) THEN AddressOf(walk.idx) ELSE call.va
           /\ UNCHANGED <<count, frames>>
  BY <1>5, <1>6 DEF StartMap
<1>8. Ext(walk, walk)
  BY <1>1, ExtReflexive DEF Good
<1>9. CASE Refused(walk, call, k)
  <2>1. Return(call, walk, 0) /\ UNCHANGED <<used_virtual_pages, regions>>
    BY <1>7, <1>9 DEF Fail
  <2>2. AtCursor(call) => Cur(plan, walk)
    BY <1>3 DEF Cur
  <2>3. ~AtCursor(call) => Cur(plan, Over(walk, context))
    BY DEF Inv, ContextInv, AtContext, Over
  <2>4. /\ walk'.mem = walk.mem /\ Good(plan', walk') /\ walk'.tab[4] = FirstFrame
        /\ plan' = plan /\ Ext(walk, walk') /\ count' = 0 /\ frames' = <<>>
        /\ FindBytes' /\ CallInv' /\ ContextInv' /\ FindInv' /\ MapInv' /\ PageInv' /\ UnmapInv'
    BY <1>1, <2>1, <2>2, <2>3, ReturnInv
  <2>5. RegionInv' /\ UsedInv' /\ FramesInv'
    BY <1>1, <2>1, <2>4, QuietStep
  <2>6. QED
    BY <1>1, <2>4, <2>5 DEF Inv
<1>10. CASE ~Refused(walk, call, k)
  <2>1. /\ pc' = "page" /\ call' = call /\ walk' = walk /\ count' = 0 /\ frames' = <<>>
        /\ address' = IF AtCursor(call) THEN AddressOf(I) ELSE call.va
        /\ UNCHANGED <<context, used_virtual_pages, ret, regions, plan>>
    BY <1>1, <1>7, <1>10 DEF Continue
  <2>2. RegionInv' /\ UsedInv' /\ FramesInv'
    BY <1>1, <1>8, <2>1, QuietStep
  <2>3. CallInv' /\ ContextInv' /\ MapInv' /\ UnmapInv' /\ FindInv' /\ FindBytes'
    BY <1>1, <2>1 DEF Inv, CallInv, ContextInv, AtContext, MapInv, UnmapInv, FindInv, FindBytes
  <2>4. /\ Num(I) \in Nat /\ address' = Num(I) * PageSize
        /\ ~AtCursor(call) => Num(I) = First(call)
    <3>1. CASE AtCursor(call)
      BY <1>4, <2>1, <3>1, AddressOfNum, NumFacts
    <3>2. CASE ~AtCursor(call)
      <4>1. Num(I) = First(call) /\ First(call) \in Nat
        BY <1>2, <1>3, <3>2, BootFacts
      <4>2. call.va = First(call) * PageSize
        <5>1. call.va \in Nat /\ k \in 1 .. 4
          BY <1>1, <1>4 DEF CallType
        <5>2. QED
          BY <1>3, <3>2, <5>1, Aligned DEF First
      <4>3. QED
        BY <2>1, <3>2, <4>1, <4>2
    <3>3. QED
      BY <3>1, <3>2
  <2>5. address' \div PageSize = Num(I)
    <3>1. 1 \in 1 .. 4
      OBVIOUS
    <3>2. QED
      BY <2>4, <3>1, PageAddress
  <2>6. AtEntry(walk, k, Num(I), 0)
    <3>1. \A j \in 1 .. (k - 1) : I[j] = 0
      <4>1. CASE AtCursor(call)
        BY <1>3, <4>1
      <4>2. CASE ~AtCursor(call)
        <5>1. call.va \in Nat /\ k \in 1 .. 4
          BY <1>1, <1>4 DEF CallType
        <5>2. PICK q \in Nat : First(call) = q * Span(k)
          BY <1>3, <4>2, <5>1, Aligned DEF First
        <5>3. First(call) \in AllPages
          BY <1>2, <1>3, <4>2, BootFacts
        <5>4. QED
          BY <1>3, <4>2, <5>1, <5>2, <5>3, LowDigits
      <4>3. QED
        BY <4>1, <4>2
    <3>2. Num(I) = Num(I) + 0 * Span(k)
      <4>1. Span(k) \in Nat
        BY <1>4, Spans DEF Levels
      <4>2. QED
        BY <2>4, <4>1
    <3>3. QED
      BY <1>4, <3>1, <3>2 DEF AtEntry
  <2>7. Kind(plan, I[4]) = k
    <3>1. CASE AtCursor(call)
      <4>1. I[4] \in Nat
        BY <1>4, VectorElements, Sizes
      <4>2. QED
        BY <1>2, <1>3, <3>1, <4>1, ClearFacts DEF Placed
    <3>2. CASE ~AtCursor(call)
      BY <1>2, <1>3, <3>2, BootFacts, BootKind
    <3>3. QED
      BY <3>1, <3>2
  <2>8. 0 < Pages(call.bytes, k)
    <3>1. call.bytes \in Nat /\ k \in 1 .. 4
      BY <1>1, <1>4 DEF CallType
    <3>2. Pages(call.bytes, k) \in Nat \ {0}
      BY <3>1, PagesType
    <3>3. QED
      BY <3>2
  <2>9. /\ Physical(call) => call.pa % Size(k) = 0
        /\ ~Physical(call) => k = 1 /\ Len(frames') = 0
    BY <1>4, <1>10, <2>1 DEF Refused
  <2>10. F1(walk.mem, I) = Null
    <3>1. CASE AtCursor(call)
      BY <1>3, <1>4, <2>4, <3>1 DEF Placed, Ahead
    <3>2. CASE ~AtCursor(call)
      <4>1. First(call) < Past(call)
        BY <1>2, <1>3, <3>2, BootFacts
      <4>2. First(call) <= Num(I) /\ Num(I) < Past(call)
        BY <2>4, <3>2, <4>1
      <4>3. QED
        BY <1>3, <1>4, <3>2, <4>2 DEF Free
    <3>3. QED
      BY <3>1, <3>2
  <2>11. \A r \in regions : PastOf(plan, r) <= Num(I) \/ Num(I) <= FirstOf(r)
    <3>1. SUFFICES ASSUME NEW r \in regions PROVE PastOf(plan, r) <= Num(I) \/ Num(I) <= FirstOf(r)
      OBVIOUS
    <3>2. r \in RegionType /\ Framed(plan, r) /\ Backed(plan, walk.mem, r)
      BY <1>1 DEF Inv, RegionInv, TypeInv
    <3>3. PastOf(plan, r) <= Num(I) \/ Num(I) < FirstOf(r)
      BY <1>2, <1>4, <2>10, <3>2, OutsideRegion
    <3>4. FirstOf(r) \in Nat
      BY <1>2, <3>2, RegionFacts
    <3>5. QED
      BY <2>4, <3>3, <3>4
  <2>12. \A J \in Vectors : ~Within(J, Num(I), Num(I))
    BY <2>4, NumFacts DEF Within
  <2>13. IF AtCursor(call) THEN Clear(plan, Digits(Num(I))[4]) /\ Placed(plan, walk)
         ELSE Num(I) = First(call) /\ Free(walk.mem, Num(I), Past(call))
    <3>1. Digits(Num(I)) = I
      BY <1>4, DigitsOfNum
    <3>2. QED
      BY <1>3, <2>4, <3>1 DEF Placed
  <2>14. PageInv'
    BY <2>1, <2>4, <2>5, <2>6, <2>7, <2>8, <2>9, <2>11, <2>12, <2>13 DEF PageInv
  <2>15. QED
    BY <1>1, <2>1, <2>2, <2>3, <2>14 DEF Inv
<1>11. QED
  BY <1>9, <1>10

\* paging_unmap finds the size of the pages in the tables.
LEMMA StartUnmapStep ==
    ASSUME KernelPlans, Inv, TypeInv', NEW c \in Offered, StartUnmap(c)
    PROVE  Inv'
<1>1. /\ c.op = "unmap" /\ pc = "idle" /\ TypeInv /\ call = NoCall /\ count = 0 /\ frames = <<>>
      /\ Good(plan, walk) /\ walk.tab[4] = FirstFrame /\ BootOK(plan, walk.mem, booted) /\ ~AtCursor(call)
  BY DEF StartUnmap, Begin, Inv, CallInv, AtCursor, NoCall
<1>2. booted = Len(plan.boot) /\ \E r \in regions : c = UnmapOf(r)
  BY <1>1, OfferedFacts DEF CursorCall, AtCursor
<1>3. /\ plan \in PlanType /\ KernelPlan(plan) /\ Len(plan.boot) \in Nat
  BY <1>1, PlanFacts
<1>4. booted' = booted
  BY <1>2, <1>3 DEF StartUnmap, Begin
<1>5. PICK r \in regions : c = UnmapOf(r)
  BY <1>2
<1>6. c.va = r.va /\ c.bytes = r.bytes
  BY <1>5 DEF UnmapOf, NoCall
<1>7. r \in RegionType /\ Framed(plan, r) /\ Backed(plan, walk.mem, r)
  BY <1>1 DEF Inv, RegionInv, TypeInv
<1> DEFINE k == KindOf(plan, r)
           a == FirstOf(r)
           I == Digits(a)
<1>8. /\ a \in Nat /\ PastOf(plan, r) \in Nat /\ a < PastOf(plan, r) /\ a \in AllPages /\ k \in 1 .. 3
      /\ Pages(r.bytes, k) \in Nat \ {0}
  BY <1>3, <1>7, RegionFacts
<1>9. I \in Vectors /\ Num(I) = a /\ I = IndexOf(c.va) /\ c.va \in Nat
  <2>1. r.va \in Nat
    BY <1>7 DEF RegionType
  <2>2. QED
    BY <1>6, <1>8, <2>1, NumOfDigits, Addresses DEF FirstOf
<1>10. F1(walk.mem, I) # Null /\ Kind(plan, I[4]) = k
  BY <1>7, <1>8, <1>9 DEF Backed, Within
<1>11. /\ Path(walk, c.va) = <<F1(walk.mem, I), F2(walk.mem, I), F3(walk.mem, I), F4(walk.mem, I)>>
       /\ Mapped(walk, c.va) /\ LeafLevel(Path(walk, c.va)) = k
  BY <1>1, <1>3, <1>9, <1>10, MappedFacts
<1>12. c.va % Size(k) = 0
  BY <1>6, <1>7 DEF Framed
<1> DEFINE q == Path(walk, c.va)
<1>13. PICK w : w = [walk EXCEPT !.idx = IndexOf(c.va), !.tab[3] = q[4].at, !.tab[2] = q[3].at, !.tab[1] = q[2].at]
  OBVIOUS
<1>14. PICK d : d = [c EXCEPT !.level = k]
  OBVIOUS
<1>15. Proceed(d, w, "unmap")
  BY <1>11, <1>12, <1>13, <1>14 DEF StartUnmap
<1>16. c \in CallType
  BY <1>1, OfferedType
<1>17. d.op = "unmap" /\ d.va = r.va /\ d.bytes = r.bytes /\ d.level = k
  BY <1>1, <1>6, <1>14, <1>16 DEF CallType
<1>18. /\ pc' = "unmap" /\ call' = d /\ walk' = w /\ count' = 0 /\ frames' = <<>>
       /\ UNCHANGED <<context, used_virtual_pages, ret, regions, plan>>
  BY <1>1, <1>15 DEF Proceed, Continue
<1>19. IsWalk(walk) /\ ~walk.wild /\ IsMem(walk.mem, walk.brk) /\ Tree(plan, walk.mem)
  BY <1>1 DEF Good, IsWalk
<1>20. /\ w.idx = I /\ w.mem = walk.mem /\ w.brk = walk.brk /\ w.wild = walk.wild
       /\ w.tab[4] = FirstFrame /\ w.tab[3] = q[4].at /\ w.tab[2] = q[3].at /\ w.tab[1] = q[2].at
       /\ w = [idx |-> w.idx, tab |-> w.tab, mem |-> w.mem, brk |-> w.brk, wild |-> w.wild]
  <2>1. PICK t : t = [walk.tab EXCEPT ![3] = q[4].at, ![2] = q[3].at, ![1] = q[2].at]
    OBVIOUS
  <2>2. w = [walk EXCEPT !.idx = I, !.tab = t]
    BY <1>9, <1>13, <1>19, <2>1 DEF IsWalk
  <2>3. walk = [idx |-> walk.idx, tab |-> walk.tab, mem |-> walk.mem, brk |-> walk.brk, wild |-> walk.wild]
        /\ walk.tab \in [Levels -> Nat]
    BY <1>19 DEF IsWalk
  <2>4. t[4] = walk.tab[4] /\ t[3] = q[4].at /\ t[2] = q[3].at /\ t[1] = q[2].at
    BY <2>1, <2>3, Sizes
  <2> HIDE DEF q, I
  <2>5. /\ w.idx = I /\ w.mem = walk.mem /\ w.brk = walk.brk /\ w.wild = walk.wild /\ w.tab = t
        /\ w = [idx |-> w.idx, tab |-> w.tab, mem |-> w.mem, brk |-> w.brk, wild |-> w.wild]
    BY <2>2, <2>3
  <2>6. QED
    BY <1>1, <2>4, <2>5
<1>21. Good(plan, w)
  <2>1. IsWalk(w)
    BY <1>18 DEF TypeInv
  <2>2. Tree(plan, w.mem) /\ ~w.wild
    BY <1>19, <1>20
  <2>3. QED
    BY <2>1, <2>2 DEF Good
<1>22. OnPath(w, k)
  <2>1. On(walk.mem, I, k)
    BY <1>3, <1>9, <1>10, <1>19, MappedOn
  <2>2. q[4] = F4(walk.mem, I) /\ q[3] = F3(walk.mem, I) /\ q[2] = F2(walk.mem, I)
    BY <1>11
  <2> HIDE DEF I, q, k
  <2>3. QED
    BY <1>9, <1>20, <2>1, <2>2 DEF OnPath
<1>23. Ext(walk, w)
  BY <1>19, <1>20, ExtReflexive
<1>24. RegionInv' /\ UsedInv' /\ FramesInv'
  BY <1>1, <1>18, <1>23, QuietStep
<1>25. CallInv' /\ MapInv' /\ PageInv' /\ FindInv' /\ FindBytes'
  <2>1. ~AtCursor(d)
    BY <1>17 DEF AtCursor
  <2>2. QED
    BY <1>2, <1>4, <1>17, <1>18, <2>1 DEF CallInv, MapInv, PageInv, FindInv, FindBytes
<1>26. ContextInv'
  <2>1. PICK u : u = Over(walk, context)
    OBVIOUS
  <2>2. PICK v : v = Over(w, context)
    OBVIOUS
  <2>3. Cur(plan, u)
    BY <1>1, <2>1 DEF Inv, ContextInv, AtContext, Over
  <2>4. context \in Cursor
    BY <1>1 DEF TypeInv
  <2>5. u.idx = context.idx /\ u.tab = context.tab /\ u.mem = walk.mem /\ u.brk = walk.brk
    BY <1>1, <2>1, <2>4, OverFacts
  <2>6. v.idx = context.idx /\ v.tab = context.tab /\ v.mem = w.mem /\ v.brk = w.brk
    BY <1>21, <2>2, <2>4, OverFacts
  <2>7. Ext(u, v)
    BY <1>23, <2>5, <2>6 DEF Ext
  <2>8. Cur(plan, v)
    BY <1>3, <2>3, <2>5, <2>6, <2>7, ExtCur
  <2>9. QED
    BY <1>18, <2>2, <2>8 DEF ContextInv, AtContext, Over
<1>27. UnmapInv'
  <2>1. \A j \in 1 .. (k - 1) : I[j] = 0
    <3>1. k \in 1 .. 4
      BY <1>8
    <3>2. PICK x \in Nat : c.va \div PageSize = x * Span(k)
      BY <1>9, <1>12, <3>1, Aligned
    <3>3. a = x * Span(k)
      BY <1>6, <3>2 DEF FirstOf
    <3>4. QED
      BY <1>8, <3>1, <3>3, LowDigits
  <2>2. a + 0 * Span(k) = a
    <3>1. Span(k) \in Nat
      BY <1>8, Spans DEF Levels
    <3>2. QED
      BY <1>8, <3>1
  <2>3. AtEntry(w, k, a, 0)
    BY <1>9, <1>20, <1>22, <2>1, <2>2 DEF AtEntry
  <2>4. Free(w.mem, a, Num(w.idx))
    <3>1. \A J \in Vectors : ~(a <= Num(J) /\ Num(J) < a)
      BY <1>8, NumFacts
    <3>2. QED
      BY <1>9, <1>20, <3>1 DEF Free
  <2>5. \A J \in Vectors : Within(J, a, PastOf(plan, r)) => Kind(plan, J[4]) = k /\ F1(w.mem, J) # Null
    BY <1>7, <1>20 DEF Backed
  <2>6. 0 < Pages(r.bytes, k)
    BY <1>8
  <2> HIDE DEF a, k, I
  <2>7. r \in regions' /\ r.va = call'.va /\ r.bytes = call'.bytes /\ k = call'.level
    BY <1>17, <1>18
  <2>8. QED
    BY <1>18, <2>3, <2>4, <2>5, <2>6, <2>7 DEF UnmapInv, k, a
<1>28. QED
  BY <1>1, <1>4, <1>18, <1>20, <1>21, <1>24, <1>25, <1>26, <1>27 DEF Inv

\* One page of paging_unmap: the walk goes on to the next one.
Unmapping(r, v) ==
    LET k == call.level IN
    /\ r.va = call.va /\ r.bytes = call.bytes /\ KindOf(plan, r) = k /\ k \in 1 .. 3
    /\ count < Pages(r.bytes, k) /\ AtEntry(walk, k, FirstOf(r), count) /\ Kind(plan, walk.idx[4]) = k
    /\ Free(walk.mem, FirstOf(r), Num(walk.idx))
    /\ \A I \in Vectors : Within(I, FirstOf(r), PastOf(plan, r)) =>
          /\ Kind(plan, I[4]) = k
          /\ Num(walk.idx) <= Num(I) => F1(walk.mem, I) # Null
    /\ FirstOf(r) <= Num(walk.idx) /\ Num(walk.idx) + Span(k) <= PastOf(plan, r)
    /\ Good(plan, v) /\ AtEntry(v, k, FirstOf(r), count + 1) /\ v.brk = walk.brk /\ DOMAIN v.mem = DOMAIN walk.mem
    /\ Changed(plan, walk.mem, v.mem, walk.idx, k, Null) /\ Num(v.idx) = Num(walk.idx) + Span(k)

\* One step of paging_unmap finds the next table, as there is one for the page behind
\* the region.
LEMMA UnmapFacts ==
    ASSUME KernelPlans, Inv, UnmapPage
    PROVE  \E r, v :
              /\ r \in regions /\ Unmapping(r, v)
              /\ IF More(Pages(call.bytes, call.level))
                 THEN /\ Continue(call, v, "unmap") /\ count' = count + 1 /\ UNCHANGED <<address, frames>>
                 ELSE /\ Return(call, v, 1)
                      /\ regions' = Forget(call)
                      /\ used_virtual_pages' = (used_virtual_pages - SmallPages(Pages(call.bytes, call.level), call.level)) % Modulus
<1> DEFINE k == call.level
           I == walk.idx
           n == Pages(call.bytes, k)
<1>1. /\ pc = "unmap" /\ TypeInv /\ Good(plan, walk) /\ k \in 1 .. 3 /\ k \in 1 .. 4 /\ count \in Nat
  <2>1. pc = "unmap" /\ TypeInv /\ Good(plan, walk)
    BY DEF UnmapPage, Inv
  <2>2. k \in 1 .. 3 /\ count \in Nat
    BY <2>1 DEF TypeInv, CallType
  <2>3. QED
    BY <2>1, <2>2
<1>2. plan \in PlanType /\ KernelPlan(plan)
  BY <1>1, PlanFacts
<1>3. PICK r \in regions :
        /\ r.va = call.va /\ r.bytes = call.bytes /\ KindOf(plan, r) = k
        /\ count < Pages(r.bytes, k)
        /\ AtEntry(walk, k, FirstOf(r), count)
        /\ Free(walk.mem, FirstOf(r), Num(I))
        /\ \A J \in Vectors : Within(J, FirstOf(r), PastOf(plan, r)) =>
              /\ Kind(plan, J[4]) = k
              /\ Num(I) <= Num(J) => F1(walk.mem, J) # Null
  BY <1>1 DEF Inv, UnmapInv
<1> DEFINE a == FirstOf(r)
           u == PastOf(plan, r)
           s == Span(k)
<1>4. r \in RegionType /\ Framed(plan, r) /\ Tabled(plan, walk.mem, r)
  BY <1>1 DEF Inv, RegionInv, TypeInv
<1>5. /\ a \in Nat /\ u \in Nat /\ a < u /\ u \in AllPages /\ n \in Nat \ {0}
  BY <1>2, <1>3, <1>4, RegionFacts
<1>6. u = a + n * s
  BY <1>3 DEF PastOf
<1>7. s \in Nat \ {0}
  BY <1>1, Spans DEF Levels
<1>8. /\ OnPath(walk, k) /\ I \in Vectors /\ Num(I) = a + count * s /\ (\A j \in 1 .. (k - 1) : I[j] = 0)
      /\ Num(I) \in Nat /\ I[4] \in Slots
  <2>1. /\ OnPath(walk, k) /\ I \in Vectors /\ Num(I) = a + count * s /\ (\A j \in 1 .. (k - 1) : I[j] = 0)
    BY <1>3 DEF AtEntry, OnPath
  <2>2. QED
    BY <2>1, NumFacts, VectorElements
<1>9. a <= Num(I) /\ Num(I) + s <= u /\ count * s \in Nat
  <2> HIDE DEF a, u, s, n, I
  <2>1. PICK x \in Nat : x = count + 1
    BY <1>1
  <2>2. x * s <= n * s /\ x * s = count * s + s
    BY <1>1, <1>3, <1>5, <1>7, <2>1, TimesMonotone DEF n
  <2>3. count * s \in Nat /\ n * s \in Nat /\ x * s \in Nat
    BY <1>1, <1>5, <1>7, <2>1
  <2>4. QED
    BY <1>5, <1>6, <1>7, <1>8, <2>2, <2>3
<1>10. Within(I, a, u)
  BY <1>5, <1>7, <1>8, <1>9 DEF Within
<1>11. Kind(plan, I[4]) = k
  BY <1>3, <1>8, <1>10
<1>12. PICK w : w = Write(walk, k, Null)
  OBVIOUS
<1>13. /\ Good(plan, w) /\ OnPath(w, k) /\ w.idx = I /\ w.tab = walk.tab /\ w.brk = walk.brk
       /\ ~w.wild /\ DOMAIN w.mem = DOMAIN walk.mem /\ Changed(plan, walk.mem, w.mem, I, k, Null)
  BY <1>1, <1>2, <1>8, <1>11, <1>12, Entries, WriteFacts
<1>14. Num(w.idx) + Span(k) \in AllPages
  <2>1. TableEntries * Span(4) \in Nat
    <3>1. TableEntries \in Nat /\ Span(4) \in Nat
      BY Sizes, Spans DEF Levels
    <3>2. QED
      BY <3>1
  <2>2. QED
    BY <1>5, <1>7, <1>8, <1>9, <1>13, <2>1 DEF AllPages
<1>15. Carry(w, k) <= 4
  BY <1>1, <1>8, <1>13, <1>14, CarryEnd
<1>16. PICK top : top = Carry(w, k)
  OBVIOUS
<1>17. PICK m : m = Increment(w, k)
  OBVIOUS
<1>18. /\ top \in k .. 4 /\ Good(plan, m) /\ OnPath(m, top) /\ m.idx \in Vectors /\ Num(m.idx) = Num(I) + s
       /\ m.mem = w.mem /\ m.brk = w.brk /\ \A j \in 1 .. (k - 1) : m.idx[j] = I[j]
  BY <1>1, <1>13, <1>15, <1>16, <1>17, IncrementFacts
<1>19. Kind(plan, m.idx[4]) = k /\ On(walk.mem, m.idx, k)
  <2>1. CASE Num(I) + s < u
    <3>1. Within(m.idx, a, u) /\ Num(I) <= Num(m.idx)
      BY <1>5, <1>7, <1>8, <1>9, <1>18, <2>1 DEF Within
    <3>2. Kind(plan, m.idx[4]) = k /\ F1(walk.mem, m.idx) # Null
      BY <1>3, <1>18, <3>1
    <3>3. IsMem(walk.mem, walk.brk) /\ Tree(plan, walk.mem)
      BY <1>1 DEF Good, IsWalk
    <3>4. On(walk.mem, m.idx, Kind(plan, m.idx[4]))
      BY <1>2, <1>18, <3>2, <3>3, MappedOn
    <3>5. QED
      BY <3>2, <3>4
  <2>2. CASE ~(Num(I) + s < u)
    <3>1. Num(m.idx) = u
      BY <1>5, <1>7, <1>8, <1>9, <1>18, <2>2
    <3>2. QED
      BY <1>3, <1>4, <1>18, <3>1 DEF Tabled
  <2>3. QED
    BY <2>1, <2>2
<1>20. On(m.mem, m.idx, k)
  BY <1>1, <1>2, <1>13, <1>18, <1>19, ChangedOn
<1>21. PICK v : v = Reach(m, top, k)
  OBVIOUS
<1>22. Reaching(plan, m, v, top, k)
  BY <1>1, <1>2, <1>18, <1>19, <1>20, <1>21, ReachFacts
<1>23. /\ Good(plan, v) /\ OnPath(v, k) /\ v.mem = m.mem /\ v.brk = m.brk /\ v.idx = m.idx
       /\ \A i \in k .. (top - 1) : v.tab[i] # 0
  BY <1>22 DEF Reaching
<1>24. ~v.wild /\ top # 5 /\ ~\E j \in k .. (top - 1) : v.tab[j] = 0
  BY <1>18, <1>23 DEF Good
<1>25. AtEntry(v, k, a, count + 1)
  <2>1. \A j \in 1 .. (k - 1) : v.idx[j] = 0
    BY <1>8, <1>18, <1>23
  <2>2. Num(v.idx) = a + (count + 1) * s
    <3>1. (count + 1) * s = count * s + s
      BY <1>1, <1>7
    <3>2. QED
      BY <1>5, <1>7, <1>8, <1>9, <1>18, <1>23, <3>1
  <2>3. QED
    BY <1>23, <2>1, <2>2 DEF AtEntry
<1>26. Unmapping(r, v)
  BY <1>1, <1>3, <1>9, <1>11, <1>13, <1>18, <1>23, <1>25 DEF Unmapping
<1>27. IF More(n)
       THEN /\ Continue(call, v, "unmap") /\ count' = count + 1 /\ UNCHANGED <<address, frames>>
       ELSE /\ Return(call, v, 1)
            /\ regions' = Forget(call)
            /\ used_virtual_pages' = (used_virtual_pages - SmallPages(n, k)) % Modulus
  <2>1. Reach(Increment(Write(walk, k, Null), k), Carry(Write(walk, k, Null), k), k) = v
    BY <1>12, <1>16, <1>17, <1>21
  <2>2. Write(walk, k, Null) = w /\ Carry(Write(walk, k, Null), k) = top
    BY <1>12, <1>16
  <2>3. QED
    BY <1>13, <1>24, <2>1, <2>2 DEF UnmapPage
<1>28. QED
  BY <1>26, <1>27

\* What it clears belongs to its own region only.
LEMMA UnmapKeeps ==
    ASSUME KernelPlans, Inv, pc = "unmap", NEW r \in regions, NEW v, Unmapping(r, v)
    PROVE  /\ Count(walk.mem) = Count(v.mem) + Span(call.level)
           /\ Free(v.mem, FirstOf(r), Num(v.idx))
           /\ \A I \in Vectors : Within(I, FirstOf(r), PastOf(plan, r)) /\ Num(v.idx) <= Num(I) => F1(v.mem, I) # Null
           /\ BootOK(plan, v.mem, booted) /\ Cur(plan, Over(v, context))
           /\ \A q \in regions : Tabled(plan, v.mem, q) /\ (q.va # call.va => Backed(plan, v.mem, q))
           /\ \A q \in regions : q.va = call.va => q = r
           /\ Unshared(v, frames) /\ \A q \in regions : q.physical \/ Unshared(v, q.frames)
<1> DEFINE k == call.level
           J == walk.idx
           a == FirstOf(r)
           u == PastOf(plan, r)
           s == Span(k)
<1>1. /\ TypeInv /\ Good(plan, walk) /\ BootOK(plan, walk.mem, booted) /\ booted = Len(plan.boot) /\ call.op = "unmap"
      /\ regions \subseteq RegionType /\ context \in Cursor
  BY DEF Inv, CallInv, TypeInv
<1>2. plan \in PlanType /\ KernelPlan(plan) /\ booted \in 0 .. Len(plan.boot)
  BY <1>1, PlanFacts
<1>3. /\ r.va = call.va /\ k \in 1 .. 3 /\ k \in 1 .. 4 /\ k \in Levels
      /\ Free(walk.mem, a, Num(J)) /\ a <= Num(J) /\ Num(J) + s <= u
      /\ Good(plan, v) /\ v.brk = walk.brk /\ DOMAIN v.mem = DOMAIN walk.mem
      /\ Changed(plan, walk.mem, v.mem, J, k, Null) /\ Num(v.idx) = Num(J) + s
  BY DEF Unmapping, Levels
<1>4. J \in Vectors /\ \A j \in 1 .. (k - 1) : J[j] = 0
  BY DEF Unmapping, AtEntry, OnPath
<1>5. \A I \in Vectors : Within(I, a, u) /\ Num(J) <= Num(I) => F1(walk.mem, I) # Null
  BY DEF Unmapping
<1>6. s \in Nat \ {0} /\ Num(J) \in Nat /\ a \in Nat /\ u \in Nat
  <2>1. r \in RegionType /\ Framed(plan, r)
    BY <1>1 DEF Inv, RegionInv
  <2>2. QED
    BY <1>2, <1>3, <1>4, <2>1, Spans, NumFacts, RegionFacts
<1>7. \A I \in Vectors : Num(I) \in Nat /\ (Agree(I, J, k) <=> (Num(J) <= Num(I) /\ Num(I) < Num(J) + s))
  BY <1>3, <1>4, SameEntry, NumFacts DEF Agree
<1>8. \A I \in Vectors : F1(v.mem, I) = IF Agree(I, J, k) THEN Null ELSE F1(walk.mem, I)
  BY <1>3 DEF Changed
<1> HIDE DEF k, J, a, u, s
<1>9. \A I \in Vectors : Agree(I, J, k) => F1(walk.mem, I) # Null
  BY <1>3, <1>5, <1>6, <1>7 DEF Within
<1>10. Count(walk.mem) = Count(v.mem) + s
  <2>1. \A I \in Vectors : Agree(I, J, k) => F1(v.mem, I) = Null /\ F1(walk.mem, I) # Null
    BY <1>8, <1>9
  <2>2. \A I \in Vectors : ~Agree(I, J, k) => F1(walk.mem, I) = F1(v.mem, I)
    BY <1>8
  <2>3. QED
    BY <1>3, <1>4, <2>1, <2>2, CountMore DEF s
<1>11. Free(v.mem, a, Num(v.idx))
  BY <1>3, <1>6, <1>7, <1>8 DEF Free
<1>12. \A I \in Vectors : Within(I, a, u) /\ Num(v.idx) <= Num(I) => F1(v.mem, I) # Null
  BY <1>3, <1>5, <1>6, <1>7, <1>8
<1>13. BootOK(plan, v.mem, booted)
  BY <1>1, <1>2, <1>3, ChangedBoot
<1>14. Cur(plan, Over(v, context))
  <2>1. PICK x : x = Over(walk, context)
    OBVIOUS
  <2>2. PICK y : y = Over(v, context)
    OBVIOUS
  <2>3. x.idx = context.idx /\ x.tab = context.tab /\ x.mem = walk.mem
    BY <1>1, <2>1, OverFacts
  <2>4. y.idx = context.idx /\ y.tab = context.tab /\ y.mem = v.mem
    BY <1>1, <1>3, <2>2, OverFacts
  <2>5. Cur(plan, x)
    BY <1>1, <2>1 DEF Inv, ContextInv, AtContext, AtCursor, Over
  <2>6. QED
    BY <1>2, <1>3, <2>2, <2>3, <2>4, <2>5, ChangedCur
<1>15. \A q \in regions : Tabled(plan, v.mem, q)
  <2>1. \A q \in regions : Tabled(plan, walk.mem, q)
    BY DEF Inv, RegionInv
  <2>2. QED
    BY <1>2, <1>3, <2>1, ChangedTabled
<1>16. \A q \in regions : q # r => /\ FirstOf(q) \in Nat /\ PastOf(plan, q) \in Nat /\ FirstOf(q) < PastOf(plan, q)
                                   /\ PastOf(plan, q) <= a \/ u <= FirstOf(q)
  <2>1. \A q \in regions : q # r => Disjoint(plan, q, r)
    BY DEF Inv, RegionInv
  <2>2. \A q \in regions : q \in RegionType /\ Framed(plan, q)
    BY <1>1 DEF Inv, RegionInv
  <2>3. QED
    BY <1>2, <2>1, <2>2, RegionFacts DEF Disjoint, a, u
<1>17. \A q \in regions : q.va = call.va => q = r
  <2>1. SUFFICES ASSUME NEW q \in regions, q.va = call.va, q # r PROVE FALSE
    OBVIOUS
  <2>2. FirstOf(q) = a
    BY <1>3, <2>1 DEF FirstOf, a
  <2>3. a < u
    BY <1>3, <1>6
  <2>4. QED
    BY <1>6, <1>16, <2>1, <2>2, <2>3
<1>18. \A q \in regions : q.va # call.va => Backed(plan, v.mem, q)
  <2>1. SUFFICES ASSUME NEW q \in regions, q.va # call.va PROVE Backed(plan, v.mem, q)
    OBVIOUS
  <2>2. Backed(plan, walk.mem, q)
    BY <2>1 DEF Inv, RegionInv
  <2>3. \A I \in Vectors : Within(I, FirstOf(q), PastOf(plan, q)) => ~Agree(I, J, k)
    BY <1>3, <1>6, <1>7, <1>16, <2>1 DEF Within
  <2>4. QED
    BY <1>3, <2>2, <2>3, ChangedBacked
<1>19. Unshared(v, frames) /\ \A q \in regions : q.physical \/ Unshared(v, q.frames)
  BY <1>3 DEF Inv, FramesInv, Unshared
<1>20. QED
  BY <1>10, <1>11, <1>12, <1>13, <1>14, <1>15, <1>17, <1>18, <1>19 DEF k, a, u, s

LEMMA UnmapPageStep ==
    ASSUME KernelPlans, AddressesFit, Inv, TypeInv', UnmapPage
    PROVE  Inv'
<1>1. pc = "unmap" /\ booted' = booted
  BY DEF UnmapPage
<1>2. PICK r, v :
              /\ r \in regions /\ Unmapping(r, v)
              /\ IF More(Pages(call.bytes, call.level))
                 THEN /\ Continue(call, v, "unmap") /\ count' = count + 1 /\ UNCHANGED <<address, frames>>
                 ELSE /\ Return(call, v, 1)
                      /\ regions' = Forget(call)
                      /\ used_virtual_pages' = (used_virtual_pages - SmallPages(Pages(call.bytes, call.level), call.level)) % Modulus
  BY UnmapFacts
<1>3. /\ Count(walk.mem) = Count(v.mem) + Span(call.level)
      /\ Free(v.mem, FirstOf(r), Num(v.idx))
      /\ \A I \in Vectors : Within(I, FirstOf(r), PastOf(plan, r)) /\ Num(v.idx) <= Num(I) => F1(v.mem, I) # Null
      /\ BootOK(plan, v.mem, booted) /\ Cur(plan, Over(v, context))
      /\ \A q \in regions : Tabled(plan, v.mem, q) /\ (q.va # call.va => Backed(plan, v.mem, q))
      /\ Unshared(v, frames) /\ \A q \in regions : q.physical \/ Unshared(v, q.frames)
  BY <1>1, <1>2, UnmapKeeps
<1>4. /\ TypeInv /\ call.op = "unmap" /\ booted = Len(plan.boot) /\ ~AtCursor(call)
      /\ used_virtual_pages = Count(walk.mem) + count * Span(call.level)
  BY <1>1 DEF Inv, CallInv, AtCursor, UsedInv
<1>5. /\ call.level \in 1 .. 3 /\ Span(call.level) \in Nat \ {0} /\ count \in Nat /\ Good(plan, v)
      /\ Count(v.mem) \in Nat /\ Count(v.mem) <= TableEntries * Span(4) /\ used_virtual_pages \in Nat
  <2>1. call.level \in 1 .. 3 /\ count \in Nat
    BY <1>4 DEF TypeInv, CallType
  <2>2. Good(plan, v)
    BY <1>2 DEF Unmapping
  <2>3. Span(call.level) \in Nat \ {0}
    BY <2>1, Spans DEF Levels
  <2>4. used_virtual_pages \in Nat
    BY <1>4, Sizes DEF TypeInv
  <2>5. QED
    BY <2>1, <2>2, <2>3, <2>4, CountType
<1>6. r \in regions /\ v.tab[4] = FirstFrame /\ r.va = call.va /\ r.bytes = call.bytes /\ count < Pages(call.bytes, call.level)
  BY <1>2 DEF Unmapping, AtEntry, OnPath
<1>7. /\ \A q \in regions : Framed(plan, q)
      /\ \A p, q \in regions : p # q => Disjoint(plan, p, q)
  BY DEF Inv, RegionInv
<1>8. CASE More(Pages(call.bytes, call.level))
  <2>1. /\ pc' = "unmap" /\ call' = call /\ walk' = v /\ count' = count + 1 /\ frames' = frames
        /\ UNCHANGED <<context, used_virtual_pages, ret, regions, plan>>
    BY <1>2, <1>8 DEF Continue
  <2>2. CallInv' /\ FindInv' /\ MapInv' /\ PageInv' /\ FindBytes'
    BY <1>1, <1>4, <2>1 DEF CallInv, FindInv, MapInv, PageInv, FindBytes, AtCursor
  <2>3. ContextInv'
    BY <1>3, <2>1 DEF ContextInv, AtContext, Over
  <2>4. RegionInv'
    BY <1>3, <1>7, <2>1 DEF RegionInv
  <2>5. FramesInv'
    BY <1>3, <2>1 DEF FramesInv
  <2>6. UsedInv'
    <3>1. (count + 1) * Span(call.level) = count * Span(call.level) + Span(call.level) /\ count * Span(call.level) \in Nat
      BY <1>5
    <3>2. used_virtual_pages = Count(v.mem) + (count + 1) * Span(call.level)
      BY <1>3, <1>4, <1>5, <3>1
    <3>3. UsedInv' <=> (used_virtual_pages' = CASE pc' = "page"  -> Count(walk'.mem) - count' * Span(call'.level)
                                                [] pc' = "unmap" -> Count(walk'.mem) + count' * Span(call'.level)
                                                [] OTHER         -> Count(walk'.mem))
      BY DEF UsedInv, Count
    <3>4. QED
      BY <2>1, <3>2, <3>3
  <2>7. UnmapInv'
    <3>1. count + 1 < Pages(call.bytes, call.level)
      BY <1>8 DEF More
    <3>2. /\ KindOf(plan, r) = call.level /\ AtEntry(v, call.level, FirstOf(r), count + 1)
          /\ \A I \in Vectors : Within(I, FirstOf(r), PastOf(plan, r)) => Kind(plan, I[4]) = call.level
      BY <1>2 DEF Unmapping
    <3>3. QED
      BY <1>3, <1>6, <2>1, <3>1, <3>2 DEF UnmapInv
  <2>8. QED
    BY <1>1, <1>3, <1>5, <1>6, <2>1, <2>2, <2>3, <2>4, <2>5, <2>6, <2>7 DEF Inv
<1>9. CASE ~More(Pages(call.bytes, call.level))
  <2> DEFINE n == Pages(call.bytes, call.level)
  <2>1. /\ Return(call, v, 1) /\ regions' = Forget(call)
        /\ used_virtual_pages' = (used_virtual_pages - SmallPages(n, call.level)) % Modulus
    BY <1>2, <1>9
  <2>2. /\ walk'.mem = v.mem /\ walk'.brk = v.brk /\ Good(plan', walk') /\ walk'.tab[4] = FirstFrame
        /\ plan' = plan /\ count' = 0 /\ frames' = <<>> /\ pc' = "idle"
        /\ FindBytes' /\ CallInv' /\ ContextInv' /\ FindInv' /\ MapInv' /\ PageInv' /\ UnmapInv'
    BY <1>3, <1>4, <1>5, <1>6, <2>1, ReturnInv
  <2>3. n = count + 1
    <3>1. n \in Nat
      <4>1. call.bytes \in Nat /\ call.level \in 1 .. 4
        BY <1>4, <1>5 DEF TypeInv, CallType
      <4>2. QED
        BY <4>1, PagesType
    <3>2. QED
      BY <1>5, <1>6, <1>9, <3>1 DEF More
  <2>4. used_virtual_pages - SmallPages(n, call.level) = Count(v.mem)
    <3>1. (count + 1) * Span(call.level) = count * Span(call.level) + Span(call.level) /\ count * Span(call.level) \in Nat
      BY <1>5
    <3>2. SmallPages(n, call.level) = (count + 1) * Span(call.level)
      BY <2>3 DEF SmallPages
    <3>3. QED
      BY <1>3, <1>4, <1>5, <3>1, <3>2
  <2>5. Count(v.mem) < Modulus
    <3>1. TableEntries * Span(4) <= TableEntries * Size(4)
      BY SpaceSize
    <3>2. TableEntries * Span(4) \in Nat /\ TableEntries * Size(4) \in Nat
      BY SpaceSize
    <3>3. QED
      BY <1>5, <3>1, <3>2, Sizes DEF AddressesFit
  <2>6. used_virtual_pages' = Count(v.mem)
    <3>1. \A x \in Nat : x < Modulus => x % Modulus = x
      BY Sizes
    <3>2. QED
      BY <1>5, <2>1, <2>4, <2>5, <3>1
  <2>7. UsedInv'
    <3>1. UsedInv' <=> (used_virtual_pages' = CASE pc' = "page"  -> Count(walk'.mem) - count' * Span(call'.level)
                                                [] pc' = "unmap" -> Count(walk'.mem) + count' * Span(call'.level)
                                                [] OTHER         -> Count(walk'.mem))
      BY DEF UsedInv, Count
    <3>2. QED
      BY <2>2, <2>6, <3>1
  <2>8. RegionInv'
    <3>1. \A q \in regions' : q \in regions /\ q.va # call.va
      BY <2>1 DEF Forget
    <3>2. QED
      BY <1>3, <1>7, <2>2, <3>1 DEF RegionInv
  <2>9. FramesInv'
    <3>1. \A q \in regions' : q \in regions
      BY <2>1 DEF Forget
    <3>2. QED
      BY <1>3, <2>2, <3>1 DEF FramesInv, Unshared
  <2>10. QED
    BY <1>1, <1>3, <2>2, <2>7, <2>8, <2>9 DEF Inv
<1>10. QED
  BY <1>8, <1>9

\* The pages of a region, and where they are in the tables.
LEMMA PageIndex ==
    ASSUME NEW v \in AllPages
    PROVE  /\ v \in Nat /\ v * PageSize \in Nat /\ IndexOf(v * PageSize) = Digits(v)
           /\ Digits(v) \in Vectors /\ Num(Digits(v)) = v
<1>1. Digits(v) \in Vectors /\ Num(Digits(v)) = v
  BY NumOfDigits
<1>2. v \in Nat
  BY <1>1, NumFacts
<1>3. v * PageSize \in Nat /\ (v * PageSize) \div PageSize = v
  <2>1. 1 \in 1 .. 4
    OBVIOUS
  <2>2. QED
    BY <1>2, <2>1, PageAddress
<1>4. QED
  BY <1>1, <1>2, <1>3, Addresses

LEMMA RegionPages ==
    ASSUME NEW p \in PlanType, KernelPlan(p), NEW r \in RegionType, Framed(p, r), NEW v \in PagesOf(r)
    PROVE  v \in AllPages /\ FirstOf(r) <= v /\ v < PastOf(p, r) /\ v - FirstOf(r) < Len(r.frames)
<1>1. PICK i \in 0 .. (Len(r.frames) - 1) : v = FirstOf(r) + i
  BY DEF PagesOf, FirstOf
<1>2. Len(r.frames) \in Nat
  BY DEF RegionType
<1>3. /\ FirstOf(r) \in Nat /\ PastOf(p, r) \in Nat /\ PastOf(p, r) \in AllPages
      /\ FirstOf(r) + Len(r.frames) <= PastOf(p, r)
  BY RegionFacts
<1>4. FirstOf(r) <= v /\ v < PastOf(p, r) /\ v - FirstOf(r) < Len(r.frames) /\ v \in Nat
  BY <1>1, <1>2, <1>3
<1>5. v \in AllPages
  BY <1>3, <1>4, SpaceSize DEF AllPages
<1>6. QED
  BY <1>4, <1>5

\* After the last step no page of the region is mapped.
LEMMA UnmapEnds ==
    ASSUME KernelPlans, Inv, UnmapPage, pc' = "idle", NEW q \in regions, q \notin regions'
    PROVE  ret' = 1 /\ \A x \in PagesOf(q) : ~Mapped(walk', x * PageSize)
<1>1. pc = "unmap" /\ TypeInv
  BY DEF UnmapPage, Inv
<1>2. plan \in PlanType /\ KernelPlan(plan)
  BY <1>1, PlanFacts
<1> DEFINE n == Pages(call.bytes, call.level)
<1>3. PICK r, v :
              /\ r \in regions /\ Unmapping(r, v)
              /\ IF More(n)
                 THEN /\ Continue(call, v, "unmap") /\ count' = count + 1 /\ UNCHANGED <<address, frames>>
                 ELSE /\ Return(call, v, 1)
                      /\ regions' = Forget(call)
                      /\ used_virtual_pages' = (used_virtual_pages - SmallPages(n, call.level)) % Modulus
  BY UnmapFacts
<1>4. ~More(n) /\ Return(call, v, 1) /\ regions' = Forget(call)
  BY <1>3 DEF Continue
<1>5. /\ Free(v.mem, FirstOf(r), Num(v.idx))
      /\ \A x \in regions : x.va = call.va => x = r
  BY <1>1, <1>3, UnmapKeeps
<1>6. q = r
  BY <1>4, <1>5 DEF Forget
<1>7. ret' = 1 /\ walk' = Reset(v)
  BY <1>4 DEF Return, Reset
<1>8. /\ Good(plan, v) /\ r.bytes = call.bytes /\ KindOf(plan, r) = call.level /\ count < n
      /\ AtEntry(v, call.level, FirstOf(r), count + 1)
  BY <1>3 DEF Unmapping
<1>9. Good(plan, walk') /\ walk'.mem = v.mem /\ walk'.tab[4] = FirstFrame
  BY <1>7, <1>8, ResetFacts DEF AtEntry, OnPath
<1>10. n = count + 1
  <2>1. call.bytes \in Nat /\ call.level \in 1 .. 4 /\ count \in Nat
    BY <1>1 DEF TypeInv, CallType
  <2>2. n \in Nat
    BY <2>1, PagesType
  <2>3. QED
    BY <1>4, <1>8, <2>1, <2>2 DEF More
<1>11. Num(v.idx) = PastOf(plan, r)
  BY <1>8, <1>10 DEF AtEntry, PastOf
<1>12. r \in RegionType /\ Framed(plan, r)
  BY <1>1, <1>3 DEF Inv, RegionInv, TypeInv
<1>13. ASSUME NEW x \in PagesOf(r) PROVE ~Mapped(walk', x * PageSize)
  <2>1. x \in AllPages /\ FirstOf(r) <= x /\ x < PastOf(plan, r)
    BY <1>2, <1>12, RegionPages
  <2>2. /\ x * PageSize \in Nat /\ IndexOf(x * PageSize) = Digits(x)
        /\ Digits(x) \in Vectors /\ Num(Digits(x)) = x
    BY <2>1, PageIndex
  <2>3. F1(v.mem, Digits(x)) = Null
    BY <1>5, <1>11, <2>1, <2>2 DEF Free
  <2>4. Mapped(walk', x * PageSize) <=> F1(walk'.mem, Digits(x)) # Null
    BY <1>2, <1>9, <2>2, MappedFacts
  <2>5. QED
    BY <1>9, <2>3, <2>4
<1>14. QED
  BY <1>6, <1>7, <1>13

\* A call that maps pages, at one of them.
AtPage(a, s, n) ==
    LET k == call.level IN
    /\ a = address \div PageSize /\ s = Span(k) /\ n = Pages(call.bytes, k)
    /\ a \in Nat /\ s \in Nat \ {0} /\ n \in Nat \ {0} /\ count \in Nat /\ count < n /\ address = a * PageSize
    /\ call \in CallType /\ k \in 1 .. 3 /\ k \in 1 .. 4 /\ k \in Levels
    /\ Good(plan, walk) /\ OnPath(walk, k) /\ walk.idx \in Vectors /\ (\A j \in 1 .. (k - 1) : walk.idx[j] = 0)
    /\ Num(walk.idx) \in Nat /\ Num(walk.idx) = a + count * s /\ count * s \in Nat /\ Kind(plan, walk.idx[4]) = k
    /\ Physical(call) => call.pa % Size(k) = 0
    /\ ~Physical(call) => k = 1 /\ s = 1 /\ Len(frames) = count
    /\ AtCursor(call) => /\ k = 1 /\ s = 1 /\ Placed(plan, walk) /\ Clear(plan, Digits(a)[4])
                         /\ call \in plan.calls /\ booted = Len(plan.boot)
    /\ ~AtCursor(call) => /\ booted \in DOMAIN plan.boot /\ call = plan.boot[booted] /\ a = First(call)
                          /\ call.va = address /\ call.va % Size(k) = 0
                          /\ Past(call) = a + n * s /\ Num(walk.idx) + s <= Past(call)
                          /\ Free(walk.mem, Num(walk.idx), Past(call))

\* Where the loop that maps is.
LEMMA PageFacts ==
    ASSUME KernelPlans, Inv, pc = "page"
    PROVE  \E a, s, n : AtPage(a, s, n)
<1> DEFINE k == call.level
           a == address \div PageSize
           s == Span(k)
           n == Pages(call.bytes, k)
           J == walk.idx
<1>1. /\ TypeInv /\ Good(plan, walk) /\ call \in CallType /\ count \in Nat /\ address \in Nat
      /\ AtCursor(call) => call \in plan.calls /\ booted = Len(plan.boot)
      /\ ~AtCursor(call) => booted > 0 /\ call = plan.boot[booted] /\ call.va % Size(k) = 0
  BY DEF Inv, TypeInv, CallInv
<1>2. /\ plan \in PlanType /\ KernelPlan(plan) /\ DOMAIN plan.boot = 1 .. Len(plan.boot) /\ Len(plan.boot) \in Nat
      /\ booted \in 0 .. Len(plan.boot) /\ \A c \in plan.calls : CursorCall(c)
  BY <1>1, PlanFacts
<1>3. /\ address = a * PageSize
      /\ AtEntry(walk, k, a, count)
      /\ Kind(plan, J[4]) = k
      /\ count < n
      /\ Physical(call) => call.pa % Size(k) = 0
      /\ ~Physical(call) => k = 1 /\ Len(frames) = count
      /\ IF AtCursor(call) THEN Clear(plan, Digits(a)[4]) /\ Placed(plan, walk)
         ELSE a = First(call) /\ Free(walk.mem, Num(J), Past(call))
  BY DEF Inv, PageInv
<1>4. k \in 1 .. 3 /\ call.bytes \in Nat /\ call.va \in Nat
  BY <1>1 DEF CallType
<1>5. k \in 1 .. 4 /\ k \in Levels
  BY <1>4 DEF Levels
<1>6. s \in Nat \ {0} /\ n \in Nat \ {0} /\ a \in Nat
  BY <1>1, <1>4, <1>5, Spans, PagesType, Addresses
<1>7. /\ OnPath(walk, k) /\ J \in Vectors /\ Num(J) = a + count * s /\ (\A j \in 1 .. (k - 1) : J[j] = 0)
  BY <1>3 DEF AtEntry, OnPath
<1>8. Num(J) \in Nat
  BY <1>7, NumFacts
<1>9. k = 1 => s = 1
  BY Spans
<1>10. AtCursor(call) => k = 1
  BY <1>1, <1>2 DEF CursorCall
<1>11. ~AtCursor(call) => booted \in DOMAIN plan.boot
  BY <1>1, <1>2
<1>12. ~AtCursor(call) => Past(call) = a + n * s
  BY <1>3 DEF Past
<1>13. ~AtCursor(call) => call.va = address
  <2>1. SUFFICES ASSUME ~AtCursor(call) PROVE call.va = address
    OBVIOUS
  <2>2. call.va = First(call) * PageSize
    BY <1>1, <1>4, <1>5, <2>1, Aligned DEF First
  <2>3. QED
    BY <1>3, <2>1, <2>2
<1> HIDE DEF a, s, n, J
<1>14. count * s \in Nat
  BY <1>1, <1>6
<1>15. a + count * s + s <= a + n * s
  <2>1. PICK x \in Nat : x = count + 1
    BY <1>1
  <2>2. x * s <= n * s /\ x * s = count * s + s
    BY <1>1, <1>3, <1>6, <2>1, TimesMonotone
  <2>3. n * s \in Nat
    BY <1>6
  <2>4. QED
    BY <1>6, <1>14, <2>2, <2>3
<1>16. ~AtCursor(call) => Num(J) + s <= Past(call)
  BY <1>7, <1>12, <1>15
<1>17. AtPage(a, s, n)
  BY <1>1, <1>3, <1>4, <1>5, <1>6, <1>7, <1>8, <1>9, <1>10, <1>11, <1>12, <1>13, <1>14, <1>16 DEF AtPage, a, s, n, J
<1>18. QED
  BY <1>17

\* The frame for the page.
LEMMA PhysicalFrame ==
    ASSUME NEW pa \in Nat, NEW k \in 1 .. 4, NEW i \in Nat, pa % Size(k) = 0
    PROVE  (pa + i * Size(k)) \div PageSize = pa \div PageSize + i * Span(k)
<1> DEFINE P == PageSize
           s == Span(k)
           q == pa \div P
<1>1. P \in Nat \ {0} /\ s \in Nat \ {0} /\ Size(k) = P * s
  BY Sizes, Spans DEF Levels, Size
<1>2. q \in Nat /\ pa = q * P
  BY Addresses, Aligned
<1>3. PICK x \in Nat : x = q + i * s
  <2> HIDE DEF P, s, q
  <2>1. i * s \in Nat
    BY <1>1
  <2>2. QED
    BY <1>2, <2>1
<1>4. pa + i * Size(k) = x * P
  <2> HIDE DEF P, s, q
  <2>1. i * Size(k) = (i * s) * P /\ i * s \in Nat
    BY <1>1
  <2>2. PICK y \in Nat : y = i * s
    BY <2>1
  <2>3. (q + y) * P = q * P + y * P
    BY <1>1, <1>2
  <2>4. QED
    BY <1>2, <1>3, <2>1, <2>2, <2>3
<1>5. (x * P) \div P = x
  <2>1. 1 \in 1 .. 4
    OBVIOUS
  <2>2. QED
    BY <2>1, PageAddress
<1>6. QED
  BY <1>3, <1>4, <1>5

\* One page of paging_map and the like: its entry is written and the walk goes on to the next one.
Mapping(w, v, f, fs) ==
    LET k == call.level IN
    /\ Good(plan, w) /\ Good(plan, v) /\ Ext(w, v) /\ OnPath(v, k) /\ DOMAIN w.mem = DOMAIN walk.mem
    /\ f \in Nat /\ Changed(plan, walk.mem, w.mem, walk.idx, k, Leaf(f, k, call.user))
    /\ Num(v.idx) = Num(walk.idx) + Span(k) /\ (\A j \in 1 .. (k - 1) : v.idx[j] = 0) /\ Kind(plan, v.idx[4]) = k
    /\ AtCursor(call) => Clear(plan, v.idx[4])
    /\ Physical(call) => f = call.pa \div PageSize + count * Span(k) /\ fs = frames /\ w.brk = walk.brk
    /\ ~Physical(call) => f = walk.brk /\ fs = Append(frames, f) /\ w.brk = walk.brk + 1

\* The frame is taken, and its entry written.
LEMMA WritePage ==
    ASSUME KernelPlans, Inv, pc = "page", NEW a, NEW s, NEW n, AtPage(a, s, n), NEW own, NEW f, NEW w,
           own = IF Physical(call) THEN walk ELSE Reserve(walk),
           f = IF Physical(call) THEN (call.pa + count * Size(call.level)) \div PageSize ELSE walk.brk,
           w = Write(own, call.level, Leaf(f, call.level, call.user))
    PROVE  /\ Good(plan, w) /\ OnPath(w, call.level) /\ ~w.wild /\ DOMAIN w.mem = DOMAIN walk.mem
           /\ w.idx = walk.idx /\ w.tab = walk.tab /\ f \in Nat
           /\ Changed(plan, walk.mem, w.mem, walk.idx, call.level, Leaf(f, call.level, call.user))
           /\ Physical(call) => f = call.pa \div PageSize + count * s /\ w.brk = walk.brk
           /\ ~Physical(call) => f = walk.brk /\ w.brk = walk.brk + 1
<1> DEFINE k == call.level
<1>1. /\ call \in CallType /\ k \in 1 .. 3 /\ k \in 1 .. 4 /\ k \in Levels /\ count \in Nat /\ s = Span(k) /\ count * s \in Nat
      /\ Good(plan, walk) /\ OnPath(walk, k) /\ walk.idx \in Vectors /\ Kind(plan, walk.idx[4]) = k
      /\ Physical(call) => call.pa % Size(k) = 0
  BY DEF AtPage
<1>2. plan \in PlanType /\ KernelPlan(plan)
  BY PlanFacts DEF Inv
<1>3. call.user \in BOOLEAN /\ call.pa \in Nat
  BY <1>1 DEF CallType
<1>4. /\ Good(plan, own) /\ own.idx = walk.idx /\ own.tab = walk.tab /\ own.mem = walk.mem
      /\ f \in Nat
      /\ Physical(call) => f = call.pa \div PageSize + count * s /\ own.brk = walk.brk
      /\ ~Physical(call) => f = walk.brk /\ own.brk = walk.brk + 1
  <2>1. CASE Physical(call)
    <3>1. own = walk /\ f = (call.pa + count * Size(k)) \div PageSize
      BY <2>1
    <3>2. f = call.pa \div PageSize + count * s
      BY <1>1, <1>3, <2>1, <3>1, PhysicalFrame
    <3>3. call.pa \div PageSize \in Nat
      BY <1>3, Addresses
    <3>4. PICK q \in Nat : q = call.pa \div PageSize
      BY <3>3
    <3>5. PICK y \in Nat : y = count * s
      BY <1>1
    <3>6. f \in Nat /\ f = q + y
      BY <3>2, <3>4, <3>5
    <3>7. QED
      BY <1>1, <2>1, <3>1, <3>2, <3>6
  <2>2. CASE ~Physical(call)
    <3>1. own = Reserve(walk) /\ f = walk.brk
      BY <2>2
    <3>2. QED
      BY <1>1, <1>2, <2>2, <3>1, ReserveFacts
  <2>3. QED
    BY <2>1, <2>2
<1>5. PICK e : e = Leaf(f, k, call.user)
  OBVIOUS
<1>6. e \in EntryType /\ IsLeaf(e, k) /\ e.at = f
  BY <1>1, <1>3, <1>4, <1>5, Entries
<1>7. OnPath(own, k)
  BY <1>1, <1>4 DEF OnPath
<1>8. w = Write(own, k, e) /\ k = Kind(plan, own.idx[4])
  BY <1>1, <1>4, <1>5, <1>6
<1> HIDE DEF k
<1>9. /\ Good(plan, w) /\ OnPath(w, k) /\ w.idx = own.idx /\ w.tab = own.tab /\ w.brk = own.brk
      /\ ~w.wild /\ DOMAIN w.mem = DOMAIN own.mem /\ Changed(plan, own.mem, w.mem, own.idx, k, e)
  <2>1. k \in 1 .. 3 /\ Good(plan, own) /\ (e = Null \/ IsLeaf(e, k))
    BY <1>1, <1>4, <1>6, <1>8
  <2>2. QED
    BY ONLY <1>2, <1>6, <1>7, <1>8, <2>1, WriteFacts
<1>10. QED
  BY <1>4, <1>5, <1>9 DEF k

\* The walk goes on.
LEMMA AdvancePage ==
    ASSUME KernelPlans, Inv, pc = "page", NEW a, NEW s, NEW n, AtPage(a, s, n), NEW w,
           Good(plan, w), OnPath(w, call.level), w.idx = walk.idx, Carry(w, call.level) <= 4,
           NEW v, v = Advance(w, call.level)
    PROVE  /\ Good(plan, v) /\ OnPath(v, call.level) /\ Ext(w, v) /\ Num(v.idx) = Num(walk.idx) + s
           /\ \A j \in 1 .. (call.level - 1) : v.idx[j] = 0
           /\ Kind(plan, v.idx[4]) = call.level /\ (AtCursor(call) => Clear(plan, v.idx[4]))
<1> DEFINE k == call.level
           J == walk.idx
           B == After(w, k)
<1>1. /\ k \in 1 .. 3 /\ k \in 1 .. 4 /\ k \in Levels /\ s = Span(k) /\ s \in Nat \ {0} /\ J \in Vectors /\ Num(J) \in Nat
      /\ (\A j \in 1 .. (k - 1) : J[j] = 0)
      /\ AtCursor(call) => k = 1 /\ Placed(plan, walk)
      /\ ~AtCursor(call) => /\ booted \in DOMAIN plan.boot /\ call = plan.boot[booted] /\ a = First(call)
                            /\ Num(J) + s <= Past(call) /\ a <= Num(J)
  <2>1. a \in Nat /\ Num(J) = a + count * s /\ count * s \in Nat
    BY DEF AtPage
  <2>2. a <= Num(J)
    BY <2>1
  <2>3. QED
    BY <2>2 DEF AtPage
<1>2. plan \in PlanType /\ KernelPlan(plan)
  BY PlanFacts DEF Inv
<1>3. B \in Vectors /\ Num(B) = Num(J) + s
  BY <1>1, AfterFacts
<1>4. J[4] \in Nat /\ B[4] \in Nat
  BY <1>1, <1>3, VectorElements, Sizes
<1>5. AtCursor(call) => Clear(plan, B[4]) /\ Kind(plan, B[4]) = k
  <2>1. SUFFICES ASSUME AtCursor(call) PROVE Clear(plan, B[4]) /\ Kind(plan, B[4]) = 1
    BY <1>1
  <2>2. Num(J) <= Num(B)
    BY <1>1, <1>3
  <2>3. J[4] <= B[4]
    BY <1>1, <1>3, <2>2, NumOrder
  <2>4. Clear(plan, J[4])
    BY <1>1, <2>1 DEF Placed
  <2>5. Clear(plan, B[4])
    BY <1>2, <1>4, <2>3, <2>4, ClearFacts
  <2>6. QED
    BY <1>2, <1>4, <2>5, ClearFacts
<1>6. ~AtCursor(call) => J[4] = B[4] /\ Kind(plan, B[4]) = k
  <2>1. SUFFICES ASSUME ~AtCursor(call) PROVE J[4] = B[4] /\ Kind(plan, B[4]) = k
    OBVIOUS
  <2>2. /\ First(call) \in Nat /\ Past(call) \in Nat
        /\ \A I \in Vectors : First(call) <= Num(I) /\ Num(I) <= Past(call) =>
                 I[4] = SlotOf(call) /\ Kind(plan, I[4]) = call.level
    BY <1>1, <1>2, <2>1, BootFacts
  <2>3. First(call) <= Num(J) /\ Num(J) <= Past(call) /\ First(call) <= Num(B) /\ Num(B) <= Past(call)
    BY <1>1, <1>3, <2>1, <2>2
  <2>4. QED
    BY <1>1, <1>3, <2>2, <2>3
<1>7. Kind(plan, B[4]) = k
  BY <1>5, <1>6
<1>8. ~(k = 3 /\ Carry(w, k) = 4)
  <2>1. SUFFICES ASSUME k = 3, Carry(w, k) = 4 PROVE FALSE
    OBVIOUS
  <2>2. B[4] = J[4] + 1
    BY <2>1, Sizes DEF After
  <2>3. J[4] = B[4]
    BY <1>1, <1>6, <2>1
  <2>4. QED
    BY <1>4, <2>2, <2>3
<1>9. v = AdvanceWrapping(w, k)
  BY <1>8 DEF Advance, AdvanceWrapping
<1>10. Kind(plan, B[4]) <= k
  BY <1>1, <1>7
<1>11. /\ Good(plan, v) /\ OnPath(v, k) /\ Ext(w, v) /\ v.idx = B
       /\ Num(v.idx) = Num(w.idx) + Span(k)
       /\ \A j \in 1 .. (k - 1) : v.idx[j] = w.idx[j]
  BY <1>1, <1>2, <1>9, <1>10, AdvanceFacts
<1>12. QED
  BY <1>1, <1>5, <1>7, <1>11

\* One step of it writes an empty entry and moves to the next one.
LEMMA MapFacts ==
    ASSUME KernelPlans, Inv, Room', MapPage
    PROVE  \E w, v, f, fs :
              /\ Mapping(w, v, f, fs)
              /\ IF More(Pages(call.bytes, call.level))
                 THEN Continue(call, v, "page") /\ count' = count + 1 /\ frames' = fs /\ UNCHANGED address
                 ELSE /\ Return(call, v, address)
                      /\ used_virtual_pages' = (used_virtual_pages + SmallPages(Pages(call.bytes, call.level), call.level)) % Modulus
                      /\ regions' = Told(call, Region(call, address, fs))
<1> DEFINE k == call.level
           N == Pages(call.bytes, k)
<1>1. pc = "page"
  BY DEF MapPage
<1>2. PICK a, s, n : AtPage(a, s, n)
  BY <1>1, PageFacts
<1>3. PICK own : own = IF Physical(call) THEN walk ELSE Reserve(walk)
  OBVIOUS
<1>4. PICK f : f = IF Physical(call) THEN (call.pa + count * Size(k)) \div PageSize ELSE walk.brk
  OBVIOUS
<1>5. PICK w : w = Write(own, k, Leaf(f, k, call.user))
  OBVIOUS
<1>6. PICK fs : fs = IF Physical(call) THEN frames ELSE Append(frames, f)
  OBVIOUS
<1>7. PICK v : v = Advance(w, k)
  OBVIOUS
<1>8. IF w.wild THEN Proceed(call, w, "page")
      ELSE IF Carry(w, k) = 5 THEN Fail(call, Ended(w, k))
      ELSE IF More(N)
      THEN Continue(call, v, "page") /\ count' = count + 1 /\ frames' = fs /\ UNCHANGED address
      ELSE /\ Return(call, v, address)
           /\ used_virtual_pages' = (used_virtual_pages + SmallPages(N, k)) % Modulus
           /\ regions' = Told(call, Region(call, address, fs))
  <2>1. /\ w = Write(IF Physical(call) THEN walk ELSE [walk EXCEPT !.brk = @ + 1], k,
                     Leaf(IF Physical(call) THEN (call.pa + count * Size(k)) \div PageSize ELSE walk.brk, k, call.user))
        /\ fs = IF Physical(call) THEN frames
                ELSE Append(frames, IF Physical(call) THEN (call.pa + count * Size(k)) \div PageSize ELSE walk.brk)
        /\ v = Advance(w, k)
    BY <1>3, <1>4, <1>5, <1>6, <1>7 DEF Reserve
  <2>2. QED
    BY ONLY <2>1, MapPage DEF MapPage, k, N
<1>9. /\ Good(plan, w) /\ OnPath(w, k) /\ ~w.wild /\ DOMAIN w.mem = DOMAIN walk.mem
      /\ w.idx = walk.idx /\ w.tab = walk.tab /\ f \in Nat
      /\ Changed(plan, walk.mem, w.mem, walk.idx, k, Leaf(f, k, call.user))
      /\ Physical(call) => f = call.pa \div PageSize + count * s /\ w.brk = walk.brk
      /\ ~Physical(call) => f = walk.brk /\ w.brk = walk.brk + 1
  BY <1>1, <1>2, <1>3, <1>4, <1>5, WritePage
<1>10. /\ k \in 1 .. 3 /\ k \in 1 .. 4 /\ k \in Levels /\ s = Span(k) /\ s \in Nat \ {0}
       /\ walk.idx \in Vectors /\ Num(walk.idx) \in Nat
       /\ AtCursor(call) => k = 1
       /\ ~AtCursor(call) => /\ booted \in DOMAIN plan.boot /\ call = plan.boot[booted] /\ Num(walk.idx) + s <= Past(call)
  BY <1>2 DEF AtPage
<1>11. plan \in PlanType /\ KernelPlan(plan)
  BY PlanFacts DEF Inv
<1>12. Carry(w, k) <= 4
  <2>1. Carry(w, k) \in k .. 5
    <3>1. w.idx \in [Levels -> Nat]
      BY <1>9, <1>10, Sizes DEF Vectors
    <3>2. QED
      BY <1>10, <3>1, CarryFacts
  <2>2. CASE ~AtCursor(call)
    <3>1. Past(call) \in AllPages /\ Past(call) \in Nat
      BY <1>10, <1>11, <2>2, BootFacts
    <3>2. Num(walk.idx) + s \in AllPages
      BY <1>10, <2>2, <3>1, SpaceSize DEF AllPages
    <3>3. QED
      BY <1>9, <1>10, <3>2, CarryEnd
  <2>3. CASE AtCursor(call)
    <3>1. SUFFICES ASSUME Carry(w, k) = 5 PROVE FALSE
      BY <1>10, <2>1
    <3>2. Return(call, Ended(w, k), 0)
      BY <1>8, <1>9, <3>1 DEF Fail
    <3>3. context'.idx = Ended(w, k).idx
      BY <2>3, <3>2 DEF Return
    <3>4. Ended(w, k).idx = [j \in Levels |-> IF j < k THEN w.idx[j] ELSE TableEntries]
      <4>1. w = [idx |-> w.idx, tab |-> w.tab, mem |-> w.mem, brk |-> w.brk, wild |-> w.wild]
        BY <1>9 DEF Good, IsWalk
      <4>2. PICK x : x = [j \in Levels |-> IF j < k THEN w.idx[j] ELSE TableEntries]
        OBVIOUS
      <4>3. [w EXCEPT !.idx = x].idx = x
        BY <4>1
      <4>4. QED
        BY <4>2, <4>3 DEF Ended
    <3>5. context'.idx[1] = TableEntries
      BY <1>10, <2>3, <3>3, <3>4 DEF Levels
    <3>6. context'.idx[1] < TableEntries
      BY DEF Room
    <3>7. QED
      BY <3>5, <3>6, Sizes
  <2>4. QED
    BY <2>2, <2>3
<1>13. /\ Good(plan, v) /\ OnPath(v, k) /\ Ext(w, v) /\ Num(v.idx) = Num(walk.idx) + s
       /\ \A j \in 1 .. (k - 1) : v.idx[j] = 0
       /\ Kind(plan, v.idx[4]) = k /\ (AtCursor(call) => Clear(plan, v.idx[4]))
  BY <1>1, <1>2, <1>7, <1>9, <1>12, AdvancePage
<1>14. Mapping(w, v, f, fs)
  BY <1>6, <1>9, <1>10, <1>13 DEF Mapping
<1>15. Carry(w, k) # 5
  BY <1>10, <1>12
<1>16. QED
  BY <1>8, <1>9, <1>14, <1>15

\* What a page that is mapped changes in the tables.
LEMMA MapTables ==
    ASSUME KernelPlans, Inv, pc = "page", NEW a, NEW s, NEW n, AtPage(a, s, n),
           NEW w, NEW v, NEW f, NEW fs, Mapping(w, v, f, fs)
    PROVE  /\ \A I \in Vectors : /\ Num(I) \in Nat
                                 /\ Agree(I, walk.idx, call.level) <=> (Num(walk.idx) <= Num(I) /\ Num(I) < Num(walk.idx) + s)
                                 /\ Agree(I, walk.idx, call.level) => F1(walk.mem, I) = Null
                                 /\ Agree(I, walk.idx, call.level) => F1(v.mem, I) = Leaf(f, call.level, call.user)
                                 /\ ~Agree(I, walk.idx, call.level) => F1(v.mem, I) = F1(walk.mem, I)
           /\ Count(v.mem) = Count(walk.mem) + s
           /\ Leaf(f, call.level, call.user) # Null /\ Leaf(f, call.level, call.user).at = f
<1> DEFINE k == call.level
           J == walk.idx
           e == Leaf(f, k, call.user)
<1>1. /\ call \in CallType /\ k \in 1 .. 3 /\ k \in 1 .. 4 /\ k \in Levels /\ s = Span(k) /\ s \in Nat \ {0} /\ J \in Vectors /\ Num(J) \in Nat
      /\ (\A j \in 1 .. (k - 1) : J[j] = 0)
      /\ AtCursor(call) => k = 1 /\ s = 1 /\ Placed(plan, walk)
      /\ ~AtCursor(call) => booted \in DOMAIN plan.boot /\ call = plan.boot[booted] /\ Num(J) + s <= Past(call) /\ Free(walk.mem, Num(J), Past(call))
  BY DEF AtPage
<1>2. plan \in PlanType /\ KernelPlan(plan)
  BY PlanFacts DEF Inv
<1>3. f \in Nat /\ Changed(plan, walk.mem, w.mem, J, k, e) /\ Grown(w.mem, v.mem)
  BY DEF Mapping, Ext
<1>4. e # Null /\ e.at = f
  BY <1>1, <1>3, Entries DEF CallType
<1>5. \A I \in Vectors : Num(I) \in Nat /\ (Agree(I, J, k) <=> (Num(J) <= Num(I) /\ Num(I) < Num(J) + s))
  BY <1>1, SameEntry, NumFacts DEF Agree
<1> HIDE DEF e
<1>6. \A I \in Vectors : /\ Agree(I, J, k) => F1(v.mem, I) = e
                         /\ ~Agree(I, J, k) => F1(v.mem, I) = F1(walk.mem, I)
  <2>1. \A I \in Vectors : F1(v.mem, I) = F1(w.mem, I)
    BY <1>3 DEF Grown
  <2>2. \A I \in Vectors : F1(w.mem, I) = IF Agree(I, J, k) THEN e ELSE F1(walk.mem, I)
    BY <1>3 DEF Changed
  <2>3. QED
    BY <2>1, <2>2
<1>7. ASSUME NEW I \in Vectors, Agree(I, J, k) PROVE F1(walk.mem, I) = Null
  <2>1. Num(I) \in Nat /\ Num(J) <= Num(I) /\ Num(I) < Num(J) + s
    BY <1>5, <1>7
  <2>2. CASE AtCursor(call)
    <3>1. I[4] = J[4]
      BY <1>1, <1>7 DEF Agree
    <3>2. Clear(plan, J[4]) /\ Ahead(plan, walk.mem, Num(J))
      BY <1>1, <2>2 DEF Placed
    <3>3. QED
      BY <2>1, <3>1, <3>2 DEF Ahead
  <2>3. CASE ~AtCursor(call)
    <3>1. Past(call) \in Nat
      BY <1>1, <1>2, <2>3, BootFacts
    <3>2. Num(I) < Past(call)
      BY <1>1, <2>1, <2>3, <3>1
    <3>3. QED
      BY <1>1, <2>1, <2>3, <3>2 DEF Free
  <2>4. QED
    BY <2>2, <2>3
<1>8. Count(v.mem) = Count(walk.mem) + s
  <2>1. \A I \in Vectors : Agree(I, J, k) => F1(walk.mem, I) = Null /\ F1(v.mem, I) # Null
    BY <1>4, <1>6, <1>7
  <2>2. \A I \in Vectors : ~Agree(I, J, k) => F1(v.mem, I) = F1(walk.mem, I)
    BY <1>6
  <2>3. QED
    BY <1>1, <2>1, <2>2, CountMore
<1>9. QED
  BY <1>4, <1>5, <1>6, <1>7, <1>8 DEF e

\* The pages mapped so far have the frames they should.
LEMMA MapHolds ==
    ASSUME KernelPlans, Inv, pc = "page", NEW a, NEW s, NEW n, AtPage(a, s, n),
           NEW w, NEW v, NEW f, NEW fs, Mapping(w, v, f, fs)
    PROVE  /\ \A I \in Vectors : Within(I, a, Num(v.idx)) =>
                 Holds(plan, v.mem, I, call.level, FrameFor(call, fs, Num(I) - a))
           /\ ~Physical(call) => Len(fs) = count + 1
<1> DEFINE k == call.level
           J == walk.idx
           e == Leaf(f, k, call.user)
<1>1. /\ k \in 1 .. 3 /\ k \in 1 .. 4 /\ k \in Levels /\ s = Span(k) /\ s \in Nat \ {0} /\ J \in Vectors /\ Num(J) \in Nat
      /\ (\A j \in 1 .. (k - 1) : J[j] = 0) /\ Kind(plan, J[4]) = k
      /\ a = address \div PageSize /\ a \in Nat /\ count \in Nat /\ count * s \in Nat /\ Num(J) = a + count * s
      /\ ~Physical(call) => s = 1 /\ Len(frames) = count
  BY DEF AtPage
<1>2. frames \in Seq(Nat) /\ call.pa \in Nat
  BY DEF Inv, TypeInv, CallType
<1>3. /\ Num(v.idx) = Num(J) + s /\ f \in Nat
      /\ Physical(call) => f = call.pa \div PageSize + count * s /\ fs = frames
      /\ ~Physical(call) => fs = Append(frames, f)
  BY <1>1 DEF Mapping
<1>4. \A I \in Vectors : /\ Num(I) \in Nat
                         /\ Agree(I, J, k) <=> (Num(J) <= Num(I) /\ Num(I) < Num(J) + s)
                         /\ Agree(I, J, k) => F1(v.mem, I) = e
                         /\ ~Agree(I, J, k) => F1(v.mem, I) = F1(walk.mem, I)
  BY MapTables
<1>5. e # Null /\ e.at = f
  BY MapTables
<1>6. \A I \in Vectors : Within(I, a, Num(J)) => Holds(plan, walk.mem, I, k, FrameFor(call, frames, Num(I) - a))
  BY <1>1 DEF Inv, PageInv
<1>7. ~Physical(call) => /\ Len(fs) = count + 1 /\ fs[count + 1] = f
                         /\ \A i \in 1 .. count : fs[i] = frames[i]
  <2>1. SUFFICES ASSUME ~Physical(call)
                 PROVE  Len(fs) = count + 1 /\ fs[count + 1] = f /\ \A i \in 1 .. count : fs[i] = frames[i]
    OBVIOUS
  <2>2. fs = Append(frames, f) /\ Len(frames) = count /\ f \in Nat /\ count \in Nat
    BY <1>1, <1>3, <2>1
  <2>3. QED
    BY ONLY <1>2, <2>2
<1>8. call.pa \div PageSize \in Nat
  BY <1>2, Addresses
<1> HIDE DEF k, J, e
<1>9. ASSUME NEW I \in Vectors, Within(I, a, Num(v.idx))
      PROVE  Holds(plan, v.mem, I, k, FrameFor(call, fs, Num(I) - a))
  <2>1. Num(I) \in Nat /\ a <= Num(I) /\ Num(I) < Num(J) + s
    BY <1>3, <1>4, <1>9 DEF Within
  <2>2. CASE Num(I) < Num(J)
    <3>1. Holds(plan, walk.mem, I, k, FrameFor(call, frames, Num(I) - a))
      BY <1>6, <2>1, <2>2 DEF Within
    <3>2. FrameFor(call, frames, Num(I) - a) = FrameFor(call, fs, Num(I) - a)
      <4>1. CASE Physical(call)
        BY <4>1 DEF FrameFor
      <4>2. CASE ~Physical(call)
        <5>1. count * s = count
          BY <1>1, <4>2
        <5>2. Num(J) = a + count
          BY <1>1, <5>1
        <5>3. a \in Nat /\ count \in Nat
          BY <1>1
        <5>4. (Num(I) - a) + 1 \in 1 .. count
          BY ONLY <2>1, <2>2, <5>2, <5>3
        <5>5. QED
          BY <1>7, <4>2, <5>4 DEF FrameFor
      <4>3. QED
        BY <4>1, <4>2
    <3>3. F1(v.mem, I) = F1(walk.mem, I)
      BY <1>1, <1>4, <2>1, <2>2
    <3>4. QED
      BY <3>1, <3>2, <3>3 DEF Holds
  <2>3. CASE ~(Num(I) < Num(J))
    <3>1. Num(J) <= Num(I) /\ Agree(I, J, k)
      BY <1>1, <1>4, <2>1, <2>3
    <3>2. F1(v.mem, I) = e /\ I[4] = J[4]
      <4>1. 4 \in k .. 4
        BY <1>1
      <4>2. QED
        BY <1>4, <3>1, <4>1 DEF Agree
    <3>3. Num(I) % s = Num(I) - Num(J)
      BY <1>1, <2>1, <3>1, EntryInside
    <3>4. f + (Num(I) - Num(J)) = FrameFor(call, fs, Num(I) - a)
      <4>1. CASE Physical(call)
        <5>1. PICK q \in Nat : q = call.pa \div PageSize
          BY <1>8
        <5>2. PICK y \in Nat : y = count * s
          BY <1>1
        <5>3. f = q + y /\ Num(J) = a + y
          BY <1>1, <1>3, <4>1, <5>1, <5>2
        <5>4. f + (Num(I) - Num(J)) = q + (Num(I) - a)
          BY ONLY <1>1, <2>1, <5>3, q \in Nat, y \in Nat
        <5>5. QED
          BY <4>1, <5>1, <5>4 DEF FrameFor
      <4>2. CASE ~Physical(call)
        <5>1. count * s = count /\ s = 1
          BY <1>1, <4>2
        <5>2. Num(I) = Num(J) /\ Num(I) - a = count
          BY <1>1, <2>1, <3>1, <5>1
        <5>3. FrameFor(call, fs, count) = f
          BY <1>7, <4>2 DEF FrameFor
        <5>4. Num(I) - Num(J) = 0
          BY <2>1, <5>2
        <5>5. f + 0 = f
          BY <1>3
        <5>6. QED
          BY <5>2, <5>3, <5>4, <5>5
      <4>3. QED
        BY <4>1, <4>2
    <3>5. e.at + (Num(I) % Span(k)) = FrameFor(call, fs, Num(I) - a)
      BY <1>1, <1>5, <3>3, <3>4
    <3>6. QED
      BY <1>1, <1>5, <3>2, <3>5 DEF Holds
  <2>4. QED
    BY <2>2, <2>3
<1>10. QED
  BY <1>7, <1>9 DEF k

\* The other regions, the calls still to come and the cursor are not disturbed.
LEMMA MapKeeps ==
    ASSUME KernelPlans, Inv, pc = "page", NEW a, NEW s, NEW n, AtPage(a, s, n),
           NEW w, NEW v, NEW f, NEW fs, Mapping(w, v, f, fs)
    PROVE  /\ \A r \in regions : Framed(plan, r) /\ Tabled(plan, v.mem, r) /\ Backed(plan, v.mem, r)
           /\ \A r \in regions : PastOf(plan, r) <= a \/ Num(v.idx) <= FirstOf(r)
           /\ BootOK(plan, v.mem, booted)
           /\ AtCursor(call) => Placed(plan, v)
           /\ ~AtCursor(call) => Cur(plan, Over(v, context)) /\ Free(v.mem, Num(v.idx), Past(call))
           /\ Unshared(v, fs) /\ \A r \in regions : r.physical \/ Unshared(v, r.frames)
<1> DEFINE k == call.level
           J == walk.idx
           e == Leaf(f, k, call.user)
<1>1. /\ k \in 1 .. 3 /\ k \in 1 .. 4 /\ k \in Levels /\ s = Span(k) /\ s \in Nat \ {0} /\ J \in Vectors /\ Num(J) \in Nat
      /\ AtCursor(call) => k = 1 /\ Placed(plan, walk) /\ booted = Len(plan.boot)
      /\ ~AtCursor(call) => /\ booted \in DOMAIN plan.boot /\ call = plan.boot[booted] /\ a = First(call) /\ a <= Num(J)
                            /\ Num(J) + s <= Past(call) /\ Free(walk.mem, Num(J), Past(call))
      /\ Good(plan, walk)
  <2>1. a \in Nat /\ Num(J) = a + count * s /\ count * s \in Nat
    BY DEF AtPage
  <2>2. a <= Num(J)
    BY <2>1
  <2>3. QED
    BY <2>2 DEF AtPage
<1>2. /\ plan \in PlanType /\ KernelPlan(plan) /\ booted \in 0 .. Len(plan.boot)
      /\ DOMAIN plan.boot = 1 .. Len(plan.boot) /\ Len(plan.boot) \in Nat
  BY PlanFacts DEF Inv
<1>3. /\ Num(v.idx) = Num(J) + s /\ f \in Nat /\ Good(plan, w) /\ Good(plan, v) /\ Ext(w, v) /\ DOMAIN w.mem = DOMAIN walk.mem
      /\ Changed(plan, walk.mem, w.mem, J, k, e) /\ Grown(w.mem, v.mem) /\ OnPath(v, k)
      /\ AtCursor(call) => Clear(plan, v.idx[4])
      /\ Physical(call) => fs = frames /\ w.brk = walk.brk
      /\ ~Physical(call) => f = walk.brk /\ fs = Append(frames, f) /\ w.brk = walk.brk + 1
  BY <1>1 DEF Mapping, Ext
<1>4. \A I \in Vectors : /\ Num(I) \in Nat
                         /\ Agree(I, J, k) <=> (Num(J) <= Num(I) /\ Num(I) < Num(J) + s)
                         /\ Agree(I, J, k) => F1(walk.mem, I) = Null
                         /\ ~Agree(I, J, k) => F1(v.mem, I) = F1(walk.mem, I)
  BY MapTables
<1> HIDE DEF k, J, e
<1>5. ASSUME NEW r \in regions PROVE Framed(plan, r) /\ Tabled(plan, v.mem, r) /\ Backed(plan, v.mem, r)
  <2>1. Framed(plan, r) /\ Tabled(plan, walk.mem, r) /\ Backed(plan, walk.mem, r)
    BY DEF Inv, RegionInv
  <2>2. \A I \in Vectors : Within(I, FirstOf(r), PastOf(plan, r)) => ~Agree(I, J, k)
    BY <1>4, <2>1 DEF Backed
  <2>3. Backed(plan, w.mem, r)
    BY <1>3, <2>1, <2>2, ChangedBacked
  <2>4. Tabled(plan, w.mem, r)
    BY <1>2, <1>3, <2>1, ChangedTabled
  <2>5. QED
    BY <1>2, <1>3, <2>1, <2>3, <2>4, GrownKeeps
<1>6. ASSUME NEW r \in regions PROVE PastOf(plan, r) <= a \/ Num(v.idx) <= FirstOf(r)
  <2>1. PastOf(plan, r) <= a \/ Num(J) <= FirstOf(r)
    BY DEF Inv, PageInv, AtPage, J
  <2>2. r \in RegionType /\ Framed(plan, r) /\ Backed(plan, walk.mem, r)
    BY DEF Inv, RegionInv, TypeInv
  <2>3. FirstOf(r) \in Nat /\ FirstOf(r) \in AllPages /\ FirstOf(r) < PastOf(plan, r)
    BY <1>2, <2>2, RegionFacts
  <2>4. Digits(FirstOf(r)) \in Vectors /\ Num(Digits(FirstOf(r))) = FirstOf(r)
    BY <2>3, NumOfDigits
  <2>5. F1(walk.mem, Digits(FirstOf(r))) # Null
    BY <2>2, <2>3, <2>4 DEF Backed, Within
  <2>6. ~(Num(J) <= FirstOf(r) /\ FirstOf(r) < Num(J) + s)
    BY <1>4, <2>4, <2>5
  <2>7. QED
    BY <1>1, <1>3, <2>1, <2>3, <2>6
<1>7. BootOK(plan, v.mem, booted)
  <2>1. BootOK(plan, walk.mem, booted)
    BY DEF Inv
  <2>2. \A i \in (booted + 1) .. Len(plan.boot) : \A I \in Vectors :
            Within(I, First(plan.boot[i]), Past(plan.boot[i])) => ~Agree(I, J, k)
    <3>1. SUFFICES ASSUME NEW i \in (booted + 1) .. Len(plan.boot), NEW I \in Vectors,
                          Within(I, First(plan.boot[i]), Past(plan.boot[i])), Agree(I, J, k)
                   PROVE  FALSE
      OBVIOUS
    <3>2. ~AtCursor(call) /\ i \in DOMAIN plan.boot /\ i # booted
      BY <1>1, <1>2
    <3>3. Past(plan.boot[i]) <= First(call) \/ Past(call) <= First(plan.boot[i])
      BY <1>1, <1>2, <3>2 DEF KernelPlan
    <3>4. First(call) \in Nat /\ Past(call) \in Nat /\ First(plan.boot[i]) \in Nat /\ Past(plan.boot[i]) \in Nat
      BY <1>1, <1>2, <3>2, BootFacts
    <3>5. Num(I) \in Nat /\ Num(J) <= Num(I) /\ Num(I) < Num(J) + s
      BY <1>4, <3>1
    <3>6. First(call) <= Num(I) /\ Num(I) < Past(call)
      BY <1>1, <3>2, <3>4, <3>5
    <3>7. QED
      BY <3>1, <3>3, <3>4, <3>5, <3>6 DEF Within
  <2>3. BootOK(plan, w.mem, booted)
    BY <1>2, <1>3, <2>1, <2>2, ChangedBoot
  <2>4. QED
    BY <1>2, <1>3, <2>3, GrownBoot
<1>8. ASSUME AtCursor(call) PROVE Placed(plan, v)
  <2>1. Ahead(plan, walk.mem, Num(J)) /\ k = 1
    BY <1>1, <1>8 DEF Placed, J
  <2>2. Ahead(plan, v.mem, Num(v.idx))
    BY <1>1, <1>3, <1>4, <2>1 DEF Ahead
  <2>3. QED
    BY <1>3, <1>8, <2>1, <2>2 DEF Placed
<1>9. ASSUME ~AtCursor(call) PROVE Free(v.mem, Num(v.idx), Past(call))
  BY <1>1, <1>3, <1>4, <1>9 DEF Free
<1>10. ASSUME ~AtCursor(call) PROVE Cur(plan, Over(v, context))
  <2>1. PICK x : x = Over(walk, context)
    OBVIOUS
  <2>2. PICK y : y = Over(w, context)
    OBVIOUS
  <2>3. PICK z : z = Over(v, context)
    OBVIOUS
  <2>4. context \in Cursor
    BY DEF Inv, TypeInv
  <2>5. x.idx = context.idx /\ x.tab = context.tab /\ x.mem = walk.mem
    BY <1>1, <2>1, <2>4, OverFacts
  <2>6. y.idx = context.idx /\ y.tab = context.tab /\ y.mem = w.mem /\ y.brk = w.brk
    BY <1>3, <2>2, <2>4, OverFacts
  <2>7. z.idx = context.idx /\ z.tab = context.tab /\ z.mem = v.mem /\ z.brk = v.brk
    BY <1>3, <2>3, <2>4, OverFacts
  <2>8. Cur(plan, x)
    BY <1>10, <2>1 DEF Inv, ContextInv, AtContext, Over
  <2>9. ~Clear(plan, J[4])
    <3>1. /\ First(call) \in Nat /\ Past(call) \in Nat
          /\ \A I \in Vectors : First(call) <= Num(I) /\ Num(I) <= Past(call) => ~Clear(plan, I[4])
      BY <1>1, <1>2, <1>10, BootFacts
    <3>2. First(call) <= Num(J) /\ Num(J) <= Past(call)
      BY <1>1, <1>10, <3>1
    <3>3. QED
      BY <1>1, <3>1, <3>2
  <2>10. Cur(plan, y)
    BY <1>1, <1>2, <1>3, <2>5, <2>6, <2>8, <2>9, ChangedCur
  <2>11. Ext(y, z)
    BY <1>3, <2>6, <2>7 DEF Ext
  <2>12. Cur(plan, z)
    BY <1>2, <2>6, <2>7, <2>10, <2>11, ExtCur
  <2>13. QED
    BY <2>3, <2>12
<1>11. Unshared(v, fs) /\ \A r \in regions : r.physical \/ Unshared(v, r.frames)
  <2>1. walk.brk \in Nat /\ walk.brk \notin DOMAIN walk.mem
    <3>1. IsMem(walk.mem, walk.brk)
      BY <1>1 DEF Good, IsWalk
    <3>2. QED
      BY <3>1, MemType
  <2>2. w.brk \in Nat /\ walk.brk <= w.brk
    BY <1>3, <2>1
  <2>3. Unshared(walk, frames) /\ \A r \in regions : r.physical \/ Unshared(walk, r.frames)
    BY DEF Inv, FramesInv
  <2>4. frames \in Seq(Nat) /\ \A r \in regions : r.frames \in Seq(Nat)
    BY DEF Inv, TypeInv, RegionType
  <2>5. \A t \in Seq(Nat) : Unshared(walk, t) => Unshared(w, t)
    <3>1. SUFFICES ASSUME NEW t \in Seq(Nat), Unshared(walk, t), NEW i \in DOMAIN t
                   PROVE  t[i] < w.brk /\ t[i] \notin DOMAIN w.mem
      BY DEF Unshared
    <3>2. t[i] \in Nat /\ t[i] < walk.brk /\ t[i] \notin DOMAIN walk.mem
      BY <3>1 DEF Unshared
    <3>3. QED
      BY <1>3, <2>1, <2>2, <3>2
  <2>6. fs \in Seq(Nat) /\ Unshared(w, fs)
    <3>1. CASE Physical(call)
      BY <1>3, <2>3, <2>4, <2>5, <3>1
    <3>2. CASE ~Physical(call)
      <4>1. fs = Append(frames, f) /\ f = walk.brk /\ w.brk = walk.brk + 1
        BY <1>3, <3>2
      <4>2. Unshared(w, frames)
        BY <2>3, <2>4, <2>5
      <4>3. f < w.brk /\ f \notin DOMAIN w.mem
        BY <1>3, <2>1, <4>1
      <4>4. /\ fs \in Seq(Nat)
            /\ \A i \in DOMAIN fs : fs[i] = f \/ (i \in DOMAIN frames /\ fs[i] = frames[i])
        BY ONLY <1>3, <2>4, <4>1
      <4>5. QED
        BY <4>2, <4>3, <4>4 DEF Unshared
    <3>3. QED
      BY <3>1, <3>2
  <2>7. QED
    BY <1>3, <2>3, <2>4, <2>5, <2>6, ExtUnshared
<1>12. QED
  BY <1>5, <1>6, <1>7, <1>8, <1>9, <1>10, <1>11

\* The region of a call that has mapped all its pages.
LEMMA NewRegion ==
    ASSUME KernelPlans, AddressesFit, Inv, pc = "page", NEW a, NEW s, NEW n, AtPage(a, s, n),
           NEW w, NEW v, NEW f, NEW fs, Mapping(w, v, f, fs), n = count + 1, NEW r, r = Region(call, address, fs)
    PROVE  /\ Framed(plan, r) /\ Tabled(plan, v.mem, r) /\ Backed(plan, v.mem, r)
           /\ FirstOf(r) = a /\ PastOf(plan, r) = Num(v.idx)
           /\ r.physical \/ Unshared(v, r.frames)
<1> DEFINE k == call.level
           N == Pages(call.bytes, 1)
           x == call.pa \div PageSize
<1>1. /\ k \in 1 .. 3 /\ k \in 1 .. 4 /\ k \in Levels /\ s = Span(k) /\ s \in Nat \ {0} /\ walk.idx \in Vectors
      /\ a \in Nat /\ address = a * PageSize /\ n = Pages(call.bytes, k) /\ count \in Nat /\ count * s \in Nat
      /\ Num(walk.idx) = a + count * s /\ call \in CallType /\ n \in Nat \ {0}
      /\ ~Physical(call) => k = 1 /\ s = 1 /\ Len(frames) = count
      /\ AtCursor(call) => k = 1 /\ s = 1 /\ Clear(plan, Digits(a)[4]) /\ call \in plan.calls
      /\ ~AtCursor(call) => booted \in DOMAIN plan.boot /\ call = plan.boot[booted] /\ a = First(call) /\ address % Size(k) = 0
  BY DEF AtPage
<1>2. /\ plan \in PlanType /\ KernelPlan(plan) /\ \A c \in plan.calls : CursorCall(c)
  BY PlanFacts DEF Inv
<1>3. /\ call.pa \in Nat /\ call.bytes \in Nat
  BY <1>1 DEF CallType
<1>4. /\ r.va = address /\ r.bytes = call.bytes
      /\ r.frames = IF Physical(call) THEN [i \in 1 .. N |-> x + i - 1] ELSE fs
  BY DEF Region
<1>5. /\ Num(v.idx) = Num(walk.idx) + s /\ OnPath(v, k) /\ v.idx \in Vectors /\ Kind(plan, v.idx[4]) = k /\ Ext(w, v) /\ Good(plan, v)
  BY <1>1 DEF Mapping, OnPath
<1>6. FirstOf(r) = a /\ address \in Nat
  <2>1. 1 \in 1 .. 4
    OBVIOUS
  <2>2. (a * PageSize) \div PageSize = a /\ a * PageSize \in Nat
    BY <1>1, <2>1, PageAddress
  <2>3. QED
    BY <1>1, <1>4, <2>2 DEF FirstOf
<1>7. Num(v.idx) = a + n * s /\ n * s \in Nat /\ Num(v.idx) \in AllPages /\ Num(v.idx) \in Nat
  <2>1. count \in Nat /\ s \in Nat /\ n = count + 1
    BY <1>1
  <2>2. PICK y \in Nat, z \in Nat : y = count * s /\ z = n * s /\ z = y + s
    BY ONLY <2>1, Successor
  <2>3. Num(v.idx) \in AllPages /\ Num(v.idx) \in Nat
    BY <1>5, NumFacts
  <2>4. Num(v.idx) = Num(walk.idx) + s /\ Num(walk.idx) = a + count * s /\ a \in Nat
    BY <1>1, <1>5
  <2>5. Num(v.idx) = a + y + s
    BY ONLY <2>2, <2>4
  <2>6. Num(v.idx) = a + z
    BY ONLY <2>1, <2>2, <2>4, <2>5
  <2>7. QED
    BY ONLY <2>2, <2>3, <2>6
<1>8. a \in AllPages
  <2>1. PICK z \in Nat : Num(v.idx) = a + z
    BY <1>7
  <2>2. a \in Nat /\ Num(v.idx) \in AllPages /\ TableEntries * Span(4) \in Nat
    BY <1>1, <1>7, SpaceSize
  <2>3. QED
    BY ONLY <2>1, <2>2 DEF AllPages
<1>9. KindOf(plan, r) = k
  <2>1. address \div Size(4) = Digits(a)[4]
    <3>1. address \div Size(4) = (address \div PageSize) \div Span(4)
      BY <1>6, Addresses
    <3>2. address \div PageSize = a
      BY <1>4, <1>6 DEF FirstOf
    <3>3. a \div Span(4) = Digits(a)[4]
      BY <1>1, <1>8, SlotFacts
    <3>4. QED
      BY <3>1, <3>2, <3>3
  <2>2. Kind(plan, Digits(a)[4]) = k
    <3>1. CASE AtCursor(call)
      <4>1. Digits(a)[4] \in Nat
        BY <1>8, NumOfDigits, VectorElements, Sizes
      <4>2. QED
        BY <1>1, <1>2, <3>1, <4>1, ClearFacts
    <3>2. CASE ~AtCursor(call)
      <4>1. booted \in DOMAIN plan.boot /\ call = plan.boot[booted] /\ a = First(call)
        BY <1>1, <3>2
      <4>2. Digits(First(call))[4] = SlotOf(call)
        BY ONLY <1>2, <4>1, BootFacts
      <4>3. Kind(plan, SlotOf(call)) = call.level
        BY ONLY <1>2, <4>1, BootKind
      <4>4. QED
        BY <4>1, <4>2, <4>3
    <3>3. QED
      BY <3>1, <3>2
  <2>3. QED
    BY <1>4, <2>1, <2>2 DEF KindOf
<1>10. PastOf(plan, r) = Num(v.idx)
  BY <1>1, <1>4, <1>6, <1>7, <1>9 DEF PastOf
<1>11. call.bytes > 0 /\ call.bytes <= Modulus
  <2>1. CASE AtCursor(call)
    <3>1. call.bytes > 0
      BY <2>1 DEF Inv, CallInv
    <3>2. call.bytes <= Size(4)
      BY <1>1, <1>2, <2>1 DEF CursorCall
    <3>3. Size(4) <= TableEntries * Size(4) /\ Size(4) \in Nat
      <4>1. Size(4) \in Nat /\ TableEntries \in Nat /\ 1 <= TableEntries
        BY SizeType, Sizes
      <4>2. 1 * Size(4) <= TableEntries * Size(4)
        BY <4>1, TimesMonotone
      <4>3. QED
        BY <4>1, <4>2
    <3>4. QED
      BY <1>3, <3>1, <3>2, <3>3, SpaceSize, Sizes DEF AddressesFit
  <2>2. CASE ~AtCursor(call)
    BY <1>1, <1>2, <2>2, BootKind DEF BootCall
  <2>3. QED
    BY <2>1, <2>2
<1>12. N \in Nat \ {0} /\ N <= n * s
  <2>1. call.bytes \in Nat \ {0}
    BY <1>3, <1>11
  <2>2. QED
    BY <1>1, <1>11, <2>1, PagesFacts
<1>13. r.va % Size(k) = 0
  <2>1. CASE AtCursor(call)
    <3>1. (a * PageSize) % Size(1) = (a % Span(1)) * PageSize
      <4>1. 1 \in 1 .. 4
        OBVIOUS
      <4>2. QED
        BY <1>1, <4>1, PageAddress
    <3>2. a % 1 = 0 /\ 0 * PageSize = 0
      BY <1>1, Sizes
    <3>3. QED
      BY <1>1, <1>4, <2>1, <3>1, <3>2, Spans
  <2>2. CASE ~AtCursor(call)
    BY <1>1, <1>4, <2>2
  <2>3. QED
    BY <2>1, <2>2
<1>14. /\ \A I \in Vectors : Within(I, a, Num(v.idx)) => Holds(plan, v.mem, I, k, FrameFor(call, fs, Num(I) - a))
       /\ ~Physical(call) => Len(fs) = count + 1
  BY MapHolds
<1>15. x \in Nat
  BY <1>3, Addresses
<1> HIDE DEF x, N, k
<1>16. Len(r.frames) = N /\ DOMAIN r.frames = 1 .. N
  <2>1. CASE Physical(call)
    <3>1. r.frames = [i \in 1 .. N |-> x + i - 1]
      BY <1>4, <2>1
    <3>2. N \in Nat
      BY <1>12
    <3>3. r.frames \in Seq(Int)
      BY ONLY <1>15, <3>1, <3>2
    <3>4. QED
      BY ONLY <3>1, <3>2, <3>3
  <2>2. CASE ~Physical(call)
    <3>1. r.frames = fs /\ n = N /\ Len(fs) = n
      BY <1>1, <1>4, <1>14, <2>2 DEF N, k
    <3>2. fs = Append(frames, f) /\ frames \in Seq(Nat) /\ f \in Nat
      BY <2>2 DEF Mapping, Inv, TypeInv
    <3>3. fs \in Seq(Nat)
      BY ONLY <3>2
    <3>4. DOMAIN fs = 1 .. Len(fs)
      BY ONLY <3>3
    <3>5. QED
      BY <3>1, <3>4
  <2>3. QED
    BY <2>1, <2>2
<1>17. Framed(plan, r)
  BY <1>1, <1>4, <1>6, <1>7, <1>9, <1>10, <1>11, <1>13, <1>16 DEF Framed, N
<1>18. Tabled(plan, v.mem, r)
  <2>1. SUFFICES ASSUME NEW I \in Vectors, Num(I) = Num(v.idx) PROVE On(v.mem, I, k) /\ Kind(plan, I[4]) = k
    BY <1>9, <1>10 DEF Tabled
  <2>2. I = v.idx
    BY <1>5, <2>1, DigitsOfNum
  <2>3. QED
    BY <1>5, <2>2 DEF OnPath
<1>19. Backed(plan, v.mem, r)
  <2>1. SUFFICES ASSUME NEW I \in Vectors, Within(I, a, Num(v.idx))
                 PROVE  /\ F1(v.mem, I) # Null /\ Kind(plan, I[4]) = k
                        /\ Num(I) - a < Len(r.frames) =>
                              F1(v.mem, I).at + (Num(I) % Span(k)) = r.frames[Num(I) - a + 1]
    BY <1>6, <1>9, <1>10 DEF Backed
  <2>2. /\ F1(v.mem, I) # Null /\ Kind(plan, I[4]) = k
        /\ F1(v.mem, I).at + (Num(I) % Span(k)) = FrameFor(call, fs, Num(I) - a)
    BY <1>14, <2>1 DEF Holds
  <2>3. ASSUME Num(I) - a < Len(r.frames) PROVE FrameFor(call, fs, Num(I) - a) = r.frames[Num(I) - a + 1]
    <3>1. CASE Physical(call)
      <4>1. r.frames = [i \in 1 .. N |-> x + i - 1] /\ FrameFor(call, fs, Num(I) - a) = x + (Num(I) - a)
        BY <1>4, <3>1 DEF FrameFor, x
      <4>2. PICK y \in Nat : y = Num(I) - a
        BY <1>1, <2>1, NumFacts DEF Within
      <4>3. y + 1 \in 1 .. N /\ N \in Nat
        BY <1>12, <1>16, <2>3, <4>2
      <4>4. r.frames[y + 1] = x + (y + 1) - 1
        BY ONLY <4>1, <4>3
      <4>5. x + (y + 1) - 1 = x + y
        BY <1>15
      <4>6. QED
        BY <4>1, <4>2, <4>4, <4>5
    <3>2. CASE ~Physical(call)
      BY <1>4, <3>2 DEF FrameFor
    <3>3. QED
      BY <3>1, <3>2
  <2>4. QED
    BY <2>2, <2>3
<1>20. r.physical \/ Unshared(v, r.frames)
  <2>1. CASE Physical(call)
    BY <2>1 DEF Region
  <2>2. CASE ~Physical(call)
    <3>1. Unshared(v, fs)
      BY MapKeeps
    <3>2. QED
      BY <1>4, <2>2, <3>1
  <2>3. QED
    BY <2>1, <2>2
<1>21. QED
  BY <1>6, <1>10, <1>17, <1>18, <1>19, <1>20

LEMMA MapPageStep ==
    ASSUME KernelPlans, AddressesFit, Inv, TypeInv', Room', MapPage
    PROVE  Inv'
<1> DEFINE k == call.level
<1>1. pc = "page" /\ booted' = booted /\ TypeInv
  BY DEF MapPage, Inv
<1>2. PICK w, v, f, fs :
              /\ Mapping(w, v, f, fs)
              /\ IF More(Pages(call.bytes, k))
                 THEN Continue(call, v, "page") /\ count' = count + 1 /\ frames' = fs /\ UNCHANGED address
                 ELSE /\ Return(call, v, address)
                      /\ used_virtual_pages' = (used_virtual_pages + SmallPages(Pages(call.bytes, k), k)) % Modulus
                      /\ regions' = Told(call, Region(call, address, fs))
  BY MapFacts
<1>3. PICK a, s, n : AtPage(a, s, n)
  BY <1>1, PageFacts
<1>4. /\ k \in 1 .. 3 /\ s = Span(k) /\ s \in Nat \ {0} /\ n = Pages(call.bytes, k) /\ n \in Nat \ {0} /\ count \in Nat /\ count < n
      /\ a = address \div PageSize /\ a \in Nat /\ address = a * PageSize /\ count * s \in Nat
      /\ Num(walk.idx) = a + count * s
      /\ Physical(call) => call.pa % Size(k) = 0
      /\ ~Physical(call) => k = 1
      /\ AtCursor(call) => k = 1 /\ Clear(plan, Digits(a)[4])
      /\ ~AtCursor(call) => a = First(call)
  BY <1>3 DEF AtPage
<1>5. /\ Good(plan, v) /\ OnPath(v, k) /\ v.tab[4] = FirstFrame /\ Kind(plan, v.idx[4]) = k
      /\ (\A j \in 1 .. (k - 1) : v.idx[j] = 0) /\ Num(v.idx) = Num(walk.idx) + s
  BY <1>2, <1>4 DEF Mapping, OnPath
<1>6. /\ Count(v.mem) = Count(walk.mem) + s
      /\ Count(v.mem) \in Nat /\ Count(walk.mem) \in Nat /\ Count(v.mem) <= TableEntries * Span(4)
  BY <1>1, <1>2, <1>3, MapTables, CountType
<1>7. /\ \A I \in Vectors : Within(I, a, Num(v.idx)) => Holds(plan, v.mem, I, k, FrameFor(call, fs, Num(I) - a))
      /\ ~Physical(call) => Len(fs) = count + 1
  BY <1>1, <1>2, <1>3, MapHolds
<1>8. /\ \A r \in regions : Framed(plan, r) /\ Tabled(plan, v.mem, r) /\ Backed(plan, v.mem, r)
      /\ \A r \in regions : PastOf(plan, r) <= a \/ Num(v.idx) <= FirstOf(r)
      /\ BootOK(plan, v.mem, booted)
      /\ AtCursor(call) => Placed(plan, v)
      /\ ~AtCursor(call) => Cur(plan, Over(v, context)) /\ Free(v.mem, Num(v.idx), Past(call))
      /\ Unshared(v, fs) /\ \A r \in regions : r.physical \/ Unshared(v, r.frames)
  BY <1>1, <1>2, <1>3, MapKeeps
<1>9. \A q, r \in regions : q # r => Disjoint(plan, q, r)
  BY DEF Inv, RegionInv
<1>10. used_virtual_pages = Count(walk.mem) - count * s
  BY <1>1, <1>4 DEF Inv, UsedInv
<1>11. (count + 1) * s = count * s + s
  BY <1>4
<1>12. UsedInv' <=> (used_virtual_pages' = CASE pc' = "page"  -> Count(walk'.mem) - count' * Span(call'.level)
                                             [] pc' = "unmap" -> Count(walk'.mem) + count' * Span(call'.level)
                                             [] OTHER         -> Count(walk'.mem))
  BY DEF UsedInv, Count
<1>13. CASE More(n)
  <2>1. /\ pc' = "page" /\ call' = call /\ walk' = v /\ count' = count + 1 /\ frames' = fs /\ address' = address
        /\ UNCHANGED <<context, used_virtual_pages, ret, regions, plan>>
    BY <1>2, <1>4, <1>13 DEF Continue
  <2>2. CallInv' /\ FindInv' /\ MapInv' /\ UnmapInv' /\ FindBytes'
    BY <1>1, <2>1 DEF Inv, CallInv, FindInv, MapInv, UnmapInv, FindBytes
  <2>3. ContextInv'
    BY <1>8, <2>1 DEF ContextInv, AtContext, Over
  <2>4. RegionInv'
    BY <1>8, <1>9, <2>1 DEF RegionInv
  <2>5. FramesInv'
    BY <1>8, <2>1 DEF FramesInv
  <2>6. UsedInv'
    <3>1. used_virtual_pages = Count(v.mem) - (count + 1) * s
      BY <1>4, <1>6, <1>10, <1>11
    <3>2. QED
      BY <1>4, <1>12, <2>1, <3>1
  <2>7. PageInv'
    <3>1. AtEntry(v, k, a, count + 1)
      <4>1. Num(v.idx) = a + (count + 1) * Span(k)
        <5>1. PICK y \in Nat : y = count * s
          BY <1>4
        <5>2. Num(v.idx) = (a + y) + s /\ (count + 1) * Span(k) = y + s
          BY <1>4, <1>5, <1>11, <5>1
        <5>3. (a + y) + s = a + (y + s)
          BY <1>4
        <5>4. QED
          BY <5>2, <5>3
      <4>2. QED
        BY <1>5, <4>1 DEF AtEntry
    <3>2. count + 1 < Pages(call.bytes, k)
      BY <1>4, <1>13 DEF More
    <3>3. IF AtCursor(call) THEN Clear(plan, Digits(a)[4]) /\ Placed(plan, v)
          ELSE a = First(call) /\ Free(v.mem, Num(v.idx), Past(call))
      BY <1>4, <1>8
    <3>4. QED
      BY <1>4, <1>5, <1>7, <1>8, <2>1, <3>1, <3>2, <3>3 DEF PageInv
  <2>8. QED
    BY <1>1, <1>5, <1>8, <2>1, <2>2, <2>3, <2>4, <2>5, <2>6, <2>7 DEF Inv
<1>14. CASE ~More(n)
  <2>1. /\ Return(call, v, address)
        /\ used_virtual_pages' = (used_virtual_pages + SmallPages(n, k)) % Modulus
        /\ regions' = Told(call, Region(call, address, fs))
    BY <1>2, <1>4, <1>14
  <2>2. n = count + 1
    BY <1>4, <1>14 DEF More
  <2>3. PICK r : r = Region(call, address, fs)
    OBVIOUS
  <2>4. /\ Framed(plan, r) /\ Tabled(plan, v.mem, r) /\ Backed(plan, v.mem, r)
        /\ FirstOf(r) = a /\ PastOf(plan, r) = Num(v.idx)
        /\ r.physical \/ Unshared(v, r.frames)
    BY <1>1, <1>2, <1>3, <2>2, <2>3, NewRegion
  <2>5. \A q \in regions' : q = r \/ q \in regions
    BY <2>1, <2>3 DEF Told
  <2>6. AtCursor(call) => Cur(plan, v)
    BY <1>8 DEF Cur
  <2>7. ~AtCursor(call) => Cur(plan, Over(v, context))
    BY <1>8
  <2>8. /\ walk'.mem = v.mem /\ walk'.brk = v.brk /\ Good(plan', walk') /\ walk'.tab[4] = FirstFrame
        /\ plan' = plan /\ count' = 0 /\ frames' = <<>> /\ pc' = "idle"
        /\ FindBytes' /\ CallInv' /\ ContextInv' /\ FindInv' /\ MapInv' /\ PageInv' /\ UnmapInv'
    BY <1>1, <1>5, <2>1, <2>6, <2>7, ReturnInv
  <2>9. RegionInv'
    <3>1. \A q \in regions' : Framed(plan, q) /\ Tabled(plan, v.mem, q) /\ Backed(plan, v.mem, q)
      BY <1>8, <2>4, <2>5
    <3>2. \A q, t \in regions' : q # t => Disjoint(plan, q, t)
      BY <1>8, <1>9, <2>4, <2>5 DEF Disjoint
    <3>3. QED
      BY <2>8, <3>1, <3>2 DEF RegionInv
  <2>10. FramesInv'
    BY <1>8, <2>4, <2>5, <2>8 DEF FramesInv, Unshared
  <2>11. UsedInv'
    <3>1. SmallPages(n, k) = count * s + s
      BY <1>4, <1>11, <2>2 DEF SmallPages
    <3>2. used_virtual_pages + SmallPages(n, k) = Count(v.mem)
      BY <1>4, <1>6, <1>10, <3>1
    <3>3. Count(v.mem) < Modulus
      BY <1>6, SpaceSize, Sizes DEF AddressesFit
    <3>4. \A x \in Nat : x < Modulus => x % Modulus = x
      BY Sizes
    <3>5. used_virtual_pages' = Count(v.mem)
      BY <1>6, <2>1, <3>2, <3>3, <3>4
    <3>6. QED
      BY <1>12, <2>8, <3>5
  <2>12. QED
    BY <1>1, <1>8, <2>8, <2>9, <2>10, <2>11 DEF Inv
<1>15. QED
  BY <1>13, <1>14

\* The empty tables of paging_initialize.
LEMMA InitInv ==
    ASSUME KernelPlans, Init
    PROVE  Inv
<1> DEFINE m == [f \in {FirstFrame} |-> EmptyTable]
           b == FirstFrame + 1
<1>1. TypeInv /\ FindBytes
  BY InitType
<1>2. /\ plan \in PlanType /\ KernelPlan(plan) /\ Len(plan.boot) \in Nat /\ booted \in 0 .. Len(plan.boot)
  BY <1>1, PlanFacts
<1>3. /\ walk.idx = [k \in Levels |-> 0] /\ walk.tab = [k \in Levels |-> IF k = 4 THEN FirstFrame ELSE 0]
      /\ walk.mem = m /\ walk.brk = b /\ ~walk.wild /\ context = [idx |-> walk.idx, tab |-> walk.tab]
      /\ used_virtual_pages = 0 /\ pc = "idle" /\ call = NoCall /\ count = 0 /\ booted = 0 /\ frames = <<>> /\ regions = {}
  BY DEF Init
<1>4. DOMAIN m = {FirstFrame} /\ \A s \in Slots : m[FirstFrame][s] = Null
  BY DEF EmptyTable
<1> HIDE DEF m
<1>5. \A I \in Vectors : F4(m, I) = Null /\ F3(m, I) = Null /\ F2(m, I) = Null /\ F1(m, I) = Null
  <2>1. SUFFICES ASSUME NEW I \in Vectors
                 PROVE  F4(m, I) = Null /\ F3(m, I) = Null /\ F2(m, I) = Null /\ F1(m, I) = Null
    OBVIOUS
  <2>2. \A s : Get(m, 0, s) = Null
    BY <1>4, Sizes DEF Get
  <2>3. Null.at = 0 /\ ~Null.size
    BY Entries
  <2>4. F4(m, I) = Null
    BY <1>4, VectorElements DEF F4, Get
  <2>5. F3(m, I) = Null
    BY <2>2, <2>3, <2>4 DEF F3
  <2>6. F2(m, I) = Null
    BY <2>2, <2>3, <2>5 DEF F2
  <2>7. F1(m, I) = Null
    BY <2>2, <2>3, <2>6 DEF F1
  <2>8. QED
    BY <2>4, <2>5, <2>6, <2>7
<1>6. Tree(plan, m)
  <2> DEFINE lev == [f \in {FirstFrame} |-> 4]
             up  == [f \in {FirstFrame} |-> [k \in Levels |-> 0]]
  <2>1. lev \in [DOMAIN m -> Levels] /\ lev[FirstFrame] = 4 /\ up \in [DOMAIN m -> Vectors]
    BY <1>4, Sizes DEF Vectors
  <2> HIDE DEF lev, up
  <2>2. ASSUME NEW f \in DOMAIN m, NEW s \in Slots PROVE EntryOK(plan, m, lev, up, 0, f, s)
    <3>1. f = FirstFrame /\ m[f][s] = Null
      BY <1>4
    <3>2. Kind(plan, s) \in 1 .. 3
      BY <1>2, KindType
    <3>3. QED
      BY <2>1, <3>1, <3>2 DEF EntryOK
  <2>3. TreeAt(plan, m, lev, up, 0)
    BY <1>4, <2>1, <2>2 DEF TreeAt
  <2>4. QED
    BY <2>3 DEF Tree
<1>7. Good(plan, walk) /\ walk.tab[4] = FirstFrame
  <2>1. IsWalk(walk)
    BY <1>1 DEF TypeInv
  <2>2. QED
    BY <1>3, <1>6, <2>1 DEF Good, Levels
<1>8. BootOK(plan, walk.mem, booted)
  BY <1>3, <1>5 DEF BootOK, Free
<1>9. CallInv /\ FindInv /\ MapInv /\ PageInv /\ UnmapInv /\ RegionInv
  <2>1. ~AtCursor(NoCall)
    BY DEF AtCursor, NoCall
  <2>2. QED
    BY <1>3, <2>1 DEF CallInv, FindInv, MapInv, PageInv, UnmapInv, RegionInv
<1>10. ContextInv
  <2>1. PICK x : x = Over(walk, context)
    OBVIOUS
  <2>2. context \in Cursor
    BY <1>1 DEF TypeInv
  <2>3. x.idx = walk.idx /\ x.tab = walk.tab /\ x.mem = m
    BY <1>3, <1>7, <2>1, <2>2, OverFacts
  <2>4. Fresh(x)
    <3>1. walk.idx \in Vectors
      BY <1>3, Sizes DEF Vectors
    <3>2. QED
      BY <1>3, <2>3, <3>1 DEF Fresh, Levels
  <2>5. Ahead(plan, x.mem, 0)
    BY <1>5, <2>3 DEF Ahead
  <2>6. QED
    BY <2>1, <2>4, <2>5 DEF ContextInv, AtContext, Over, Cur
<1>11. UsedInv
  <2>1. {v \in AllPages : F1(m, Digits(v)) # Null} = {}
    BY <1>5, NumOfDigits
  <2>2. Count(m) = 0
    BY <2>1, FS_EmptySet DEF Count
  <2>3. QED
    BY <1>3, <2>2 DEF UsedInv
<1>12. FramesInv
  BY <1>3 DEF FramesInv, Unshared
<1>13. QED
  BY <1>1, <1>7, <1>8, <1>9, <1>10, <1>11, <1>12 DEF Inv

\* Every step keeps the invariant.
LEMMA NextInv ==
    ASSUME KernelPlans, AddressesFit, Inv, Room, Room', [Next]_vars
    PROVE  Inv'
<1>1. TypeInv /\ FindBytes
  BY DEF Inv
<1>2. TypeInv' /\ FindBytes'
  BY <1>1, TypeStep
<1>3. CASE UNCHANGED vars
  BY <1>3 DEF vars, Inv, TypeInv, FindBytes, CallInv, ContextInv, AtContext, FindInv, MapInv, PageInv,
              RegionInv, UnmapInv, UsedInv, FramesInv
<1>4. ASSUME NEW c \in Offered, FindSpot(c) PROVE Inv'
  BY <1>2, <1>4, FindSpotStep
<1>5. ASSUME NEW c \in Offered, FindAddress(c) PROVE Inv'
  BY <1>2, <1>5, FindAddressStep
<1>6. ASSUME NEW c \in Offered, StartUnmap(c) PROVE Inv'
  BY <1>2, <1>6, StartUnmapStep
<1>7. CASE FindEntry
  BY <1>2, <1>7, FindEntryStep
<1>8. CASE StartMap
  BY <1>2, <1>8, StartMapStep
<1>9. CASE MapPage
  BY <1>2, <1>9, MapPageStep
<1>10. CASE UnmapPage
  BY <1>2, <1>10, UnmapPageStep
<1>11. QED
  BY <1>3, <1>4, <1>5, <1>6, <1>7, <1>8, <1>9, <1>10 DEF Next
-----------------------------------------------------------------------------
\* What the invariant says between calls.

\* The properties follow.
LEMMA InvPromises ==
    ASSUME KernelPlans, Inv
    PROVE  PromisesKept
<1>1. SUFFICES ASSUME Idle, NEW r \in regions, NEW v \in PagesOf(r)
               PROVE  paging_get_physical_address(walk, v * PageSize) = FrameOf(r, v) * PageSize
  BY DEF PromisesKept
<1>2. /\ TypeInv /\ r \in RegionType /\ Framed(plan, r) /\ Backed(plan, walk.mem, r)
      /\ Good(plan, walk) /\ walk.tab[4] = FirstFrame
  BY <1>1 DEF Idle, Inv, RegionInv, TypeInv
<1>3. plan \in PlanType /\ KernelPlan(plan)
  BY <1>2, PlanFacts
<1>4. /\ v \in AllPages /\ FirstOf(r) <= v /\ v < PastOf(plan, r) /\ v - FirstOf(r) < Len(r.frames)
  BY <1>1, <1>2, <1>3, RegionPages
<1>5. PICK I : I = Digits(v)
  OBVIOUS
<1>6. /\ v \in Nat /\ v * PageSize \in Nat /\ IndexOf(v * PageSize) = I /\ I \in Vectors /\ Num(I) = v
  BY <1>4, <1>5, PageIndex
<1>7. PICK k : k = KindOf(plan, r)
  OBVIOUS
<1>8. /\ F1(walk.mem, I) # Null /\ Kind(plan, I[4]) = k
      /\ F1(walk.mem, I).at + (v % Span(k)) = FrameOf(r, v)
  BY <1>2, <1>4, <1>6, <1>7 DEF Backed, Within, FrameOf, FirstOf
<1>9. k \in 1 .. 3 /\ F1(walk.mem, I).at \in Nat
  <2>1. IsMem(walk.mem, walk.brk) /\ Tree(plan, walk.mem)
    BY <1>2 DEF Good, IsWalk
  <2>2. QED
    BY <1>3, <1>6, <1>8, <2>1, MappedOn
<1>10. /\ Mapped(walk, v * PageSize) /\ LeafLevel(Path(walk, v * PageSize)) = k
       /\ Path(walk, v * PageSize)[1] = F1(walk.mem, I)
  <2>1. /\ Path(walk, v * PageSize) = <<F1(walk.mem, I), F2(walk.mem, I), F3(walk.mem, I), F4(walk.mem, I)>>
        /\ Mapped(walk, v * PageSize) <=> F1(walk.mem, I) # Null
        /\ Mapped(walk, v * PageSize) => LeafLevel(Path(walk, v * PageSize)) = Kind(plan, I[4])
    BY <1>2, <1>3, <1>6, MappedFacts
  <2>2. QED
    BY <1>8, <2>1
<1>11. paging_get_physical_address(walk, v * PageSize) = F1(walk.mem, I).at * PageSize + ((v * PageSize) % Size(k))
  BY <1>10 DEF paging_get_physical_address
<1>12. (v * PageSize) % Size(k) = (v % Span(k)) * PageSize /\ v % Span(k) \in Nat
  <2>1. k \in 1 .. 4
    BY <1>9
  <2>2. Span(k) \in Nat \ {0}
    BY <2>1, Spans DEF Levels
  <2>3. v % Span(k) \in 0 .. (Span(k) - 1)
    BY <1>6, <2>2, DivMod
  <2>4. v % Span(k) \in Nat
    BY <2>2, <2>3
  <2>5. QED
    BY <1>6, <2>1, <2>4, PageAddress
<1>13. PICK x \in Nat : x = F1(walk.mem, I).at
  BY <1>9
<1>14. PICK y \in Nat : y = v % Span(k)
  BY <1>12
<1>15. (x + y) * PageSize = x * PageSize + y * PageSize
  BY Sizes
<1>16. QED
  BY <1>8, <1>11, <1>12, <1>13, <1>14, <1>15

LEMMA InvCursor ==
    ASSUME KernelPlans, Inv
    PROVE  CursorConsistent
<1>1. PICK w : w = Over(walk, context)
  OBVIOUS
<1>2. SUFFICES ASSUME Idle, NEW k \in 1 .. 3, context.tab[k] # 0 PROVE Entry(w, k + 1).at = context.tab[k]
  BY <1>1 DEF CursorConsistent, Over
<1>3. plan \in PlanType /\ KernelPlan(plan) /\ context \in Cursor
  BY PlanFacts DEF Inv, TypeInv
<1>4. Good(plan, w) /\ w.tab = context.tab
  BY <1>1, <1>3, OverFacts DEF Inv
<1>5. ~AtCursor(call)
  BY <1>2 DEF Inv, CallInv, Idle, AtCursor, NoCall
<1>6. Cur(plan, w)
  BY <1>1, <1>5 DEF Inv, ContextInv, AtContext, Over
<1>7. OnPath(w, 1)
  BY <1>2, <1>4, <1>6 DEF Cur, Fresh, Placed
<1>8. Entry(w, k + 1) = Link(w.tab[k])
  <2>1. 1 \in 1 .. 4
    OBVIOUS
  <2>2. QED
    BY <1>3, <1>4, <1>7, <2>1, GoodPath
<1>9. QED
  BY <1>4, <1>8 DEF Link, Null

LEMMA InvTree ==
    ASSUME KernelPlans, Inv
    PROVE  TablesAreTree
<1> DEFINE m  == walk.mem
           l4 == LinksOf(m, {FirstFrame})
           l3 == LinksOf(m, Heads(m, l4))
           l2 == LinksOf(m, Heads(m, l3))
<1>1. IsWalk(walk) /\ ~walk.wild /\ Tree(plan, m) /\ plan \in PlanType /\ KernelPlan(plan)
  BY PlanFacts DEF Inv, Good
<1>2. PICK lev, up, par : TreeAt(plan, m, lev, up, par)
  BY <1>1 DEF Tree
<1>3. /\ lev \in [DOMAIN m -> Levels] /\ up \in [DOMAIN m -> Vectors]
      /\ FirstFrame \in DOMAIN m /\ lev[FirstFrame] = 4
      /\ \A f \in DOMAIN m : \A s \in Slots : EntryOK(plan, m, lev, up, par, f, s)
  BY <1>2 DEF TreeAt
<1> HIDE DEF m
<1>4. ASSUME NEW f \in DOMAIN m, NEW s \in Slots, lev[f] > 1, m[f][s] # Null, ~m[f][s].size
      PROVE  /\ m[f][s].at \in DOMAIN m /\ lev[m[f][s].at] = lev[f] - 1
             /\ par[m[f][s].at] = f /\ up[m[f][s].at][lev[f]] = s
  <2>1. EntryOK(plan, m, lev, up, par, f, s) /\ lev[f] \in 1 .. 4
    BY <1>3 DEF Levels
  <2>2. PICK i \in Slots : i = IF lev[f] = 4 THEN s ELSE up[f][4]
    <3>1. up[f][4] \in Slots
      BY <1>3, VectorElements
    <3>2. QED
      BY <3>1
  <2>3. Kind(plan, i) \in 1 .. 3
    BY <1>1, KindType
  <2>4. ~(Kind(plan, i) = lev[f] /\ IsLeaf(m[f][s], Kind(plan, i)))
    BY <1>4, <2>1, <2>3 DEF IsLeaf
  <2>5. QED
    BY <1>4, <2>1, <2>2, <2>4 DEF EntryOK, IsLink
<1>5. ASSUME NEW T, NEW k \in 2 .. 4, \A f \in T : f \in DOMAIN m /\ lev[f] = k,
             NEW x \in LinksOf(m, T)
      PROVE  /\ x = <<x[1], x[2]>> /\ x[1] \in DOMAIN m /\ lev[x[1]] = k /\ x[2] \in Slots
             /\ m[x[1]][x[2]].at \in DOMAIN m /\ lev[m[x[1]][x[2]].at] = k - 1
             /\ par[m[x[1]][x[2]].at] = x[1] /\ up[m[x[1]][x[2]].at][k] = x[2]
  <2>1. /\ x = <<x[1], x[2]>> /\ x[1] \in T /\ x[1] \in DOMAIN m /\ x[2] \in Slots
        /\ m[x[1]][x[2]] # Null /\ ~m[x[1]][x[2]].size
    BY <1>5 DEF LinksOf
  <2>2. lev[x[1]] = k /\ k > 1
    BY <1>5, <2>1
  <2>3. QED
    BY <1>4, <2>1, <2>2
<1>6. ASSUME NEW T, NEW k \in 2 .. 4, \A f \in T : f \in DOMAIN m /\ lev[f] = k
      PROVE  \A f \in Heads(m, LinksOf(m, T)) : f \in DOMAIN m /\ lev[f] = k - 1
  BY <1>5, <1>6 DEF Heads
<1>7. \A f \in {FirstFrame} : f \in DOMAIN m /\ lev[f] = 4
  BY <1>3
<1>8. \A f \in Heads(m, l4) : f \in DOMAIN m /\ lev[f] = 3
  BY <1>6, <1>7
<1>9. \A f \in Heads(m, l3) : f \in DOMAIN m /\ lev[f] = 2
  BY <1>6, <1>8
<1> HIDE DEF l4, l3, l2
<1>10. ASSUME NEW x \in Links(m)
       PROVE  /\ x = <<x[1], x[2]>> /\ m[x[1]][x[2]].at \in DOMAIN m /\ lev[m[x[1]][x[2]].at] < 4
              /\ par[m[x[1]][x[2]].at] = x[1] /\ up[m[x[1]][x[2]].at][lev[x[1]]] = x[2]
  <2>1. x \in l4 \/ x \in l3 \/ x \in l2
    BY <1>10 DEF Links, l4, l3, l2
  <2>2. CASE x \in l4
    BY <1>5, <1>7, <2>2 DEF l4
  <2>3. CASE x \in l3
    BY <1>5, <1>8, <2>3 DEF l3
  <2>4. CASE x \in l2
    BY <1>5, <1>9, <2>4 DEF l2
  <2>5. QED
    BY <2>1, <2>2, <2>3, <2>4
<1>11. Heads(m, Links(m)) \subseteq DOMAIN m \ {FirstFrame}
  BY <1>3, <1>10 DEF Heads
<1>12. \A x, y \in Links(m) : m[x[1]][x[2]].at = m[y[1]][y[2]].at => x = y
  <2>1. SUFFICES ASSUME NEW x \in Links(m), NEW y \in Links(m), m[x[1]][x[2]].at = m[y[1]][y[2]].at
                 PROVE  x[1] = y[1] /\ x[2] = y[2]
    BY <1>10
  <2>2. QED
    BY <1>10, <2>1
<1>13. \A r \in regions : ~r.physical => \A i \in DOMAIN r.frames : r.frames[i] \notin DOMAIN m
  BY DEF Inv, FramesInv, Unshared, m
<1>14. QED
  BY <1>1, <1>11, <1>12, <1>13 DEF TablesAreTree, NeverWild, m

LEMMA InvUsed ==
    ASSUME KernelPlans, Inv
    PROVE  UsedPagesCounted
<1>1. SUFFICES ASSUME Idle
               PROVE  used_virtual_pages = Cardinality({v \in AllPages : Mapped(walk, v * PageSize)})
  BY DEF UsedPagesCounted
<1>2. plan \in PlanType /\ KernelPlan(plan) /\ Good(plan, walk) /\ walk.tab[4] = FirstFrame
  BY PlanFacts DEF Inv
<1>3. used_virtual_pages = Count(walk.mem)
  BY <1>1 DEF Idle, Inv, UsedInv
<1>4. \A v \in AllPages : Mapped(walk, v * PageSize) <=> F1(walk.mem, Digits(v)) # Null
  BY <1>2, PageIndex, MappedFacts
<1>5. {v \in AllPages : F1(walk.mem, Digits(v)) # Null} = {v \in AllPages : Mapped(walk, v * PageSize)}
  BY <1>4
<1>6. QED
  BY <1>3, <1>5 DEF Count

LEMMA InvUnmaps ==
    ASSUME KernelPlans, Inv, [Next]_vars
    PROVE  [\A r \in regions \ regions' : pc = "unmap" /\ pc' = "idle" =>
               /\ HugeAtBootOnly => ret' = 1
               /\ \A v \in PagesOf(r) : ~Mapped(walk', v * PageSize)]_vars
<1>1. SUFFICES ASSUME Next, NEW r \in regions, r \notin regions', pc = "unmap", pc' = "idle"
               PROVE  ret' = 1 /\ \A v \in PagesOf(r) : ~Mapped(walk', v * PageSize)
  OBVIOUS
<1>2. UnmapPage
  BY <1>1 DEF Next, FindSpot, FindAddress, StartUnmap, Begin, FindEntry, StartMap, MapPage
<1>3. QED
  BY <1>1, <1>2, UnmapEnds

\* The invariant holds of the plans of the kernel while the address space lasts.
THEOREM Invariant ==
    ASSUME KernelPlans, AddressesFit
    PROVE  Spec /\ []Room => []Inv
<1>1. Init => Inv
  BY InitInv
<1>2. Inv /\ Room /\ Room' /\ [Next]_vars => Inv'
  BY NextInv
<1>3. QED
  BY <1>1, <1>2, PTL DEF Spec

\* Memory that a caller was told is mapped stays mapped at the frames it was told,
\* whatever calls are made before it is unmapped: paging_map, paging_map_physical,
\* paging_map_at, paging_map_physical_at and paging_unmap, with any sizes of tables
\* and pages.
THEOREM MappingsKept ==
    ASSUME KernelPlans, AddressesFit
    PROVE  Spec /\ []Room => []PromisesKept
<1>1. Inv => PromisesKept
  BY InvPromises
<1>2. QED
  BY <1>1, Invariant, PTL

\* The tables in the caller's paging_context are those that its indices select.
THEOREM CursorFollowsTables ==
    ASSUME KernelPlans, AddressesFit
    PROVE  Spec /\ []Room => []CursorConsistent
<1>1. Inv => CursorConsistent
  BY InvCursor
<1>2. QED
  BY <1>1, Invariant, PTL

\* The code never follows a pointer that is not one to a page table, every entry that
\* leads to a table leads to one of its own, and no table is memory that paging_map or
\* paging_map_at gave to a caller; whatever is mapped by its physical address, the
\* tables themselves among it.
THEOREM TablesStayTree ==
    ASSUME KernelPlans, AddressesFit
    PROVE  Spec /\ []Room => []TablesAreTree
<1>1. Inv => TablesAreTree
  BY InvTree
<1>2. QED
  BY <1>1, Invariant, PTL

\* paging_used_pages returns the number of pages that are mapped.
THEOREM UsedPagesRight ==
    ASSUME KernelPlans, AddressesFit
    PROVE  Spec /\ []Room => []UsedPagesCounted
<1>1. Inv => UsedPagesCounted
  BY InvUsed
<1>2. QED
  BY <1>1, Invariant, PTL

\* paging_unmap returns 1, and no page of the mapping is mapped afterwards.
THEOREM UnmapWorks ==
    ASSUME KernelPlans, AddressesFit
    PROVE  Spec /\ []Room => UnmapUnmaps
<1>1. Inv /\ [Next]_vars =>
         [\A r \in regions \ regions' : pc = "unmap" /\ pc' = "idle" =>
               /\ HugeAtBootOnly => ret' = 1
               /\ \A v \in PagesOf(r) : ~Mapped(walk', v * PageSize)]_vars
  BY InvUnmaps
<1>2. QED
  BY <1>1, Invariant, PTL DEF Spec, UnmapUnmaps
=============================================================================
