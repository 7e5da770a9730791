----------------------------- MODULE HeapProofs -----------------------------
(***************************************************************************)
(* Proofs about Heap: its chunks never overlap, its list is always in      *)
(* order, and nothing but their owner changes the bytes of a chunk, for    *)
(* any number of users, sizes and chunks.                                  *)
(***************************************************************************)
EXTENDS Heap, TLAPS

\* Each chunk has one owner, who relies on no more bytes than it has; the chunk that
\* memory_resize moves to is nobody's yet.
Owners ==
    /\ \A u, v \in Users : u # v => held[u] = Null \/ held[u] # held[v]
    /\ \A u \in Users : IF held[u] = Null THEN filled[u] = 0 ELSE filled[u] <= size[held[u]]
    /\ call = "allocate" => held[user] = Null
    /\ call \in {"copy", "free"} => size[new] = bytes /\ \A u \in Users : held[u] # new

\* After memory_copy the bytes are in the new chunk, as far as they fit.
Copied == call = "free" =>
    \A a \in Bytes(Data(new), filled[user]) : a < Data(new) + bytes => memory[a] = user

IInv == TypeOK /\ ChunksDisjoint /\ LinksOrdered /\ Owners /\ DataKept /\ Copied

\* The part of TypeOK that is about the list.
ListType ==
    /\ chunks \subseteq Addresses /\ Root \in chunks
    /\ next \in [chunks -> chunks \cup {Null}]
    /\ previous \in [chunks -> chunks \cup {Null}]
    /\ size \in [chunks -> Nat] /\ size[Root] = 0
-----------------------------------------------------------------------------
\* ALIGN_TO_NEXT of util.h returns a number of bytes.
LEMMA AlignType == \A n \in Nat : ALIGN_TO_NEXT(n) \in Nat
<1> TAKE n \in Nat
<1> DEFINE m == n + Alignment - 1
           q == m \div Alignment
<1>1. Alignment \in Nat /\ Alignment > 0 BY HeapAssumption
<1>2. m \in Nat BY <1>1
<1> HIDE DEF m
<1>3. q \in Nat BY <1>1, <1>2
<1> HIDE DEF q
<1>4. q * Alignment \in Nat BY <1>1, <1>3
<1>5. ALIGN_TO_NEXT(n) = q * Alignment BY DEF ALIGN_TO_NEXT, q, m
<1> QED BY <1>4, <1>5

\* Addresses are numbers, and none is the null pointer.
LEMMA AddressType == \A a \in Addresses : a \in Nat /\ a # Null /\ a >= Root /\ a < Limit
BY HeapAssumption DEF Addresses, Null

\* The new chunk n of memory_allocate, linked behind chk, lies behind chk and in front
\* of all that follows, and the list stays in order.
LEMMA LinkKeeps ==
    ASSUME ListType, ChunksDisjoint, LinksOrdered, chk \in chunks, bytes \in Nat, Room(chk),
           NEW n, n = EndOf(chk), n + HeaderSize + bytes <= Limit, LinkChunk(n)
    PROVE  /\ ListType' /\ ChunksDisjoint' /\ LinksOrdered'
           /\ n \in Addresses \ chunks /\ n # Root
           /\ chunks' = chunks \cup {n} /\ size'[n] = bytes
           /\ \A c \in chunks : size'[c] = size[c]
<1> USE AddressType, HeapAssumption
<1>0. /\ HeaderSize \in Nat /\ HeaderSize > 0
      /\ \A c \in chunks : c \in Nat /\ c # Null /\ size[c] \in Nat
      /\ \A c \in chunks : next[c] \in chunks \cup {Null}
  BY DEF ListType
<1>1. n \in Nat /\ n > chk /\ n \in Addresses
  BY DEF EndOf, ListType, Addresses
<1>2. next[chk] # Null => next[chk] \in chunks /\ n + HeaderSize + bytes < next[chk]
  <2> HAVE next[chk] # Null
  <2>1. next[chk] \in chunks /\ next[chk] \in Nat BY <1>0
  <2>2. next[chk] - (chk + size[chk]) > bytes + 2 * HeaderSize BY DEF Room
  <2>3. n = chk + HeaderSize + size[chk] BY DEF EndOf
  <2> QED BY <1>0, <2>1, <2>2, <2>3
<1>3. \A d \in chunks : d > chk => n + HeaderSize + bytes < d
  <2> TAKE d \in chunks
  <2> HAVE d > chk
  <2>1. next[chk] # Null /\ next[chk] <= d BY DEF LinksOrdered
  <2> QED BY <1>0, <1>1, <1>2, <2>1
<1>4. \A c \in chunks : c <= chk => EndOf(c) <= n
  <2> TAKE c \in chunks
  <2> HAVE c <= chk
  <2>1. CASE c = chk BY <2>1, <1>1
  <2>2. CASE c < chk
    <3>1. EndOf(c) <= chk BY <2>2 DEF ChunksDisjoint
    <3> QED BY <3>1, <1>1 DEF EndOf, ListType
  <2> QED BY <2>1, <2>2 DEF ListType
<1>5. \A c \in chunks : c < n <=> c <= chk
  BY <1>1, <1>3 DEF ListType
<1>6. n \notin chunks /\ n # Root
  BY <1>1, <1>3, <1>5 DEF ListType
<1>7. /\ chunks' = chunks \cup {n}
      /\ size' \in [chunks' -> Nat] /\ size'[n] = bytes /\ \A c \in chunks : size'[c] = size[c]
      /\ next' \in [chunks' -> chunks' \cup {Null}]
      /\ previous' \in [chunks' -> chunks' \cup {Null}]
  BY <1>1, <1>6 DEF LinkChunk, ListType
<1>8. ListType'
  BY <1>1, <1>6, <1>7 DEF ListType
<1>9. /\ EndOf(n)' = n + HeaderSize + bytes
      /\ \A c \in chunks : EndOf(c)' = EndOf(c)
  BY <1>7 DEF EndOf
<1>10. ChunksDisjoint'
  <2>1. \A c \in chunks' : EndOf(c)' <= Limit BY <1>7, <1>9 DEF ChunksDisjoint
  <2>2. ASSUME NEW c \in chunks', NEW d \in chunks', c < d PROVE EndOf(c)' <= d
    <3>1. CASE c \in chunks /\ d \in chunks BY <2>2, <3>1, <1>9 DEF ChunksDisjoint
    <3>2. CASE c = n /\ d \in chunks
      <4>1. d > chk BY <2>2, <3>2, <1>5 DEF ListType
      <4>2. n + HeaderSize + bytes < d BY <4>1, <3>2, <1>3
      <4> QED BY <4>2, <3>2, <1>0, <1>1, <1>9
    <3>3. CASE c \in chunks /\ d = n BY <2>2, <3>3, <1>4, <1>5, <1>9
    <3>4. CASE c = n /\ d = n BY <2>2, <3>4, <1>1
    <3> QED BY <3>1, <3>2, <3>3, <3>4, <1>7
  <2> QED BY <2>1, <2>2 DEF ChunksDisjoint
<1>11. LinksOrdered'
  <2>1. /\ next'[n] = next[chk] /\ next'[chk] = n
        /\ \A c \in chunks : c # chk => next'[c] = next[c]
        /\ previous'[n] = chk /\ (next[chk] # Null => previous'[next[chk]] = n)
        /\ \A c \in chunks : c # next[chk] => previous'[c] = previous[c]
    BY <1>1, <1>2, <1>6 DEF LinkChunk, ListType
  <2>2. ASSUME NEW c \in chunks', NEW d \in chunks', c < d PROVE next'[c] # Null /\ next'[c] <= d
    <3>1. CASE c \in chunks /\ c # chk /\ d \in chunks BY <2>1, <2>2, <3>1 DEF LinksOrdered
    <3>2. CASE c \in chunks /\ c # chk /\ d = n
      <4>1. c < chk BY <1>5, <2>2, <3>2 DEF ListType
      <4>2. next[c] # Null /\ next[c] <= chk BY <3>2, <4>1 DEF LinksOrdered
      <4>3. next[c] \in Nat BY <3>2, <4>2, <1>0
      <4> QED BY <4>2, <4>3, <3>2, <2>1, <1>1, <1>0
    <3>3. CASE c = chk
      <4>1. d >= n BY <2>2, <3>3, <1>1, <1>3, <1>7 DEF ListType
      <4> QED BY <4>1, <3>3, <2>1, <1>1
    <3>4. CASE c = n
      <4>1. d \in chunks /\ d > chk BY <2>2, <3>4, <1>0, <1>1, <1>7
      <4>2. next[chk] # Null /\ next[chk] <= d BY <4>1 DEF LinksOrdered
      <4> QED BY <4>2, <3>4, <2>1
    <3> QED BY <3>1, <3>2, <3>3, <3>4, <1>7
  <2>3. ASSUME NEW c \in chunks', next'[c] # Null PROVE c < next'[c]
    <3>1. CASE c = n
      <4>1. next'[c] = next[chk] /\ next[chk] # Null BY <2>1, <2>3, <3>1
      <4> QED BY <4>1, <3>1, <1>0, <1>1, <1>2
    <3>2. CASE c = chk BY <2>1, <3>2, <1>1
    <3>3. CASE c \in chunks /\ c # chk BY <2>1, <2>3, <3>3 DEF LinksOrdered
    <3> QED BY <3>1, <3>2, <3>3, <1>7
  <2>4. ASSUME NEW c \in chunks', NEW d \in chunks' PROVE next'[c] = d <=> previous'[d] = c
    <3>1. CASE d = n
      <4>1. c # chk /\ c # n => next'[c] # n BY <2>1, <1>6, <1>7, <1>1 DEF ListType
      <4>2. next'[n] # n BY <2>1, <1>2, <1>1
      <4> QED BY <3>1, <4>1, <4>2, <2>1, <1>6
    <3>2. CASE d \in chunks /\ d = next[chk]
      <4>1. previous'[d] = n /\ next'[n] = d BY <3>2, <2>1, <1>0
      <4>2. c \in chunks /\ c # chk => next[c] # d
        BY <3>2 DEF LinksOrdered
      <4>3. chk # n /\ d # n BY <3>2, <1>6, <1>1
      <4> QED BY <4>1, <4>2, <4>3, <2>1, <1>6, <1>7
    <3>3. CASE d \in chunks /\ d # next[chk]
      <4>1. previous'[d] = previous[d] /\ previous[d] # n BY <3>3, <2>1, <1>6, <1>1 DEF ListType
      <4>2. CASE c = n BY <4>1, <4>2, <3>3, <2>1
      <4>3. CASE c = chk
        <5>1. previous[d] # chk BY <3>3 DEF LinksOrdered
        <5> QED BY <5>1, <4>1, <4>3, <3>3, <2>1, <1>6
      <4>4. CASE c \in chunks /\ c # chk BY <4>1, <4>4, <3>3, <2>1 DEF LinksOrdered
      <4> QED BY <4>2, <4>3, <4>4, <1>7
    <3> QED BY <3>1, <3>2, <3>3, <1>7
  <2> QED BY <2>2, <2>3, <2>4 DEF LinksOrdered
<1> QED BY <1>1, <1>6, <1>7, <1>8, <1>10, <1>11

\* memory_free leaves a list in order without the chunk c.
LEMMA UnlinkKeeps ==
    ASSUME ListType, ChunksDisjoint, LinksOrdered, NEW c \in chunks, c # Root, Unlink(c)
    PROVE  /\ ListType' /\ ChunksDisjoint' /\ LinksOrdered'
           /\ chunks' = chunks \ {c}
           /\ \A d \in chunks' : size'[d] = size[d]
<1> USE AddressType, HeapAssumption
<1>1. /\ chunks' = chunks \ {c}
      /\ \A d \in chunks' : size'[d] = size[d]
      /\ \A d \in chunks' : next'[d] = IF d = previous[c] THEN next[c] ELSE next[d]
      /\ \A d \in chunks' : previous'[d] = IF d = next[c] THEN previous[c] ELSE previous[d]
      /\ size' \in [chunks' -> Nat] /\ DOMAIN next' = chunks' /\ DOMAIN previous' = chunks'
      /\ next' = [d \in chunks' |-> next'[d]] /\ previous' = [d \in chunks' |-> previous'[d]]
  BY DEF Unlink, ListType
<1>2. /\ next[c] # c /\ previous[c] # c
      /\ \A d \in chunks : (next[d] = c <=> previous[c] = d) /\ (previous[d] = c <=> next[c] = d)
  BY DEF LinksOrdered, ListType
<1>3. /\ \A d \in chunks' : next'[d] \in chunks' \cup {Null}
      /\ \A d \in chunks' : previous'[d] \in chunks' \cup {Null}
  BY <1>1, <1>2 DEF ListType
<1>4. ListType'
  <2>1. next' \in [chunks' -> chunks' \cup {Null}] BY <1>1, <1>3
  <2>2. previous' \in [chunks' -> chunks' \cup {Null}] BY <1>1, <1>3
  <2> QED BY <1>1, <2>1, <2>2 DEF ListType
<1>5. ChunksDisjoint' BY <1>1 DEF ChunksDisjoint, EndOf
<1>6. LinksOrdered'
  <2>1. ASSUME NEW d \in chunks', NEW e \in chunks', d < e PROVE next'[d] # Null /\ next'[d] <= e
    <3>1. CASE d = previous[c]
      <4>1. next[d] = c BY <3>1, <1>1, <1>2
      <4>2. c <= e BY <4>1, <2>1, <1>1 DEF LinksOrdered
      <4>3. c < e BY <4>2, <1>1 DEF ListType
      <4> QED BY <4>3, <3>1, <1>1 DEF LinksOrdered
    <3>2. CASE d # previous[c] BY <3>2, <2>1, <1>1 DEF LinksOrdered
    <3> QED BY <3>1, <3>2
  <2>2. ASSUME NEW d \in chunks', next'[d] # Null PROVE d < next'[d]
    <3>1. CASE d = previous[c]
      <4>1. next[d] = c /\ next'[d] = next[c] BY <3>1, <1>1, <1>2
      <4>2. d < c /\ c < next[c] BY <4>1, <2>2, <1>1 DEF LinksOrdered, ListType
      <4>3. next[c] \in Nat BY <4>1, <2>2 DEF ListType
      <4> QED BY <4>1, <4>2, <4>3, <1>1 DEF ListType
    <3>2. CASE d # previous[c] BY <3>2, <2>2, <1>1 DEF LinksOrdered
    <3> QED BY <3>1, <3>2
  <2>3. ASSUME NEW d \in chunks', NEW e \in chunks' PROVE next'[d] = e <=> previous'[e] = d
    <3>1. (next[d] = e <=> previous[e] = d) /\ (next[c] = e <=> previous[e] = c)
      BY <1>1 DEF LinksOrdered
    <3>2. next[d] = c <=> previous[c] = d BY <1>1, <1>2
    <3>3. d # c /\ e # c BY <1>1
    <3> QED BY <3>1, <3>2, <3>3, <1>1, <1>2
  <2> QED BY <2>1, <2>2, <2>3 DEF LinksOrdered
<1> QED BY <1>1, <1>4, <1>5, <1>6
-----------------------------------------------------------------------------
\* A byte of one chunk is not a byte of another.
LEMMA Apart ==
    ASSUME ListType, ChunksDisjoint
    PROVE  \A c, d \in chunks : \A a \in Addresses :
               c # d /\ c <= a /\ a < EndOf(c) => ~(d <= a /\ a < EndOf(d))
<1> SUFFICES ASSUME NEW c \in chunks, NEW d \in chunks, NEW a \in Addresses,
                    c # d, c <= a, a < EndOf(c), d <= a, a < EndOf(d)
             PROVE  FALSE
  OBVIOUS
<1>1. c \in Nat /\ d \in Nat /\ a \in Nat BY AddressType DEF ListType
<1>2. EndOf(c) \in Nat /\ EndOf(d) \in Nat BY <1>1, HeapAssumption DEF EndOf, ListType
<1>3. CASE c < d
  <2>1. EndOf(c) <= d BY <1>3 DEF ChunksDisjoint
  <2> QED BY <2>1, <1>1, <1>2
<1>4. CASE d < c
  <2>1. EndOf(d) <= c BY <1>4 DEF ChunksDisjoint
  <2> QED BY <2>1, <1>1, <1>2
<1> QED BY <1>1, <1>3, <1>4

\* The bytes of a header, and those a user relies on, belong to the chunk.
LEMMA InChunk ==
    ASSUME ListType, NEW c \in chunks, NEW k \in Nat, k <= size[c]
    PROVE  /\ \A a \in Bytes(c, HeaderSize) :
                  a \in Addresses /\ c <= a /\ a < Data(c) /\ a < EndOf(c)
           /\ \A a \in Bytes(Data(c), k) :
                  a \in Addresses /\ c <= a /\ Data(c) <= a /\ a < Data(c) + k /\ a < EndOf(c)
<1>1. c \in Nat /\ size[c] \in Nat /\ HeaderSize \in Nat
  BY AddressType, HeapAssumption DEF ListType
<1>2. \A a \in Addresses : a \in Nat BY AddressType
<1>3. EndOf(c) = c + HeaderSize + size[c] /\ Data(c) = c + HeaderSize BY DEF EndOf, Data
<1> QED BY <1>1, <1>2, <1>3 DEF Bytes

\* The facts about the list and the calls that the steps below start from.
LEMMA Facts ==
    ASSUME IInv
    PROVE  /\ ListType /\ ChunksDisjoint /\ LinksOrdered
           /\ HeaderSize \in Nat /\ HeaderSize > 0 /\ Limit \in Nat
           /\ \A c \in chunks : /\ c \in Nat /\ c # Null /\ c \in Addresses /\ size[c] \in Nat
                                /\ EndOf(c) \in Nat /\ Data(c) \in Nat
           /\ \A u \in Users : filled[u] \in Nat /\ (held[u] # Null => held[u] \in chunks \ {Root})
           /\ Other \notin Users /\ Header \notin Users
<1>1. ListType BY DEF IInv, TypeOK, ListType
<1>2. \A c \in chunks : c \in Nat /\ c # Null /\ c \in Addresses /\ size[c] \in Nat
  BY <1>1, AddressType DEF ListType
<1>3. HeaderSize \in Nat /\ HeaderSize > 0 /\ Limit \in Nat BY HeapAssumption
<1>4. \A c \in chunks : EndOf(c) \in Nat /\ Data(c) \in Nat
  BY <1>2, <1>3 DEF EndOf, Data
<1>5. \A u \in Users : filled[u] \in Nat /\ (held[u] # Null => held[u] \in chunks \ {Root})
  BY DEF IInv, TypeOK
<1> QED BY <1>1, <1>2, <1>3, <1>4, <1>5, HeapAssumption DEF IInv
-----------------------------------------------------------------------------
\* The heap starts with the root chunk alone.
LEMMA InitIInv == Init => IInv
<1> SUFFICES ASSUME Init PROVE IInv OBVIOUS
<1>1. HeaderSize \in Nat /\ HeaderSize > 0 /\ Limit \in Nat /\ Root \in Nat /\ Root > 0
      /\ Root + HeaderSize <= Limit /\ Header \notin Users /\ Other \notin Users
  BY HeapAssumption
<1>2. chunks = {Root} /\ next[Root] = Null /\ previous[Root] = Null /\ size[Root] = 0
  BY DEF Init
<1>3. TypeOK BY <1>1, <1>2 DEF Init, TypeOK, Addresses, Null
<1>4. ChunksDisjoint BY <1>1, <1>2 DEF ChunksDisjoint, EndOf
<1>5. LinksOrdered BY <1>1, <1>2 DEF LinksOrdered, Null
<1>6. Owners BY <1>1 DEF Init, Owners
<1>7. DataKept
  <2>1. \A a \in Bytes(Root, HeaderSize) : memory[a] = Header
    BY <1>1 DEF Init, Bytes, Addresses
  <2> QED BY <2>1, <1>2 DEF Init, DataKept
<1>8. Copied BY DEF Init, Copied
<1> QED BY <1>3, <1>4, <1>5, <1>6, <1>7, <1>8 DEF IInv

\* A call begins, or its walk goes on: the list and memory stay as they are.
LEMMA WalkStep ==
    ASSUME IInv,
           Walk \/ \E u \in Users, n \in Requests : Allocate(u, n) \/ ResizeElsewhere(u, n)
    PROVE  IInv'
<1>1. UNCHANGED <<list, memory, held, filled, new>>
  BY DEF Walk, Allocate, ResizeElsewhere
<1>2. call' \in {"allocate", "resize"} /\ call \in {"none", "allocate", "resize"}
  BY DEF Walk, Allocate, ResizeElsewhere
<1>3. TypeOK'
  <2>1. CASE Walk
    <3>1. chk \in chunks /\ next[chk] # Null BY <2>1 DEF Walk, Room, IInv, TypeOK
    <3>2. chk' \in chunks BY <2>1, <3>1 DEF Walk, IInv, TypeOK
    <3> QED BY <2>1, <3>2, <1>1 DEF Walk, IInv, TypeOK, list
  <2>2. ASSUME NEW u \in Users, NEW n \in Requests, Allocate(u, n) \/ ResizeElsewhere(u, n)
        PROVE  TypeOK'
    <3>1. bytes' \in Nat
      <4>1. n \in Nat BY HeapAssumption
      <4>2. bytes' = ALIGN_TO_NEXT(n) BY <2>2 DEF Allocate, ResizeElsewhere
      <4> QED BY <4>1, <4>2, AlignType
    <3>2. user' = u /\ chk' = Root /\ (call' = "resize" => held[u] # Null) /\ call = "none"
      BY <2>2 DEF Allocate, ResizeElsewhere
    <3>3. new = Null BY <3>2 DEF IInv, TypeOK
    <3> QED BY <3>1, <3>2, <3>3, <1>1, <1>2 DEF IInv, TypeOK, list
  <2> QED BY <2>1, <2>2
<1>4. ChunksDisjoint' /\ LinksOrdered'
  BY <1>1 DEF IInv, ChunksDisjoint, LinksOrdered, EndOf, list
<1>5. Owners'
  <2>1. call' = "allocate" => held[user'] = Null
    BY DEF Walk, Allocate, ResizeElsewhere, IInv, Owners
  <2> QED BY <2>1, <1>1, <1>2 DEF IInv, Owners, list
<1>6. DataKept' BY <1>1 DEF IInv, DataKept, Data, list
<1>7. Copied' BY <1>2 DEF Copied
<1> QED BY <1>3, <1>4, <1>5, <1>6, <1>7 DEF IInv

\* memory_allocate links its new chunk: its header lies in no other chunk.
LEMMA InsertStep == ASSUME IInv, Insert PROVE IInv'
<1> USE Facts
<1>1. PICK n :
      /\ n = EndOf(chk)
      /\ call \in {"allocate", "resize"} /\ Room(chk) /\ n + HeaderSize + bytes <= Limit
      /\ LinkChunk(n) /\ filled' = filled
      /\ memory' = [a \in Addresses |-> IF a \in Bytes(n, HeaderSize) THEN Header ELSE memory[a]]
      /\ \/ /\ call = "allocate" /\ held' = [held EXCEPT ![user] = n] /\ Done
         \/ /\ call = "resize" /\ call' = "copy" /\ new' = n /\ chk' = Null
            /\ UNCHANGED <<held, user, bytes>>
  BY DEF Insert
<1>2. chk \in chunks /\ bytes \in Nat /\ user \in Users BY <1>1 DEF IInv, TypeOK
<1>3. /\ ListType' /\ ChunksDisjoint' /\ LinksOrdered'
      /\ n \in Addresses \ chunks /\ n # Root
      /\ chunks' = chunks \cup {n} /\ size'[n] = bytes
      /\ \A c \in chunks : size'[c] = size[c]
  BY <1>1, <1>2, LinkKeeps
<1>4. n # Null /\ n \in Nat BY <1>3, AddressType
<1>5. TypeOK'
  <2>1. memory' \in [Addresses -> Users \cup {Header, Other}] BY <1>1 DEF IInv, TypeOK
  <2>2. held' \in [Users -> (chunks' \ {Root}) \cup {Null}]
    BY <1>1, <1>3 DEF IInv, TypeOK
  <2>3. CASE call = "allocate"
    BY <2>1, <2>2, <2>3, <1>1, <1>3 DEF IInv, TypeOK, ListType, Done
  <2>4. CASE call = "resize"
    BY <2>1, <2>2, <2>4, <1>1, <1>2, <1>3 DEF IInv, TypeOK, ListType
  <2> QED BY <2>3, <2>4, <1>1
<1>6. \A u \in Users : held'[u] = held[u] \/ (held'[u] = n /\ held[u] = Null /\ u = user /\ call = "allocate")
  <2>1. call = "allocate" => held[user] = Null BY DEF IInv, TypeOK, Owners
  <2> QED BY <2>1, <1>1 DEF IInv, TypeOK
<1>7. Owners'
  <2>1. ASSUME NEW u \in Users, NEW v \in Users, u # v
        PROVE  held'[u] = Null \/ held'[u] # held'[v]
    <3>1. held[u] = Null \/ held[u] # held[v] BY <2>1 DEF IInv, Owners
    <3>2. held[u] # n /\ held[v] # n BY <1>3, <1>4
    <3> QED BY <3>1, <3>2, <1>6, <2>1
  <2>2. ASSUME NEW u \in Users
        PROVE  IF held'[u] = Null THEN filled'[u] = 0 ELSE filled'[u] <= size'[held'[u]]
    <3>1. IF held[u] = Null THEN filled[u] = 0 ELSE filled[u] <= size[held[u]]
      BY DEF IInv, Owners
    <3> QED BY <3>1, <1>1, <1>2, <1>3, <1>4, <1>6
  <2>3. call' = "copy" => size'[n] = bytes /\ \A u \in Users : held'[u] # n
    <3> HAVE call' = "copy"
    <3>1. held' = held BY <1>1 DEF Done
    <3> QED BY <3>1, <1>3, <1>4
  <2> QED BY <2>1, <2>2, <2>3, <1>1 DEF Owners, Done
<1>8. DataKept'
  <2>1. ASSUME NEW c \in chunks', NEW a \in Bytes(c, HeaderSize) PROVE memory'[a] = Header
    <3>1. a \in Addresses BY DEF Bytes
    <3>2. CASE c = n BY <3>1, <3>2, <1>1
    <3>3. CASE c \in chunks
      <4>1. memory[a] = Header BY <3>3 DEF IInv, DataKept
      <4> QED BY <4>1, <3>1, <1>1
    <3> QED BY <3>2, <3>3, <1>3
  <2>2. ASSUME NEW u \in Users, held'[u] # Null, NEW a \in Bytes(Data(held'[u]), filled'[u])
        PROVE  memory'[a] = u
    <3>1. CASE held[u] = Null
      <4>1. filled'[u] = 0 BY <3>1, <1>1 DEF IInv, Owners
      <4>2. held'[u] = n BY <3>1, <2>2, <1>6
      <4> QED BY <4>1, <4>2, <1>4, AddressType DEF Bytes, Data
    <3>2. CASE held[u] # Null
      <4>0. PICK h : h = held[u] OBVIOUS
      <4>1. h \in chunks /\ filled[u] \in Nat /\ filled[u] <= size[h] /\ held'[u] = h
        BY <3>2, <4>0, <1>6 DEF IInv, Owners
      <4>2. a \in Addresses /\ h <= a /\ a < EndOf(h) /\ memory[a] = u
        <5>1. a \in Bytes(Data(h), filled[u]) BY <4>1, <1>1
        <5>2. a \in Addresses /\ h <= a /\ a < EndOf(h) BY <5>1, <4>1, InChunk
        <5> QED BY <5>1, <5>2, <3>2, <4>0 DEF IInv, DataKept
      <4>3. a \notin Bytes(n, HeaderSize)
        <5>1. h \in chunks' /\ n \in chunks' /\ h # n BY <4>1, <1>3
        <5>2. EndOf(h)' = EndOf(h) /\ EndOf(n)' = n + HeaderSize + bytes
          BY <4>1, <1>3 DEF EndOf
        <5>3. CASE h < n
          <6>1. EndOf(h) <= n BY <5>1, <5>2, <5>3, <1>3 DEF ChunksDisjoint
          <6> QED BY <6>1, <4>1, <4>2, <1>4, AddressType DEF Bytes
        <5>4. CASE n < h
          <6>1. n + HeaderSize + bytes <= h BY <5>1, <5>2, <5>4, <1>3 DEF ChunksDisjoint
          <6> QED BY <6>1, <4>1, <4>2, <1>2, <1>4, AddressType DEF Bytes
        <5> QED BY <5>1, <5>3, <5>4, <4>1, <1>4
      <4> QED BY <4>2, <4>3, <1>1
    <3> QED BY <3>1, <3>2
  <2> QED BY <2>1, <2>2 DEF DataKept, Data
<1>9. Copied' BY <1>1 DEF Copied, Done
<1> QED BY <1>3, <1>5, <1>7, <1>8, <1>9 DEF IInv

\* What memory_free of c changes in memory is not in any other chunk.
LEMMA ForgetOthers ==
    ASSUME IInv, NEW c \in chunks, Forget(c, EndOf(c)), NEW d \in chunks, d # c,
           NEW k \in Nat, k <= size[d]
    PROVE  /\ \A a \in Bytes(d, HeaderSize) : memory'[a] = Header
           /\ \A a \in Bytes(Data(d), k) : memory'[a] = memory[a]
<1> USE Facts
<1>1. \A a \in Addresses : d <= a /\ a < EndOf(d) => memory'[a] = memory[a]
  <2> TAKE a \in Addresses
  <2> HAVE d <= a /\ a < EndOf(d)
  <2>1. ~(c <= a /\ a < EndOf(c)) BY Apart
  <2> QED BY <2>1 DEF Forget
<1>2. \A a \in Bytes(d, HeaderSize) : memory[a] = Header BY DEF IInv, DataKept
<1> QED BY <1>1, <1>2, InChunk

\* memory_free: the other chunks and their bytes stay as they are.
LEMMA FreeStep ==
    ASSUME IInv, NEW u \in Users, memory_free(u)
    PROVE  IInv'
<1> USE Facts
<1>1. PICK c : c = held[u] OBVIOUS
<1>2. /\ c \in chunks /\ c # Root /\ call = "none" /\ Unlink(c)
      /\ held' = [held EXCEPT ![u] = Null] /\ filled' = [filled EXCEPT ![u] = 0]
      /\ UNCHANGED calling
  BY <1>1 DEF memory_free
<1>3. /\ ListType' /\ ChunksDisjoint' /\ LinksOrdered' /\ chunks' = chunks \ {c}
      /\ \A d \in chunks' : size'[d] = size[d]
  BY <1>2, UnlinkKeeps
<1>4. Forget(c, EndOf(c)) BY <1>2 DEF Unlink
<1>5. \A v \in Users : v # u => held'[v] = held[v] /\ filled'[v] = filled[v] /\ held[v] # c
  BY <1>1, <1>2 DEF IInv, TypeOK, Owners
<1>6. held'[u] = Null /\ filled'[u] = 0 BY <1>2 DEF IInv, TypeOK
<1>7. TypeOK'
  <2>1. memory' \in [Addresses -> Users \cup {Header, Other}]
    BY <1>4 DEF Forget, IInv, TypeOK
  <2>2. held' \in [Users -> (chunks' \ {Root}) \cup {Null}] /\ filled' \in [Users -> Nat]
    BY <1>2, <1>3, <1>5 DEF IInv, TypeOK
  <2> QED BY <2>1, <2>2, <1>2, <1>3 DEF IInv, TypeOK, ListType, calling
<1>8. Owners'
  <2>1. \A v, w \in Users : v # w => held'[v] = Null \/ held'[v] # held'[w]
    BY <1>5, <1>6 DEF IInv, Owners
  <2>2. ASSUME NEW v \in Users
        PROVE  IF held'[v] = Null THEN filled'[v] = 0 ELSE filled'[v] <= size'[held'[v]]
    BY <1>3, <1>5, <1>6 DEF IInv, Owners
  <2> QED BY <2>1, <2>2, <1>2 DEF Owners, calling
<1>9. DataKept'
  <2>1. \A d \in chunks' : \A a \in Bytes(d, HeaderSize) : memory'[a] = Header
    <3> TAKE d \in chunks'
    <3>1. d \in chunks /\ d # c /\ 0 \in Nat /\ 0 <= size[d] BY <1>3
    <3> QED BY <3>1, <1>2, <1>4, ForgetOthers
  <2>2. ASSUME NEW v \in Users, held'[v] # Null, NEW a \in Bytes(Data(held'[v]), filled'[v])
        PROVE  memory'[a] = v
    <3>1. v # u /\ held'[v] = held[v] /\ filled'[v] = filled[v] /\ held[v] # c
      BY <2>2, <1>5, <1>6
    <3>2. held[v] \in chunks /\ filled[v] \in Nat /\ filled[v] <= size[held[v]]
      BY <2>2, <3>1 DEF IInv, Owners
    <3>3. memory[a] = v BY <2>2, <3>1 DEF IInv, DataKept
    <3>4. memory'[a] = memory[a] BY <2>2, <3>1, <3>2, <1>2, <1>4, ForgetOthers
    <3> QED BY <3>3, <3>4
  <2> QED BY <2>1, <2>2 DEF DataKept, Data
<1>10. Copied' BY <1>2 DEF Copied, calling
<1> QED BY <1>3, <1>7, <1>8, <1>9, <1>10 DEF IInv

\* The end of memory_resize: the user gets the new chunk, which has its bytes.
LEMMA FreeOldStep == ASSUME IInv, FreeOld PROVE IInv'
<1> USE Facts
<1>1. call = "free" /\ user \in Users /\ held[user] # Null /\ bytes \in Nat
      /\ new \in chunks \ {Root}
  BY DEF FreeOld, IInv, TypeOK
<1>2. PICK c : c = held[user] OBVIOUS
<1>3. PICK u \in Users : u = user BY <1>1
<1>4. PICK n : n = new OBVIOUS
<1>5. PICK k : k = IF filled[u] <= bytes THEN filled[u] ELSE bytes OBVIOUS
<1>6. /\ c \in chunks /\ c # Root /\ n \in chunks /\ n # Root /\ Unlink(c) /\ Done
      /\ held' = [held EXCEPT ![u] = n] /\ filled' = [filled EXCEPT ![u] = k]
  BY <1>1, <1>2, <1>3, <1>4, <1>5 DEF FreeOld, IInv, TypeOK
<1>7. /\ ListType' /\ ChunksDisjoint' /\ LinksOrdered' /\ chunks' = chunks \ {c}
      /\ \A d \in chunks' : size'[d] = size[d]
  BY <1>6, UnlinkKeeps
<1>8. Forget(c, EndOf(c)) BY <1>6 DEF Unlink
<1>9. /\ n # c /\ size[n] = bytes /\ \A v \in Users : held[v] # n
      /\ k \in Nat /\ k <= size[n] /\ k <= filled[u]
  BY <1>1, <1>2, <1>3, <1>4, <1>5 DEF IInv, Owners
<1>10. \A v \in Users : v # u => held'[v] = held[v] /\ filled'[v] = filled[v] /\ held[v] # c
  BY <1>1, <1>2, <1>3, <1>6 DEF IInv, TypeOK, Owners
<1>11. held'[u] = n /\ filled'[u] = k BY <1>6 DEF IInv, TypeOK
<1>12. TypeOK'
  <2>1. memory' \in [Addresses -> Users \cup {Header, Other}]
    BY <1>8 DEF Forget, IInv, TypeOK
  <2>2. \A v \in Users : held'[v] \in (chunks' \ {Root}) \cup {Null} /\ filled'[v] \in Nat
    BY <1>6, <1>7, <1>9, <1>10, <1>11
  <2>3. held' \in [Users -> (chunks' \ {Root}) \cup {Null}] /\ filled' \in [Users -> Nat]
    BY <2>2, <1>6 DEF IInv, TypeOK
  <2> QED BY <2>1, <2>3, <1>6, <1>7 DEF TypeOK, ListType, Done
<1>13. Owners'
  <2>1. \A v, w \in Users : v # w => held'[v] = Null \/ held'[v] # held'[w]
    BY <1>9, <1>10, <1>11 DEF IInv, Owners
  <2>2. ASSUME NEW v \in Users
        PROVE  IF held'[v] = Null THEN filled'[v] = 0 ELSE filled'[v] <= size'[held'[v]]
    <3>1. CASE v = u
      <4>1. n \in chunks' /\ n # Null BY <1>6, <1>7, <1>9
      <4> QED BY <3>1, <4>1, <1>7, <1>9, <1>11
    <3>2. CASE v # u BY <3>2, <1>7, <1>10 DEF IInv, Owners
    <3> QED BY <3>1, <3>2
  <2> QED BY <2>1, <2>2, <1>6 DEF Owners, Done
<1>14. DataKept'
  <2>1. \A d \in chunks' : \A a \in Bytes(d, HeaderSize) : memory'[a] = Header
    <3> TAKE d \in chunks'
    <3>1. d \in chunks /\ d # c /\ 0 \in Nat /\ 0 <= size[d] BY <1>7
    <3> QED BY <3>1, <1>6, <1>8, ForgetOthers
  <2>2. ASSUME NEW v \in Users, held'[v] # Null, NEW a \in Bytes(Data(held'[v]), filled'[v])
        PROVE  memory'[a] = v
    <3>1. CASE v # u
      <4>1. held'[v] = held[v] /\ filled'[v] = filled[v] /\ held[v] # c
        BY <3>1, <1>10
      <4>2. held[v] \in chunks /\ filled[v] \in Nat /\ filled[v] <= size[held[v]]
        BY <2>2, <4>1 DEF IInv, Owners
      <4>3. memory[a] = v BY <2>2, <4>1 DEF IInv, DataKept
      <4>4. memory'[a] = memory[a] BY <2>2, <4>1, <4>2, <1>6, <1>8, ForgetOthers
      <4> QED BY <4>3, <4>4
    <3>2. CASE v = u
      <4>1. a \in Bytes(Data(n), k) BY <2>2, <3>2, <1>11
      <4>2. a \in Addresses /\ a < Data(n) + k /\ Data(n) <= a BY <4>1, <1>6, <1>9, InChunk
      <4>3. a \in Bytes(Data(n), filled[u]) /\ a < Data(n) + bytes
        BY <4>2, <1>1, <1>6, <1>9, AddressType DEF Bytes
      <4>4. memory[a] = u BY <4>3, <1>1, <1>3, <1>4 DEF IInv, Copied
      <4>5. memory'[a] = memory[a] BY <4>1, <1>6, <1>8, <1>9, ForgetOthers
      <4> QED BY <4>4, <4>5, <3>2
    <3> QED BY <3>1, <3>2
  <2> QED BY <2>1, <2>2 DEF DataKept, Data
<1>15. Copied' BY <1>6 DEF Copied, Done
<1> QED BY <1>7, <1>12, <1>13, <1>14, <1>15 DEF IInv

\* Writing to the bytes behind the header of c changes no header, and no byte of
\* another chunk.
LEMMA WriteInside ==
    ASSUME IInv, NEW c \in chunks, NEW a \in Addresses, Data(c) <= a, a < EndOf(c)
    PROVE  /\ \A d \in chunks : a \notin Bytes(d, HeaderSize)
           /\ \A d \in chunks : \A k \in Nat : d # c /\ k <= size[d] => a \notin Bytes(Data(d), k)
<1> USE Facts
<1>1. c <= a BY AddressType DEF Data
<1>2. ASSUME NEW d \in chunks PROVE a \notin Bytes(d, HeaderSize)
  <2>1. CASE d = c BY <2>1, AddressType DEF Bytes, Data
  <2>2. CASE d # c
    <3>1. ~(d <= a /\ a < EndOf(d)) BY <2>2, <1>1, Apart
    <3> QED BY <3>1, InChunk
  <2> QED BY <2>1, <2>2
<1>3. ASSUME NEW d \in chunks, NEW k \in Nat, d # c, k <= size[d]
      PROVE  a \notin Bytes(Data(d), k)
  <2>1. ~(d <= a /\ a < EndOf(d)) BY <1>3, <1>1, Apart
  <2> QED BY <2>1, <1>3, InChunk
<1> QED BY <1>2, <1>3

\* A user writes the bytes of its chunk.
LEMMA WriteStep == ASSUME IInv, NEW u \in Users, Write(u) PROVE IInv'
<1> USE Facts
<1>1. PICK c : c = held[u] OBVIOUS
<1>2. /\ c \in chunks /\ call = "none" /\ size[c] \in Nat
      /\ memory' = [a \in Addresses |-> IF a \in Bytes(Data(c), size[c]) THEN u ELSE memory[a]]
      /\ filled' = [filled EXCEPT ![u] = size[c]]
      /\ UNCHANGED <<list, held, calling>>
  BY <1>1 DEF Write
<1>3. TypeOK' BY <1>2 DEF IInv, TypeOK, list, calling
<1>4. ChunksDisjoint' /\ LinksOrdered'
  BY <1>2 DEF IInv, ChunksDisjoint, LinksOrdered, EndOf, list
<1>5. filled'[u] = size[c] /\ \A v \in Users : v # u => filled'[v] = filled[v] /\ held[v] # c
  BY <1>1, <1>2 DEF IInv, TypeOK, Owners
<1>6. Owners'
  <2>1. ASSUME NEW v \in Users
        PROVE  IF held[v] = Null THEN filled'[v] = 0 ELSE filled'[v] <= size[held[v]]
    BY <1>1, <1>2, <1>5 DEF IInv, Owners
  <2> QED BY <2>1, <1>2 DEF IInv, Owners, list, calling
<1>7. \A a \in Bytes(Data(c), size[c]) : a \in Addresses /\ Data(c) <= a /\ a < EndOf(c)
  BY <1>2, InChunk
<1>8. DataKept'
  <2>1. ASSUME NEW d \in chunks, NEW a \in Bytes(d, HeaderSize) PROVE memory'[a] = Header
    <3>1. a \in Addresses /\ memory[a] = Header BY DEF Bytes, IInv, DataKept
    <3>2. a \notin Bytes(Data(c), size[c]) BY <1>2, <1>7, <3>1, WriteInside
    <3> QED BY <3>1, <3>2, <1>2
  <2>2. ASSUME NEW v \in Users, held[v] # Null, NEW a \in Bytes(Data(held[v]), filled'[v])
        PROVE  memory'[a] = v
    <3>1. a \in Addresses BY DEF Bytes
    <3>2. CASE v = u BY <2>2, <3>1, <3>2, <1>1, <1>2, <1>5
    <3>3. CASE v # u
      <4>1. held[v] \in chunks /\ held[v] # c /\ filled[v] \in Nat /\ filled[v] <= size[held[v]]
        BY <2>2, <3>3, <1>5 DEF IInv, Owners
      <4>2. a \in Bytes(Data(held[v]), filled[v]) /\ memory[a] = v
        BY <2>2, <3>3, <1>5 DEF IInv, DataKept
      <4>3. a \notin Bytes(Data(c), size[c]) BY <4>1, <4>2, <3>1, <1>2, <1>7, WriteInside
      <4> QED BY <4>2, <4>3, <3>1, <1>2
    <3> QED BY <3>2, <3>3
  <2> QED BY <2>1, <2>2, <1>2 DEF DataKept, Data, list
<1>9. Copied' BY <1>2 DEF Copied, calling
<1> QED BY <1>3, <1>4, <1>6, <1>8, <1>9 DEF IInv

\* memory_copy writes inside the new chunk only, and what it reads for the bytes that
\* the user relies on are the user's.
LEMMA CopyStep == ASSUME IInv, memory_copy PROVE IInv'
<1> USE Facts
<1>1. /\ call = "copy" /\ call' = "free" /\ user \in Users /\ held[user] \in chunks
      /\ bytes \in Nat /\ new \in chunks /\ size[new] = bytes
      /\ UNCHANGED <<list, held, filled, user, bytes, chk, new>>
      /\ \A v \in Users : held[v] # new
  BY DEF memory_copy, IInv, TypeOK, Owners
<1>2. PICK source : source = [a \in Addresses |-> Data(held[user]) + (a - Data(new))] OBVIOUS
<1>3. memory' = [a \in Addresses |->
          IF a \in Bytes(Data(new), bytes) /\ source[a] \in Addresses
          THEN memory[source[a]] ELSE memory[a]]
  BY <1>2 DEF memory_copy
<1>4. TypeOK'
  <2>1. memory' \in [Addresses -> Users \cup {Header, Other}] BY <1>3 DEF IInv, TypeOK
  <2> QED BY <2>1, <1>1 DEF IInv, TypeOK, list
<1>5. ChunksDisjoint' /\ LinksOrdered'
  BY <1>1 DEF IInv, ChunksDisjoint, LinksOrdered, EndOf, list
<1>6. Owners' BY <1>1 DEF IInv, Owners, list
<1>7. \A a \in Bytes(Data(new), bytes) : a \in Addresses /\ Data(new) <= a /\ a < EndOf(new)
  BY <1>1, InChunk
<1>8. DataKept'
  <2>1. ASSUME NEW d \in chunks, NEW a \in Bytes(d, HeaderSize) PROVE memory'[a] = Header
    <3>1. a \in Addresses /\ memory[a] = Header BY DEF Bytes, IInv, DataKept
    <3>2. a \notin Bytes(Data(new), bytes) BY <1>1, <1>7, <3>1, WriteInside
    <3> QED BY <3>1, <3>2, <1>3
  <2>2. ASSUME NEW v \in Users, held[v] # Null, NEW a \in Bytes(Data(held[v]), filled[v])
        PROVE  memory'[a] = v
    <3>1. a \in Addresses /\ memory[a] = v BY <2>2 DEF Bytes, IInv, DataKept
    <3>2. held[v] \in chunks /\ held[v] # new /\ filled[v] \in Nat /\ filled[v] <= size[held[v]]
      BY <2>2, <1>1 DEF IInv, Owners
    <3>3. a \notin Bytes(Data(new), bytes) BY <2>2, <3>1, <3>2, <1>1, <1>7, WriteInside
    <3> QED BY <3>1, <3>3, <1>3
  <2> QED BY <2>1, <2>2, <1>1 DEF DataKept, Data, list
<1>9. Copied'
  <2>1. ASSUME NEW a \in Bytes(Data(new), filled[user]), a < Data(new) + bytes
        PROVE  memory'[a] = user
    <3>1. /\ a \in Addresses /\ a \in Nat /\ Data(new) <= a /\ a < Data(new) + filled[user]
          /\ Data(new) \in Nat /\ Data(held[user]) \in Nat /\ filled[user] \in Nat
      BY <1>1, AddressType DEF Bytes
    <3>2. a \in Bytes(Data(new), bytes) BY <3>1, <2>1 DEF Bytes
    <3>3. filled[user] <= size[held[user]] BY <1>1 DEF IInv, Owners
    <3>4. /\ source[a] \in Nat /\ Data(held[user]) <= source[a]
          /\ source[a] < Data(held[user]) + filled[user]
      BY <3>1, <1>2
    <3>5. source[a] \in Addresses
      <4>1. EndOf(held[user]) <= Limit /\ held[user] >= Root
        BY <1>1, AddressType DEF ChunksDisjoint
      <4>2. EndOf(held[user]) = Data(held[user]) + size[held[user]] BY DEF EndOf, Data
      <4>3. Data(held[user]) >= Root BY <4>1, <1>1, HeapAssumption DEF Data
      <4> QED BY <4>1, <4>2, <4>3, <3>1, <3>3, <3>4, <1>1, HeapAssumption DEF Addresses
    <3>6. source[a] \in Bytes(Data(held[user]), filled[user]) BY <3>4, <3>5 DEF Bytes
    <3>7. memory[source[a]] = user BY <3>6, <1>1 DEF IInv, DataKept
    <3> QED BY <3>1, <3>2, <3>5, <3>7, <1>3
  <2> QED BY <2>1, <1>1 DEF Copied, Data
<1> QED BY <1>4, <1>5, <1>6, <1>8, <1>9 DEF IInv

\* memory_resize changes the size of the last chunk only, behind which there is none.
LEMMA ResizeStep ==
    ASSUME IInv, NEW u \in Users, NEW r \in Requests, ResizeInPlace(u, r)
    PROVE  IInv'
<1> USE Facts
<1>1. PICK c : c = held[u] OBVIOUS
<1>2. PICK n \in Nat : n = ALIGN_TO_NEXT(r) BY AlignType, HeapAssumption
<1>3. PICK k : k = IF filled[u] <= n THEN filled[u] ELSE n OBVIOUS
<1>4. /\ c \in chunks /\ c # Root /\ call = "none" /\ size[c] \in Nat
      /\ next[c] = Null \/ c + size[c] >= next[c]
      /\ c + HeaderSize + n <= Limit
      /\ size' = [size EXCEPT ![c] = n] /\ filled' = [filled EXCEPT ![u] = k]
      /\ Forget(Data(c) + n, EndOf(c))
      /\ UNCHANGED <<chunks, next, previous, held, calling>>
  BY <1>1, <1>2, <1>3 DEF ResizeInPlace, IInv, TypeOK
<1>5. next[c] = Null
  <2> SUFFICES ASSUME next[c] # Null PROVE FALSE OBVIOUS
  <2>1. next[c] \in chunks /\ c < next[c] BY <1>4 DEF ListType, LinksOrdered
  <2>2. EndOf(c) <= next[c] BY <1>4, <2>1 DEF ChunksDisjoint
  <2> QED BY <2>1, <2>2, <1>4 DEF EndOf
<1>6. \A d \in chunks : d # c => d < c
  <2> TAKE d \in chunks
  <2> HAVE d # c
  <2>1. ~(c < d) BY <1>4, <1>5 DEF LinksOrdered
  <2> QED BY <2>1, <1>4
<1>7. size'[c] = n /\ \A d \in chunks : d # c => size'[d] = size[d]
  BY <1>4 DEF ListType
<1>8. /\ k \in Nat /\ k <= n /\ k <= filled[u] /\ filled'[u] = k
      /\ \A v \in Users : v # u => filled'[v] = filled[v] /\ (held[v] # Null => held[v] # c)
  BY <1>1, <1>3, <1>4 DEF IInv, TypeOK, Owners
<1>9. TypeOK'
  <2>1. memory' \in [Addresses -> Users \cup {Header, Other}]
    BY <1>4 DEF Forget, IInv, TypeOK
  <2>2. size' \in [chunks -> Nat] /\ size'[Root] = 0 BY <1>4, <1>7 DEF ListType
  <2>3. filled' \in [Users -> Nat] BY <1>4, <1>8 DEF IInv, TypeOK
  <2> QED BY <2>1, <2>2, <2>3, <1>4 DEF IInv, TypeOK, calling
<1>10. ChunksDisjoint'
  <2>1. \A d \in chunks : EndOf(d)' = d + HeaderSize + size'[d] BY DEF EndOf
  <2>2. \A d \in chunks : d # c => EndOf(d)' = EndOf(d) BY <2>1, <1>7 DEF EndOf
  <2>3. \A d \in chunks : EndOf(d)' <= Limit
    BY <2>1, <2>2, <1>4, <1>7 DEF ChunksDisjoint
  <2>4. ASSUME NEW d \in chunks, NEW e \in chunks, d < e PROVE EndOf(d)' <= e
    <3>1. d # c BY <2>4, <1>4, <1>6
    <3> QED BY <2>2, <2>4, <3>1 DEF ChunksDisjoint
  <2> QED BY <2>3, <2>4, <1>4 DEF ChunksDisjoint
<1>11. LinksOrdered' BY <1>4 DEF LinksOrdered
<1>12. Owners'
  <2>1. ASSUME NEW v \in Users
        PROVE  IF held[v] = Null THEN filled'[v] = 0 ELSE filled'[v] <= size'[held[v]]
    <3>1. CASE v = u BY <3>1, <1>1, <1>4, <1>7, <1>8
    <3>2. CASE v # u BY <3>2, <1>7, <1>8 DEF IInv, Owners
    <3> QED BY <3>1, <3>2
  <2> QED BY <2>1, <1>4 DEF IInv, Owners, calling
<1>13. \A d \in chunks : \A a \in Addresses :
           d # c /\ d <= a /\ a < EndOf(d) => memory'[a] = memory[a]
  <2> TAKE d \in chunks
  <2> TAKE a \in Addresses
  <2> HAVE d # c /\ d <= a /\ a < EndOf(d)
  <2>1. d < c BY <1>6
  <2>2. EndOf(d) <= c BY <2>1, <1>4 DEF ChunksDisjoint
  <2>3. a < Data(c) + n BY <2>2, <1>4, AddressType DEF Data
  <2> QED BY <2>3, <1>4, AddressType DEF Forget
<1>14. \A a \in Addresses : a < Data(c) + n => memory'[a] = memory[a]
  BY <1>4, AddressType DEF Forget
<1>15. DataKept'
  <2>1. ASSUME NEW d \in chunks, NEW a \in Bytes(d, HeaderSize) PROVE memory'[a] = Header
    <3>1. a \in Addresses /\ d <= a /\ a < Data(d) /\ a < EndOf(d) /\ memory[a] = Header
      BY InChunk DEF IInv, DataKept
    <3>2. CASE d = c BY <3>1, <3>2, <1>4, <1>14, AddressType
    <3>3. CASE d # c BY <3>1, <3>3, <1>13
    <3> QED BY <3>2, <3>3
  <2>2. ASSUME NEW v \in Users, held[v] # Null, NEW a \in Bytes(Data(held[v]), filled'[v])
        PROVE  memory'[a] = v
    <3>1. a \in Addresses BY DEF Bytes
    <3>2. CASE v = u
      <4>1. a \in Bytes(Data(c), k) BY <2>2, <3>2, <1>1, <1>8
      <4>2. a \in Bytes(Data(c), filled[u]) /\ a < Data(c) + n
        BY <4>1, <3>1, <1>4, <1>8, AddressType DEF Bytes
      <4>3. memory[a] = u BY <4>2, <2>2, <3>2, <1>1 DEF IInv, DataKept
      <4> QED BY <4>2, <4>3, <3>1, <3>2, <1>14
    <3>3. CASE v # u
      <4>1. held[v] \in chunks /\ held[v] # c /\ filled[v] \in Nat /\ filled[v] <= size[held[v]]
        BY <2>2, <3>3, <1>8 DEF IInv, Owners
      <4>2. a \in Bytes(Data(held[v]), filled[v]) /\ memory[a] = v
        BY <2>2, <3>3, <1>8 DEF IInv, DataKept
      <4>3. held[v] <= a /\ a < EndOf(held[v]) BY <4>1, <4>2, InChunk
      <4> QED BY <4>1, <4>2, <4>3, <3>1, <1>13
    <3> QED BY <3>2, <3>3
  <2> QED BY <2>1, <2>2, <1>4 DEF DataKept, Data
<1>16. Copied' BY <1>4 DEF Copied, calling
<1> QED BY <1>9, <1>10, <1>11, <1>12, <1>15, <1>16 DEF IInv
-----------------------------------------------------------------------------
\* Every step of memory.c and its users keeps the invariant.
LEMMA IInvInductive == IInv /\ [Next]_vars => IInv'
<1> SUFFICES ASSUME IInv, [Next]_vars PROVE IInv' OBVIOUS
<1>1. CASE Walk BY <1>1, WalkStep
<1>2. CASE Insert BY <1>2, InsertStep
<1>3. CASE memory_copy BY <1>3, CopyStep
<1>4. CASE FreeOld BY <1>4, FreeOldStep
<1>5. ASSUME NEW u \in Users, memory_free(u) PROVE IInv' BY <1>5, FreeStep
<1>6. ASSUME NEW u \in Users, Write(u) PROVE IInv' BY <1>6, WriteStep
<1>7. ASSUME NEW u \in Users, NEW n \in Requests, Allocate(u, n) \/ ResizeElsewhere(u, n)
      PROVE  IInv'
  BY <1>7, WalkStep
<1>8. ASSUME NEW u \in Users, NEW n \in Requests, ResizeInPlace(u, n) PROVE IInv'
  BY <1>8, ResizeStep
<1>9. CASE UNCHANGED vars
  BY <1>9 DEF vars, list, calling, IInv, TypeOK, ChunksDisjoint, LinksOrdered, Owners,
              DataKept, Copied, EndOf, Data
<1> QED BY <1>1, <1>2, <1>3, <1>4, <1>5, <1>6, <1>7, <1>8, <1>9 DEF Next, InCall

\* The inductive invariant holds in every state.
LEMMA Invariance == Spec => []IInv
BY InitIInv, IInvInductive, PTL DEF Spec

\* memory.c: the heap's variables always have their types, chk and the pointers that
\* users hold point to chunks of the list.
THEOREM TypeCorrect == Spec => []TypeOK
<1>1. IInv => TypeOK BY DEF IInv
<1> QED BY <1>1, Invariance, PTL

\* memory_allocate and memory_resize, memory.c: chunks never overlap, whatever is
\* allocated, resized and freed in whatever order.
THEOREM ChunksNeverOverlap == Spec => []ChunksDisjoint
<1>1. IInv => ChunksDisjoint BY DEF IInv
<1> QED BY <1>1, Invariance, PTL

\* memory.c: next and previous always link each chunk to its neighbours in memory.
THEOREM ListInOrder == Spec => []LinksOrdered
<1>1. IInv => LinksOrdered BY DEF IInv
<1> QED BY <1>1, Invariance, PTL

\* memory.c: no call changes bytes that a user relies on, its own memory_resize
\* included, and no write of a user reaches a header.
THEOREM BytesKept == Spec => []DataKept
<1>1. IInv => DataKept BY DEF IInv
<1> QED BY <1>1, Invariance, PTL
=============================================================================
