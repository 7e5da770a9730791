-------------------------------- MODULE Heap --------------------------------
(***************************************************************************)
(* The kernel's heap, memory.c: chunks in a doubly linked list, each a     *)
(* header and its bytes, behind the chunk memory_chunk of main64.asm.      *)
(* memory_allocate walks the list to the first gap; memory_resize changes  *)
(* the last chunk in place and moves any other; memory_free unlinks.       *)
(*                                                                         *)
(* Users call one function at a time (it has no lock) and write the bytes  *)
(* they got.  A byte of memory is known by what wrote it last; what it     *)
(* was does not matter once it is free.  The heap is not bounded in the    *)
(* code: Limit is a bound.                                                 *)
(***************************************************************************)
EXTENDS Integers

CONSTANTS Users,
          HeaderSize,   \* sizeof(struct memory_chunk)
          Alignment,    \* sizeof(void *)
          Root,         \* &memory_chunk
          Limit,        \* bound: the end of the heap
          Requests      \* numbers of bytes that a user may want

Null   == 0
Header == "header"
Other  == "other"

ASSUME HeapAssumption ==
    /\ HeaderSize \in Nat \ {0} /\ Alignment \in Nat \ {0}
    /\ Root \in Nat \ {0} /\ Limit \in Nat /\ Root + HeaderSize <= Limit
    /\ Requests \subseteq Nat
    /\ Header \notin Users /\ Other \notin Users

Addresses == Root .. (Limit - 1)

VARIABLES chunks,                \* the addresses of the chunks in the list
          next, previous, size,  \* their headers
          memory,                \* what each byte holds
          held, filled,          \* each user's chunk, and how many of its bytes it relies on
          call, user, bytes, chk, \* the call in progress
          new                    \* new_pointer of memory_resize

list    == <<chunks, next, previous, size>>
calling == <<call, user, bytes, chk, new>>
vars    == <<list, memory, held, filled, calling>>

Init == /\ chunks = {Root}
        /\ next = [c \in chunks |-> Null]
        /\ previous = [c \in chunks |-> Null]
        /\ size = [c \in chunks |-> 0]
        /\ memory = [a \in Addresses |-> IF a < Root + HeaderSize THEN Header ELSE Other]
        /\ held = [u \in Users |-> Null]
        /\ filled = [u \in Users |-> 0]
        /\ call = "none" /\ user = Other /\ bytes = 0 /\ chk = Null /\ new = Null
-----------------------------------------------------------------------------
ALIGN_TO_NEXT(n) == ((n + Alignment - 1) \div Alignment) * Alignment

Data(c)    == c + HeaderSize                   \* the pointer that the user gets
EndOf(c)   == c + HeaderSize + size[c]
Bytes(a, n) == {b \in Addresses : a <= b /\ b < a + n}

\* Mistake: the header of the chunk is not counted.
RoomForBytes(c) == next[c] = Null \/ next[c] - (c + size[c]) > bytes

\* There is nothing behind chunk c, or enough room up to the next.
Room(c) == next[c] = Null \/ next[c] - (c + size[c]) > bytes + 2 * HeaderSize

\* A user calls memory_allocate.
Allocate(u, n) == /\ call = "none" /\ held[u] = Null
                  /\ call' = "allocate" /\ user' = u /\ bytes' = ALIGN_TO_NEXT(n) /\ chk' = Root
                  /\ UNCHANGED <<list, memory, held, filled, new>>

Walk == /\ call \in {"allocate", "resize"} /\ ~Room(chk)
        /\ chk' = next[chk]
        /\ UNCHANGED <<list, memory, held, filled, call, user, bytes, new>>

\* Mistake: the next chunk still points back to chk.
InsertForwards(n) ==
    /\ chunks' = chunks \cup {n}
    /\ next' = [c \in chunks' |-> IF c = n THEN next[chk] ELSE IF c = chk THEN n ELSE next[c]]
    /\ previous' = [c \in chunks' |-> IF c = n THEN chk ELSE previous[c]]
    /\ size' = [c \in chunks' |-> IF c = n THEN bytes ELSE size[c]]

\* The new chunk n is linked behind chk.
LinkChunk(n) ==
    /\ chunks' = chunks \cup {n}
    /\ next' = [c \in chunks' |-> IF c = n THEN next[chk] ELSE IF c = chk THEN n ELSE next[c]]
    /\ previous' = [c \in chunks' |-> IF c = n THEN chk
                                      ELSE IF c = next[chk] THEN n ELSE previous[c]]
    /\ size' = [c \in chunks' |-> IF c = n THEN bytes ELSE size[c]]

\* The call returns.
Done == call' = "none" /\ user' = Other /\ bytes' = 0 /\ chk' = Null /\ new' = Null

Insert ==
    /\ call \in {"allocate", "resize"} /\ Room(chk)
    /\ LET n == EndOf(chk)
       IN  /\ n + HeaderSize + bytes <= Limit
           /\ LinkChunk(n)
           /\ memory' = [a \in Addresses |-> IF a \in Bytes(n, HeaderSize) THEN Header ELSE memory[a]]
           /\ IF call = "allocate"
              THEN held' = [held EXCEPT ![user] = n] /\ Done
              ELSE /\ call' = "copy" /\ new' = n /\ chk' = Null
                   /\ UNCHANGED <<held, user, bytes>>
    /\ UNCHANGED filled

\* What the bytes from a to b hold is of no interest any more.
Forget(a, b) == memory' = [x \in Addresses |-> IF a <= x /\ x < b THEN Other ELSE memory[x]]

\* Chunk c is taken out of the list.
Unlink(c) ==
    /\ Forget(c, EndOf(c))
    /\ chunks' = chunks \ {c}
    /\ next' = [d \in chunks' |-> IF d = previous[c] THEN next[c] ELSE next[d]]
    /\ previous' = [d \in chunks' |-> IF d = next[c] THEN previous[c] ELSE previous[d]]
    /\ size' = [d \in chunks' |-> size[d]]

memory_free(u) == /\ call = "none" /\ held[u] # Null
                  /\ Unlink(held[u])
                  /\ held' = [held EXCEPT ![u] = Null]
                  /\ filled' = [filled EXCEPT ![u] = 0]
                  /\ UNCHANGED calling

\* Mistake: every chunk is resized in place.
ResizeAny(u, n) ==
    /\ call = "none" /\ held[u] # Null
    /\ held[u] + HeaderSize + ALIGN_TO_NEXT(n) <= Limit
    /\ size' = [size EXCEPT ![held[u]] = ALIGN_TO_NEXT(n)]
    /\ filled' = [filled EXCEPT ![u] = IF @ <= ALIGN_TO_NEXT(n) THEN @ ELSE ALIGN_TO_NEXT(n)]
    /\ Forget(Data(held[u]) + ALIGN_TO_NEXT(n), EndOf(held[u]))
    /\ UNCHANGED <<chunks, next, previous, held, calling>>

\* memory_resize of the last chunk.
ResizeInPlace(u, n) ==
    /\ call = "none" /\ held[u] # Null
    /\ \/ next[held[u]] = Null
       \/ held[u] + size[held[u]] >= next[held[u]]
    /\ held[u] + HeaderSize + ALIGN_TO_NEXT(n) <= Limit
    /\ size' = [size EXCEPT ![held[u]] = ALIGN_TO_NEXT(n)]
    /\ filled' = [filled EXCEPT ![u] = IF @ <= ALIGN_TO_NEXT(n) THEN @ ELSE ALIGN_TO_NEXT(n)]
    /\ Forget(Data(held[u]) + ALIGN_TO_NEXT(n), EndOf(held[u]))
    /\ UNCHANGED <<chunks, next, previous, held, calling>>

\* memory_resize of another chunk: it calls memory_allocate, ...
ResizeElsewhere(u, n) ==
    /\ call = "none" /\ held[u] # Null
    /\ next[held[u]] # Null
    /\ held[u] + size[held[u]] < next[held[u]]
    /\ call' = "resize" /\ user' = u /\ bytes' = ALIGN_TO_NEXT(n) /\ chk' = Root
    /\ UNCHANGED <<list, memory, held, filled, new>>

\* ... memory_copy of as many bytes as the new chunk has, which may be more than the
\* old one had, ...
memory_copy ==
    /\ call = "copy"
    /\ memory' = [a \in Addresses |->
           IF a \in Bytes(Data(new), bytes) /\ Data(held[user]) + (a - Data(new)) \in Addresses
           THEN memory[Data(held[user]) + (a - Data(new))] ELSE memory[a]]
    /\ call' = "free"
    /\ UNCHANGED <<list, held, filled, user, bytes, chk, new>>

\* ... and memory_free.
FreeOld == /\ call = "free"
           /\ Unlink(held[user])
           /\ held' = [held EXCEPT ![user] = new]
           /\ filled' = [filled EXCEPT ![user] = IF @ <= bytes THEN @ ELSE bytes]
           /\ Done

\* A user writes all of its bytes.
Write(u) == /\ call = "none" /\ held[u] # Null
            /\ memory' = [a \in Addresses |-> IF a \in Bytes(Data(held[u]), size[held[u]])
                                              THEN u ELSE memory[a]]
            /\ filled' = [filled EXCEPT ![u] = size[held[u]]]
            /\ UNCHANGED <<list, held, calling>>

InCall == Walk \/ Insert \/ memory_copy \/ FreeOld

Next == \/ InCall
        \/ \E u \in Users : memory_free(u) \/ Write(u)
        \/ \E u \in Users, n \in Requests :
               Allocate(u, n) \/ ResizeInPlace(u, n) \/ ResizeElsewhere(u, n)

Spec == Init /\ [][Next]_vars

-----------------------------------------------------------------------------
TypeOK ==
    /\ chunks \subseteq Addresses /\ Root \in chunks
    /\ next \in [chunks -> chunks \cup {Null}]
    /\ previous \in [chunks -> chunks \cup {Null}]
    /\ size \in [chunks -> Nat] /\ size[Root] = 0
    /\ memory \in [Addresses -> Users \cup {Header, Other}]
    /\ held \in [Users -> (chunks \ {Root}) \cup {Null}]
    /\ filled \in [Users -> Nat]
    /\ call \in {"none", "allocate", "resize", "copy", "free"}
    /\ IF call = "none" THEN user = Other ELSE user \in Users
    /\ bytes \in Nat
    /\ call \in {"allocate", "resize"} => chk \in chunks
    /\ call \in {"resize", "copy", "free"} => held[user] # Null
    /\ IF call \in {"copy", "free"} THEN new \in chunks \ {Root} ELSE new = Null

\* memory.c: chunks do not overlap and lie in the heap.
ChunksDisjoint ==
    /\ \A c \in chunks : EndOf(c) <= Limit
    /\ \A c, d \in chunks : c < d => EndOf(c) <= d

\* memory.c, "linked together to the next and previous blocks of memory": next is the
\* following chunk in memory, and previous the preceding one.
LinksOrdered ==
    \A c, d \in chunks :
        /\ c < d => next[c] # Null /\ next[c] <= d
        /\ next[c] # Null => c < next[c]
        /\ next[c] = d <=> previous[d] = c

\* memory.c: nothing but a user writes its bytes, and they are still there after
\* memory_resize; the headers are not overwritten.
DataKept ==
    /\ \A c \in chunks : \A a \in Bytes(c, HeaderSize) : memory[a] = Header
    /\ \A u \in Users : held[u] # Null =>
           \A a \in Bytes(Data(held[u]), filled[u]) : memory[a] = u

=============================================================================
