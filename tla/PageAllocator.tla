--------------------------- MODULE PageAllocator ---------------------------
(***************************************************************************)
(* What memory_physical.h promises of the page allocator, in terms of who  *)
(* holds which page only: a page is given to at most one holder at a time, *)
(* a reserved page is never given, and only its holder returns a page.     *)
(***************************************************************************)
CONSTANTS Actors, Pages

VARIABLES held,       \* held[a]: the pages a holds
          reserved    \* the pages that may not be given

Init == /\ held = [a \in Actors |-> {}]
        /\ reserved = {}

Taken == reserved \cup UNION {held[a] : a \in Actors}

\* Pages nobody holds become reserved.
Reserve == /\ reserved \subseteq reserved'
           /\ reserved' \subseteq Pages
           /\ (reserved' \ reserved) \cap Taken = {}
           /\ UNCHANGED held

\* a is given pages that nobody holds and that are not reserved.
Give(a) == /\ held' = [held EXCEPT ![a] = held'[a]]
           /\ held[a] \subseteq held'[a]
           /\ held'[a] \subseteq Pages
           /\ (held'[a] \ held[a]) \cap Taken = {}
           /\ UNCHANGED reserved

Return(a, p) == /\ held' = [held EXCEPT ![a] = @ \ {p}]
                /\ UNCHANGED reserved

Next == \/ Reserve
        \/ \E a \in Actors : Give(a)
        \/ \E a \in Actors : \E p \in held[a] : Return(a, p)

Spec == Init /\ [][Next]_<<held, reserved>>
=============================================================================
