---------------------------------- MODULE Heap ----------------------------------
(***************************************************************************)
(* What an allocator promises its callers: a request is refused or given a *)
(* range of addresses that overlaps no range still held, and a range stays *)
(* held until its holder gives it back.                                    *)
(***************************************************************************)
EXTENDS Integers

VARIABLE held                   \* the ranges [ptr, size] handed out and not freed

Overlap(a, b) == a.ptr < b.ptr + b.size /\ b.ptr < a.ptr + a.size

HeapInit == held = {}

Obtain(r) ==
    /\ \A h \in held : h.ptr # r.ptr /\ ~Overlap(h, r)
    /\ held' = held \cup {r}

Release(r) ==
    /\ r \in held
    /\ held' = held \ {r}

\* The range is the one in which the old and the new value of "held" differ.
HeapNext ==
    \/ \E r \in held' \ held : Obtain(r)
    \/ \E r \in held \ held' : Release(r)

HeapSpec == HeapInit /\ [][HeapNext]_held

==============================================================================
