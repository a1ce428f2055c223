----------------------------- MODULE MemoryManager -----------------------------
(***************************************************************************)
(* MemoryManager, src/src/core/memory.{h,cpp}: whole blocks handed out     *)
(* first fit, blocks taken from malloc, free neighbours merged.            *)
(*                                                                         *)
(* Sizes and addresses are counted in words of sizeof(uint32_t), so a      *)
(* header is one word; size_t wraps at SizeMod.  malloc may put a chunk    *)
(* anywhere that overlaps no earlier one, or refuse; the code does not     *)
(* look at which.  Callers free only what they hold.                       *)
(***************************************************************************)
EXTENDS Integers, FiniteSets, SequencesExt

CONSTANTS
    MinChunk,       \* the 1 MB that ExpandHeap asks for at least
    Addresses,      \* where malloc may put a chunk
    AddressEnd,     \* the first address beyond the memory malloc manages
    Sizes,          \* object sizes asked for
    Arrays,         \* [elem, count] of the arrays asked for
    Thresholds,     \* arguments of SetGCThreshold
    SizeMod,        \* 2^(width of size_t)
    MaxBlocks       \* bound: length of blocks_

VARIABLES
    blocks,         \* blocks_
    total,          \* total_allocated_
    used,           \* used_memory_
    threshold,      \* gc_threshold_
    held            \* history: the ranges the callers hold

vars == <<blocks, total, used, threshold, held>>

Null == 0

ASSUME ConstantsAssumption ==
    /\ MinChunk \in Nat \ {0} /\ SizeMod \in Nat \ {0} /\ MaxBlocks \in Nat \ {0}
    /\ Addresses \subseteq Nat \ {Null} /\ AddressEnd \in Nat
    /\ Sizes \subseteq Nat /\ Thresholds \subseteq Nat
    /\ Arrays \subseteq [elem : Nat, count : Nat]

Block == [data : Nat, size : Nat, in_use : BOOLEAN, alloc_size : Nat]

EndOf(b) == b.data + b.size
Allotted(bs) == {i \in DOMAIN bs : bs[i].data # Null}

\* Where malloc can put "size" words: at Null when it refuses.
Malloc(size) ==
    {Null} \cup {a \in Addresses : /\ a + size <= AddressEnd
                                   /\ \A i \in Allotted(blocks) :
                                        EndOf(blocks[i]) <= a \/ a + size <= blocks[i].data}

AtLeastChunk(size) == IF size < MinChunk THEN MinChunk ELSE size

Init ==
    /\ \E a \in {Null} \cup {x \in Addresses : x + MinChunk <= AddressEnd} :
        blocks = <<[data |-> a, size |-> MinChunk, in_use |-> FALSE, alloc_size |-> 0]>>
    /\ total = MinChunk /\ used = 0 /\ threshold = MinChunk
    /\ held = {}

-------------------------------------------------------------------------------
Fits(b, size) == ~b.in_use /\ b.size >= size

\* Allocate(size) for a caller that will use the first "wanted" words.
Give(ptr, size, wanted) ==
    /\ used' = used + size
    /\ held' = IF ptr = Null THEN held ELSE held \cup {[ptr |-> ptr, size |-> wanted]}
    /\ UNCHANGED threshold

\* The first block that fits, among those of "fitting".
ReuseOneOf(fitting, size, wanted) ==
    \E i \in fitting :
        /\ \A j \in fitting : i <= j
        /\ blocks' = [blocks EXCEPT ![i].in_use = TRUE, ![i].alloc_size = size]
        /\ Give(blocks[i].data, size, wanted)
        /\ UNCHANGED total

\* Mutant of Reuse: in_use is not looked at.
ReuseIgnoresUse(size, wanted) ==
    ReuseOneOf({i \in DOMAIN blocks : blocks[i].size >= size}, size, wanted)

Reuse(size, wanted) == ReuseOneOf({i \in DOMAIN blocks : Fits(blocks[i], size)}, size, wanted)

\* Allocate when no block fits: the new block is marked in use whether or not
\* malloc found the memory for it.
Expand(size, wanted) ==
    LET chunk == AtLeastChunk(size)
    IN  /\ \A i \in DOMAIN blocks : ~Fits(blocks[i], size)
        /\ Len(blocks) < MaxBlocks
        /\ \E a \in Malloc(chunk) :
            /\ blocks' = Append(blocks, [data |-> a, size |-> chunk,
                                         in_use |-> TRUE, alloc_size |-> size])
            /\ Give(a, size, wanted)
        /\ total' = total + chunk

Allocate(size, wanted) == Reuse(size, wanted) \/ Expand(size, wanted)

ObjectSize(size) == (size + 1) % SizeMod

\* Mutant of ArraySize: no room for the length word.
ArraySizeNoHeader(a) == (a.elem * a.count) % SizeMod

\* The length word and the elements, computed in size_t.
ArraySize(a) == (1 + a.elem * a.count) % SizeMod

AllocateObject(size) == Allocate(ObjectSize(size), size + 1)
AllocateArray(a)     == Allocate(ArraySize(a), 1 + a.elem * a.count)

\* CollectGarbage: a block is merged into the one before it in the list when
\* both are free and it starts where that one ends.
Merges(b, c) == ~b.in_use /\ ~c.in_use /\ EndOf(b) = c.data

MergeInto(done, b) ==
    IF Merges(Last(done), b)
    THEN [done EXCEPT ![Len(done)].size = @ + b.size]
    ELSE Append(done, b)

\* Mutant of Merged: the last block is never looked at.
MergedDropsLast(bs) ==
    LET upTo[n \in 1 .. Len(bs)] == IF n = 1 THEN <<bs[1]>> ELSE MergeInto(upTo[n - 1], bs[n])
    IN  upTo[IF Len(bs) = 1 THEN 1 ELSE Len(bs) - 1]

Merged(bs) ==
    LET upTo[n \in 1 .. Len(bs)] == IF n = 1 THEN <<bs[1]>> ELSE MergeInto(upTo[n - 1], bs[n])
    IN  upTo[Len(bs)]

CollectGarbage ==
    /\ blocks' = Merged(blocks)
    /\ UNCHANGED <<total, used, threshold, held>>

\* Mutants of AfterFree and of FreedSize.
AfterFreeWrongWay(bs, inUse) == IF inUse > threshold \div 2 THEN Merged(bs) ELSE bs
FreedWholeBlock(b) == b.size

FreedSize(b) == b.alloc_size

\* Free merges when less than half the threshold is in use.
AfterFree(bs, inUse) == IF inUse < threshold \div 2 THEN Merged(bs) ELSE bs

\* Free(ptr) of a range its caller holds; Free(nullptr) does nothing.
Free(r) ==
    /\ r \in held
    /\ \E i \in DOMAIN blocks :
        /\ blocks[i].data = r.ptr
        /\ \A j \in 1 .. i - 1 : blocks[j].data # r.ptr
        /\ used' = used - FreedSize(blocks[i])
        /\ blocks' = AfterFree([blocks EXCEPT ![i].in_use = FALSE, ![i].alloc_size = 0], used')
    /\ held' = held \ {r}
    /\ UNCHANGED <<total, threshold>>

SetGCThreshold(t) ==
    /\ threshold' = t
    /\ UNCHANGED <<blocks, total, used, held>>

Next ==
    \/ \E n \in Sizes : AllocateObject(n)
    \/ \E a \in Arrays : AllocateArray(a)
    \/ \E r \in held : Free(r)
    \/ CollectGarbage
    \/ \E t \in Thresholds : SetGCThreshold(t)

Spec == Init /\ [][Next]_vars

-------------------------------------------------------------------------------
(* Properties *)

TypeOK ==
    /\ blocks \in Seq(Block) /\ blocks # <<>>
    /\ total \in Nat /\ used \in Nat /\ threshold \in Nat
    /\ held \subseteq [ptr : Nat \ {Null}, size : Nat]

\* Every range a caller holds has a block of its own, in use and long enough,
\* and no two blocks overlap: neither reuse nor merging gives memory away.
HeldBacked ==
    /\ \A r \in held : \E i \in DOMAIN blocks :
            blocks[i].data = r.ptr /\ blocks[i].in_use /\ r.size <= blocks[i].size
    /\ \A i, j \in Allotted(blocks) :
            i = j \/ EndOf(blocks[i]) <= blocks[j].data \/ EndOf(blocks[j]) <= blocks[i].data

\* What a block holds that nobody can free: malloc refused it.
Lost(b) == IF b.data = Null THEN b.alloc_size ELSE 0

\* GetUsedMemory is what the callers hold, and what malloc refused, which
\* nobody can free; GetTotalAllocated is the size of all blocks, however often
\* they were merged.
AccountsAgree ==
    /\ used = SumFunction([r \in held |-> r.size])
              + SumFunction([i \in DOMAIN blocks |-> Lost(blocks[i])])
    /\ total = SumFunction([i \in DOMAIN blocks |-> blocks[i].size])

\* A Free that leaves less than half the threshold in use leaves no two
\* neighbours of the list that could be merged.
FreeMerges ==
    [][\A r \in held : r \notin held' /\ used' < threshold' \div 2 =>
            \A i \in 1 .. Len(blocks') - 1 : ~Merges(blocks'[i], blocks'[i + 1])]_vars

Abstract == INSTANCE Heap

\* The callers see a heap: what they are given overlaps nothing they hold.
ImplementsHeap == Abstract!HeapSpec

==============================================================================
