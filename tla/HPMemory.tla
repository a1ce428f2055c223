-------------------------------- MODULE HPMemory --------------------------------
(***************************************************************************)
(* ArenaAllocator and HighPerformanceMemoryManager,                        *)
(* src/src/core/hp_memory.h:16-66, 121-184, used by one thread: two pools  *)
(* of nodes and an arena, chosen by the size of the request.               *)
(*                                                                         *)
(* Sizes and addresses are counted in words of sizeof(uint32_t), so a      *)
(* header is one word and a pool node, one pointer long, is NodeWords.  An *)
(* address is an area of memory and an offset in it.  What a pool does     *)
(* between threads is in LockFreePool.                                     *)
(***************************************************************************)
EXTENDS Integers, SequencesExt

CONSTANTS
    NodeWords,      \* sizeof(FreeNode)
    PoolNodes,      \* PoolSize of both pools
    SmallMax,       \* the largest request for the small pool: 32 bytes
    MediumMax,      \* the largest request for the medium pool: 256 bytes
    BlockWords,     \* block_size_ of the arena
    Align,          \* the alignment of arena allocations: 8 bytes
    RawSizes,       \* sizes asked of Allocate
    ObjectSizes,    \* sizes asked of AllocateObject
    ArrayShapes,    \* [elem, count] asked of AllocateArray
    WordRange,      \* 2^(width of size_t)
    MaxCalls        \* bound: calls in a behaviour

ASSUME HPConstantsAssumption ==
    /\ {NodeWords, PoolNodes, BlockWords, Align, WordRange} \subseteq Nat \ {0}
    /\ SmallMax \in Nat /\ MediumMax \in Nat /\ SmallMax <= MediumMax /\ MaxCalls \in Nat
    /\ 2 * BlockWords + Align < WordRange
    /\ RawSizes \subseteq Nat /\ ObjectSizes \subseteq Nat
    /\ ArrayShapes \subseteq [elem : Nat, count : Nat]

VARIABLES
    arena,          \* blocks_: whether malloc found memory for each; the last is current
    offset,         \* current_offset_
    allocated,      \* total_allocated_
    freeNodes,      \* the nodes on the list of each pool, from head_
    torn,           \* pools of which a link on the list was overwritten
    owned,          \* history: call -> [area, from, words, ptr], the ranges callers hold
    clean,          \* history: every call so far was one that the code can serve
    calls           \* bound: calls made

hpVars == <<arena, offset, allocated, freeNodes, torn, owned, clean, calls>>

Pools     == {"small", "medium"}
PoolWords == 0 .. NodeWords * PoolNodes - 1
Wholes    == {NodeWords * i : i \in 0 .. PoolNodes - 1}
PoolArea(p)  == <<p, 0>>
ArenaArea(i) == <<"arena", i>>

HPInit ==
    /\ arena = <<TRUE>> /\ offset = 0 /\ allocated = 0
    /\ freeNodes = [p \in Pools |-> [i \in 1 .. PoolNodes |-> NodeWords * (i - 1)]]
    /\ torn = {} /\ owned = <<>> /\ clean = TRUE /\ calls = 0

-------------------------------------------------------------------------------
\* A caller gets "wanted" words at "from", and the address behind the header.
\* What it can hold is recorded; "served" says whether the request fitted.
Hand(area, from, wanted, header, served) ==
    /\ owned' = [k \in DOMAIN owned \cup {calls} |->
                    IF k = calls THEN [area |-> area, from |-> from, words |-> wanted,
                                       ptr |-> from + header]
                    ELSE owned[k]]
    /\ clean' = (clean /\ served)

GiveUp(ks) == owned' = [k \in DOMAIN owned \ ks |-> owned[k]]

Refuse == UNCHANGED <<owned, clean>>

\* The nodes on the list of p that lose their link when "words" words from
\* "from" are stored to.
Overwritten(p, from, words) ==
    {i \in DOMAIN freeNodes[p] : /\ freeNodes[p][i] < from + words
                                 /\ from < freeNodes[p][i] + NodeWords}

\* LockFreePool::Allocate.  An overwritten link makes head_ any word there is.
PoolAllocate(p, wanted, header) ==
    /\ \/ /\ p \notin torn /\ freeNodes[p] = <<>>
          /\ Refuse
          /\ UNCHANGED freeNodes
       \/ /\ p \notin torn /\ freeNodes[p] # <<>>
          /\ freeNodes' = [freeNodes EXCEPT ![p] = Tail(@)]
          /\ Hand(PoolArea(p), Head(freeNodes[p]), wanted, header, wanted <= NodeWords)
       \/ /\ p \in torn
          /\ \/ Refuse
             \/ \E a \in PoolWords : Hand(PoolArea(p), a, wanted, header, FALSE)
          /\ UNCHANGED freeNodes
    /\ UNCHANGED <<arena, offset, allocated, torn>>

\* The next multiple of the alignment, in size_t.
Aligned(n) == (((n + Align - 1) % WordRange) \div Align) * Align

\* Mutant of NeedsBlock: the room is computed before the offset is aligned.
NeedsBlockUnaligned(size) == (offset + size) % WordRange > BlockWords

NeedsBlock(size) == (Aligned(offset) + size) % WordRange > BlockWords

Bump(at, size) ==
    /\ offset' = (at + size) % WordRange
    /\ allocated' = (allocated + size) % WordRange

\* current_block_ + at: null only at the start of a block malloc refused.
HandArena(i, backed, at, wanted, header, size) ==
    IF backed \/ at # 0
    THEN Hand(ArenaArea(i), at, wanted, header,
              backed /\ wanted = size /\ wanted <= BlockWords)
    ELSE Refuse

\* ArenaAllocator::Allocate.
ArenaAllocate(size, wanted, header) ==
    /\ \/ /\ ~NeedsBlock(size)
          /\ Bump(Aligned(offset), size)
          /\ HandArena(Len(arena), Last(arena), Aligned(offset), wanted, header, size)
          /\ UNCHANGED arena
       \/ /\ NeedsBlock(size)
          /\ Bump(0, size)
          /\ \E backed \in BOOLEAN :
                /\ arena' = Append(arena, backed)
                /\ HandArena(Len(arena) + 1, backed, 0, wanted, header, size)
    /\ UNCHANGED <<freeNodes, torn>>

\* HighPerformanceMemoryManager::Allocate(size) for a caller that will use
\* "wanted" words.
HPAllocate(size, wanted, header) ==
    \/ size <= SmallMax /\ PoolAllocate("small", wanted, header)
    \/ size > SmallMax /\ size <= MediumMax /\ PoolAllocate("medium", wanted, header)
    \/ size > MediumMax /\ ArenaAllocate(size, wanted, header)

HPAllocateObject(size) == HPAllocate((size + 1) % WordRange, size + 1, 1)
HPAllocateArray(a) ==
    HPAllocate((1 + a.elem * a.count) % WordRange, 1 + a.elem * a.count, 1)

\* The holder of a range in a pool stores to all of it: links that lie there go.
Fill(k) ==
    /\ torn' = torn \cup {p \in Pools : /\ owned[k].area = PoolArea(p)
                                        /\ Overwritten(p, owned[k].from, owned[k].words) # {}}
    /\ torn' # torn
    /\ UNCHANGED <<arena, offset, allocated, freeNodes, owned, clean, calls>>

IsFromPool(p, r) == r.area = PoolArea(p) /\ r.ptr \in PoolWords

\* Free(ptr): the pool in whose array ptr lies links a node there; anything
\* else is kept.
HPFree(k) ==
    LET r == owned[k]
    IN  /\ \/ \E p \in Pools :
                /\ IsFromPool(p, r)
                /\ freeNodes' = [freeNodes EXCEPT ![p] = <<r.ptr>> \o @]
                /\ torn' = IF Overwritten(p, r.ptr, NodeWords) = {}
                           THEN torn ELSE torn \cup {p}
                /\ clean' = (clean /\ r.ptr = r.from)
           \/ /\ \A p \in Pools : ~IsFromPool(p, r)
              /\ UNCHANGED <<freeNodes, torn, clean>>
        /\ GiveUp({k})
        /\ UNCHANGED <<arena, offset, allocated>>

\* ArenaAllocator::Reset, for whoever uses an arena by itself: ranges in the
\* current block are given up, those in earlier blocks are not.
Reset ==
    /\ offset' = 0
    /\ GiveUp({k \in DOMAIN owned : owned[k].area = ArenaArea(Len(arena))})
    /\ UNCHANGED <<arena, allocated, freeNodes, torn, clean>>

HPNext ==
    \/ /\ calls < MaxCalls
       /\ calls' = calls + 1
       /\ \/ \E s \in RawSizes : HPAllocate(s, s, 0)
          \/ \E s \in ObjectSizes : HPAllocateObject(s)
          \/ \E a \in ArrayShapes : HPAllocateArray(a)
          \/ \E k \in DOMAIN owned : HPFree(k)
          \/ Reset
    \/ \E k \in DOMAIN owned : Fill(k)

HPSpec == HPInit /\ [][HPNext]_hpVars

-------------------------------------------------------------------------------
HPTypeOK ==
    /\ arena \in Seq(BOOLEAN) /\ arena # <<>>
    /\ offset \in 0 .. WordRange - 1 /\ allocated \in 0 .. WordRange - 1
    /\ freeNodes \in [Pools -> Seq(Nat)] /\ torn \subseteq Pools
    /\ clean \in BOOLEAN /\ calls \in 0 .. MaxCalls

Apart(f, m, g, n) == f + m <= g \/ g + n <= f

\* A range lies in its node or in its block.
InItsArea(r) ==
    \/ \E p \in Pools : /\ r.area = PoolArea(p)
                        /\ \E w \in Wholes : w <= r.from /\ r.from + r.words <= w + NodeWords
    \/ \E i \in DOMAIN arena : r.area = ArenaArea(i) /\ arena[i] /\ r.from + r.words <= BlockWords

\* The nodes on a list are whole, different, and nobody's.
ListSound(p) ==
    /\ p \notin torn
    /\ \A i \in DOMAIN freeNodes[p] : freeNodes[p][i] \in Wholes
    /\ IsInjective(freeNodes[p])
    /\ \A i \in DOMAIN freeNodes[p], k \in DOMAIN owned :
          owned[k].area = PoolArea(p) =>
              Apart(freeNodes[p][i], NodeWords, owned[k].from, owned[k].words)

\* As long as requests fit a node (one pointer) or an arena block, malloc
\* serves the arena and only what Allocate itself returned is freed, the
\* ranges callers hold lie in memory and overlap neither each other nor a node
\* on a free list, across block changes, Reset and reuse (hp_memory.h:29-48,
\* 130-170).
HPBlocksDisjoint ==
    clean =>
        /\ \A k \in DOMAIN owned : InItsArea(owned[k])
        /\ \A j, k \in DOMAIN owned :
              j # k /\ owned[j].area = owned[k].area =>
                  Apart(owned[j].from, owned[j].words, owned[k].from, owned[k].words)
        /\ \A p \in Pools : ListSound(p)

==============================================================================
