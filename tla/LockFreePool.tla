----------------------------- MODULE LockFreePool -----------------------------
(***************************************************************************)
(* LockFreePool<BlockSize, PoolSize>, src/src/core/hp_memory.h:69-118: a   *)
(* Treiber stack of FreeNodes.  Every load, store and compare-exchange of  *)
(* Allocate and Free is a step of its own, so the steps of the threads     *)
(* interleave freely; memory is sequentially consistent.                   *)
(*                                                                         *)
(* A block is the FreeNode it starts at, and a FreeNode is one word.  The  *)
(* callers of the pool own the words of their block and may store in them: *)
(* WriteSpan is how many words a caller believes its block has (BlockSize  *)
(* bytes / 8; the code's instances are 32 and 256 bytes).                  *)
(***************************************************************************)
EXTENDS Integers

CONSTANTS PoolSize,     \* number of FreeNodes in free_list_
          Threads,      \* threads that use the pool
          Allocators,   \* those that call Allocate
          Freers,       \* those that call Free
          WriteSpan,    \* words of a block that callers store to
          Words,        \* what callers store: any bit pattern
          NULL          \* nullptr

Nodes == 0 .. PoolSize - 1

ASSUME PoolAssumption ==
    /\ PoolSize \in Nat \ {0}
    /\ Allocators \subseteq Threads
    /\ Freers \subseteq Threads
    /\ WriteSpan \in Nat \ {0}
    /\ NULL \notin Nodes

VARIABLES
    head,       \* head_
    next,       \* free_list_[n].next, or what a caller stored over it
    pc,         \* where each thread is in Allocate or Free
    old,        \* its old_head
    nxt,        \* the old_head->next that Allocate has read
    arg,        \* the node Free was given
    handouts    \* history: how many callers hold each block

vars == <<head, next, pc, old, nxt, arg, handouts>>

Pointers == Nodes \cup {NULL} \cup Words

InAlloc(t) == pc[t] \in {"a_load", "a_next", "a_cas"}
InFree(t)  == pc[t] \in {"f_load", "f_store", "f_cas"}

TypeOK ==
    /\ head \in Pointers
    /\ next \in [Nodes -> Pointers]
    /\ pc \in [Threads -> {"idle", "a_load", "a_next", "a_cas",
                           "f_load", "f_store", "f_cas", "crashed"}]
    /\ old \in [Threads -> Pointers]
    /\ nxt \in [Threads -> Pointers]
    /\ arg \in [Threads -> Nodes]
    /\ handouts \in [Nodes -> Nat]

\* The constructor links the nodes in order.
Init ==
    /\ head = 0
    /\ next = [n \in Nodes |-> IF n = PoolSize - 1 THEN NULL ELSE n + 1]
    /\ pc = [t \in Threads |-> "idle"]
    /\ old = [t \in Threads |-> NULL]
    /\ nxt = [t \in Threads |-> NULL]
    /\ arg = [t \in Threads |-> 0]
    /\ handouts = [n \in Nodes |-> 0]

Goto(t, label) == pc' = [pc EXCEPT ![t] = label]

-------------------------------------------------------------------------------
(* Allocate *)

AllocCall(t) ==
    /\ t \in Allocators /\ pc[t] = "idle"
    /\ Goto(t, "a_load")
    /\ UNCHANGED <<head, next, old, nxt, arg, handouts>>

\* Mutant: an empty list is tried again instead of making Allocate give up.
AllocLoadSpins(t) ==
    /\ pc[t] = "a_load"
    /\ old' = [old EXCEPT ![t] = head]
    /\ Goto(t, IF head = NULL THEN "a_load" ELSE "a_next")
    /\ UNCHANGED <<head, next, nxt, arg, handouts>>

\* old_head = head_.load(); an empty list makes Allocate return nullptr.
AllocLoad(t) ==
    /\ pc[t] = "a_load"
    /\ old' = [old EXCEPT ![t] = head]
    /\ Goto(t, IF head = NULL THEN "idle" ELSE "a_next")
    /\ UNCHANGED <<head, next, nxt, arg, handouts>>

\* old_head->next, read with no protection: the node may be somebody's by now.
\* A head that is not the address of a node faults here.
AllocReadNext(t) ==
    /\ pc[t] = "a_next"
    /\ Goto(t, IF old[t] \in Nodes THEN "a_cas" ELSE "crashed")
    /\ nxt' = [nxt EXCEPT ![t] = IF old[t] \in Nodes THEN next[old[t]] ELSE @]
    /\ UNCHANGED <<head, next, old, arg, handouts>>

\* Mutants: a plain store instead of the compare-exchange.
AllocStoreHead(t) ==
    /\ pc[t] = "a_cas"
    /\ head' = nxt[t]
    /\ handouts' = [handouts EXCEPT ![old[t]] = @ + 1]
    /\ Goto(t, "idle")
    /\ UNCHANGED <<next, old, nxt, arg>>

FreeStoreHead(t) ==
    /\ pc[t] = "f_cas"
    /\ head' = arg[t]
    /\ Goto(t, "idle")
    /\ UNCHANGED <<next, old, nxt, arg, handouts>>

\* Mutant: a failed compare-exchange goes round without storing node->next anew.
FreeRetryKeepsLink(t) ==
    /\ pc[t] = "f_cas" /\ head # old[t]
    /\ old' = [old EXCEPT ![t] = head]
    /\ UNCHANGED <<head, next, pc, nxt, arg, handouts>>

\* The compare-exchange pops the node and Allocate returns it.
AllocCAS(t) ==
    /\ pc[t] = "a_cas" /\ head = old[t]
    /\ head' = nxt[t]
    /\ handouts' = [handouts EXCEPT ![old[t]] = @ + 1]
    /\ Goto(t, "idle")
    /\ UNCHANGED <<next, old, nxt, arg>>

\* compare_exchange_weak fails because head_ moved, or for no reason at all.
AllocRetry(t) ==
    /\ pc[t] = "a_cas"
    /\ Goto(t, "a_load")
    /\ UNCHANGED <<head, next, old, nxt, arg, handouts>>

-------------------------------------------------------------------------------
(* Free *)

\* A caller gives back a block that it was handed.
FreeCall(t, n) ==
    /\ t \in Freers /\ pc[t] = "idle"
    /\ handouts[n] > 0
    /\ handouts' = [handouts EXCEPT ![n] = @ - 1]
    /\ arg' = [arg EXCEPT ![t] = n]
    /\ Goto(t, "f_load")
    /\ UNCHANGED <<head, next, old, nxt>>

FreeLoad(t) ==
    /\ pc[t] = "f_load"
    /\ old' = [old EXCEPT ![t] = head]
    /\ Goto(t, "f_store")
    /\ UNCHANGED <<head, next, nxt, arg, handouts>>

FreeStore(t) ==
    /\ pc[t] = "f_store"
    /\ next' = [next EXCEPT ![arg[t]] = old[t]]
    /\ Goto(t, "f_cas")
    /\ UNCHANGED <<head, old, nxt, arg, handouts>>

FreeCAS(t) ==
    /\ pc[t] = "f_cas" /\ head = old[t]
    /\ head' = arg[t]
    /\ Goto(t, "idle")
    /\ UNCHANGED <<next, old, nxt, arg, handouts>>

FreeRetry(t) ==
    /\ pc[t] = "f_cas"
    /\ Goto(t, "f_load")
    /\ UNCHANGED <<head, next, old, nxt, arg, handouts>>

-------------------------------------------------------------------------------
\* A caller stores a word in a block that it holds.
Write(n, i, w) ==
    /\ handouts[n] > 0
    /\ n + i \in Nodes
    /\ next' = [next EXCEPT ![n + i] = w]
    /\ UNCHANGED <<head, pc, old, nxt, arg, handouts>>

AllocStep(t) == AllocLoad(t) \/ AllocReadNext(t) \/ AllocCAS(t) \/ AllocRetry(t)
FreeStep(t)  == FreeLoad(t) \/ FreeStore(t) \/ FreeCAS(t) \/ FreeRetry(t)

Next ==
    \/ \E t \in Threads : AllocCall(t) \/ AllocStep(t) \/ FreeStep(t)
    \/ \E t \in Threads, n \in Nodes : FreeCall(t, n)
    \/ \E n \in Nodes, i \in 0 .. WriteSpan - 1, w \in Words : Write(n, i, w)

Spec == Init /\ [][Next]_vars

\* A thread inside Allocate keeps running, and a compare-exchange that can
\* succeed again and again does not fail spuriously for ever.  Nothing is
\* assumed of the threads that free, nor that anybody calls the pool.
FairSpec ==
    /\ Spec
    /\ \A t \in Allocators : /\ WF_vars(AllocLoad(t) \/ AllocReadNext(t) \/ AllocRetry(t))
                            /\ SF_vars(AllocCAS(t))

-------------------------------------------------------------------------------
(* Properties *)

\* The blocks nobody holds and nobody is giving back.
FreeBlocks == {n \in Nodes : handouts[n] = 0 /\ \A t \in Threads : InFree(t) => arg[t] # n}

\* The nodes that following next from head_ visits.
OnList ==
    LET at[k \in 0 .. PoolSize] ==
            IF k = 0 THEN head
            ELSE IF at[k - 1] \in Nodes THEN next[at[k - 1]] ELSE NULL
    IN  {at[k] : k \in 0 .. PoolSize} \cap Nodes

\* Allocate never returns a block that a caller still holds.
NoDoubleAllocation == \A n \in Nodes : handouts[n] <= 1

\* Between any two steps of any threads the free list is exactly the blocks
\* that nobody holds: none is lost by a pop or a push that raced, and none
\* that is held can be popped.
ListIsFreeBlocks == OnList = FreeBlocks

\* What the callers see is a pool: each successful compare-exchange is one
\* Take or Reclaim of the abstract pool, every other step changes nothing.
Pool == INSTANCE BlockPool WITH
            Blocks <- Nodes,
            inUse <- {n \in Nodes : handouts[n] > 0},
            returning <- {n \in Nodes : \E t \in Threads : InFree(t) /\ arg[t] = n}

ImplementsPool == Pool!PoolSpec

\* Allocate ends: the blocks that the other threads can push while it tries are
\* those it handed out, so its compare-exchange is beaten finitely often.
AllocateEnds == \A t \in Allocators : InAlloc(t) ~> ~InAlloc(t)

\* The free list never holds what is not the address of a node.
HeadIsABlock == head \in Nodes \cup {NULL}

-------------------------------------------------------------------------------
(* The usage under which the pool is correct: the ABA problem needs a second *)
(* allocating thread and somebody who frees, and a block is one word long.   *)

NoABA == \/ Freers = {}
         \/ \A a, b \in Allocators : a = b

(* The inductive invariant. *)

\* A block is held once, or being freed by one thread, or neither.
Ownership ==
    /\ \A n \in Nodes : handouts[n] <= 1
    /\ \A t \in Threads : InFree(t) => t \in Freers /\ handouts[arg[t]] = 0
    /\ \A t, u \in Threads : InFree(t) /\ InFree(u) /\ arg[t] = arg[u] => t = u

\* The links of the free blocks stay among them, no two meet, none leads back
\* to the head: what makes the list a list, without a word about paths.
ListShape ==
    /\ head \in FreeBlocks \cup {NULL}
    /\ \A n \in FreeBlocks : next[n] \in FreeBlocks \cup {NULL}
    /\ \A n \in FreeBlocks : next[n] = head => head = NULL
    /\ \A m, n \in FreeBlocks : next[m] = next[n] /\ next[m] # NULL => m = n

\* What a thread that is between two steps knows.
Views ==
    \A t \in Threads :
        /\ InAlloc(t) => t \in Allocators
        /\ pc[t] \in {"a_next", "a_cas"} => old[t] \in Nodes
        /\ pc[t] = "a_cas" /\ old[t] \in FreeBlocks => nxt[t] = next[old[t]]
        /\ pc[t] = "f_cas" => next[arg[t]] = old[t]
        /\ pc[t] \in {"a_next", "a_cas"} /\ Freers # {} => old[t] \in FreeBlocks

IInv == TypeOK /\ Ownership /\ ListShape /\ Views

==============================================================================
