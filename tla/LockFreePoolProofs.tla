-------------------------- MODULE LockFreePoolProofs --------------------------
(***************************************************************************)
(* LockFreePool hands out no block twice and implements BlockPool, for any *)
(* number of nodes and threads, when blocks are one word long and either   *)
(* one thread allocates or no thread frees (NoABA).                        *)
(***************************************************************************)
EXTENDS LockFreePool, FiniteSetTheorems, WellFoundedInduction, TLAPS

LEMMA InitIInv == Init => IInv
<1> SUFFICES ASSUME Init PROVE IInv
    OBVIOUS
<1> USE PoolAssumption DEF Init, Nodes
<1>1. TypeOK
    BY DEF TypeOK, Pointers
<1>2. FreeBlocks = Nodes
    BY DEF FreeBlocks, InFree
<1>3. Ownership
    BY DEF Ownership, InFree
<1>4. ListShape
    BY <1>2 DEF ListShape
<1>5. Views
    BY DEF Views, InAlloc
<1>6. QED
    BY <1>1, <1>3, <1>4, <1>5 DEF IInv

\* A step that moves no thread into or out of Free and hands nothing out or
\* back leaves the free blocks as they were.
LEMMA SameFreeBlocks ==
    ASSUME UNCHANGED <<handouts, arg>>,
           \A t \in Threads : InFree(t)' = InFree(t)
    PROVE  FreeBlocks' = FreeBlocks
  BY DEF FreeBlocks

LEMMA AllocCallStep ==
    ASSUME IInv, NEW t \in Threads, AllocCall(t) PROVE IInv'
<1> USE DEF AllocCall, Goto
<1>1. TypeOK'
    BY DEF IInv, TypeOK
<1>2. \A u \in Threads : InFree(u)' = InFree(u)
    BY DEF InFree, IInv, TypeOK
<1>3. FreeBlocks' = FreeBlocks
    BY <1>2, SameFreeBlocks
<1>4. Ownership' /\ ListShape'
    BY <1>2, <1>3 DEF IInv, Ownership, ListShape
<1>5. Views'
    BY <1>3 DEF IInv, TypeOK, Views, InAlloc
<1>6. QED
    BY <1>1, <1>4, <1>5 DEF IInv

LEMMA AllocLoadStep ==
    ASSUME IInv, NEW t \in Threads, AllocLoad(t) PROVE IInv'
<1> USE DEF AllocLoad, Goto
<1>1. TypeOK'
    BY DEF IInv, TypeOK
<1>2. \A u \in Threads : InFree(u)' = InFree(u)
    BY DEF InFree, IInv, TypeOK
<1>3. FreeBlocks' = FreeBlocks
    BY <1>2, SameFreeBlocks
<1>4. Ownership' /\ ListShape'
    BY <1>2, <1>3 DEF IInv, Ownership, ListShape
<1>5. Views'
    BY <1>3 DEF IInv, TypeOK, Views, InAlloc, ListShape, FreeBlocks
<1>6. QED
    BY <1>1, <1>4, <1>5 DEF IInv

LEMMA AllocReadNextStep ==
    ASSUME IInv, NEW t \in Threads, AllocReadNext(t) PROVE IInv'
<1> USE DEF AllocReadNext, Goto
<1>1. TypeOK'
    BY DEF IInv, TypeOK
<1>2. \A u \in Threads : InFree(u)' = InFree(u)
    BY DEF InFree, IInv, TypeOK
<1>3. FreeBlocks' = FreeBlocks
    BY <1>2, SameFreeBlocks
<1>4. Ownership' /\ ListShape'
    BY <1>2, <1>3 DEF IInv, Ownership, ListShape
<1>5. Views'
    BY <1>3 DEF IInv, TypeOK, Views, InAlloc
<1>6. QED
    BY <1>1, <1>4, <1>5 DEF IInv

LEMMA RetrySteps ==
    ASSUME IInv, NEW t \in Threads, AllocRetry(t) \/ FreeRetry(t) PROVE IInv'
<1> USE DEF AllocRetry, FreeRetry, Goto
<1>1. TypeOK'
    BY DEF IInv, TypeOK
<1>2. \A u \in Threads : InFree(u)' = InFree(u)
    BY DEF InFree, IInv, TypeOK
<1>3. FreeBlocks' = FreeBlocks
    BY <1>2, SameFreeBlocks
<1>4. Ownership' /\ ListShape'
    BY <1>2, <1>3 DEF IInv, Ownership, ListShape
<1>5. Views'
    BY <1>3 DEF IInv, TypeOK, Views, InAlloc
<1>6. QED
    BY <1>1, <1>4, <1>5 DEF IInv

\* The pop: the head was free, and what the thread read as its next is what its
\* next is, so the node leaves the free blocks and its successor heads the list.
LEMMA AllocCASStep ==
    ASSUME IInv, NoABA, NEW t \in Threads, AllocCAS(t) PROVE IInv'
<1> DEFINE n == old[t]
<1> USE DEF AllocCAS, Goto
<1>1. n \in Nodes /\ n # NULL /\ n \in FreeBlocks /\ n = head
    BY PoolAssumption DEF IInv, Views, ListShape
<1>2. nxt[t] = next[n] /\ next[n] \in FreeBlocks \cup {NULL}
    BY <1>1 DEF IInv, Views, ListShape
<1>3. next[n] # n
    BY <1>1 DEF IInv, ListShape
<1>4. handouts[n] = 0 /\ \A u \in Threads : InFree(u) => arg[u] # n
    BY <1>1 DEF FreeBlocks
<1>5. handouts' = [handouts EXCEPT ![n] = 1]
    BY <1>1, <1>4 DEF IInv, TypeOK
<1>6. TypeOK'
    BY <1>1, <1>5 DEF IInv, TypeOK
<1>7. \A u \in Threads : InFree(u)' = InFree(u)
    BY DEF InFree, IInv, TypeOK
<1>8. FreeBlocks' = FreeBlocks \ {n}
    BY <1>1, <1>5, <1>7 DEF FreeBlocks, IInv, TypeOK
<1>9. Ownership'
    BY <1>1, <1>4, <1>5, <1>7 DEF IInv, Ownership, TypeOK
<1>10. head' = next[n] /\ next' = next
    BY <1>2
<1>11. ListShape'
    <2>1. head' \in FreeBlocks' \cup {NULL}
        BY <1>2, <1>3, <1>8, <1>10
    <2>2. \A m \in FreeBlocks' : next'[m] \in FreeBlocks' \cup {NULL}
        BY <1>1, <1>8, <1>10 DEF IInv, ListShape
    <2>3. \A m \in FreeBlocks' : next'[m] = head' => head' = NULL
        BY <1>1, <1>8, <1>10 DEF IInv, ListShape
    <2>4. \A m, o \in FreeBlocks' : next'[m] = next'[o] /\ next'[m] # NULL => m = o
        BY <1>8, <1>10 DEF IInv, ListShape
    <2>5. QED
        BY <2>1, <2>2, <2>3, <2>4 DEF ListShape
<1>12. Views'
    <2> SUFFICES ASSUME NEW u \in Threads PROVE Views!(u)'
        BY DEF Views
    <2>1. t \in Allocators
        BY DEF IInv, Views, InAlloc
    <2>2. CASE u = t
        BY <2>2 DEF IInv, TypeOK, InAlloc
    <2>3. CASE u # t
        <3>1. pc'[u] = pc[u]
            BY <2>3 DEF IInv, TypeOK
        <3>2. Freers # {} => ~InAlloc(u)
            BY <2>1, <2>3 DEF NoABA, IInv, Views
        <3>3. QED
            BY <3>1, <3>2, <1>8 DEF IInv, Views, InAlloc
    <2>4. QED
        BY <2>2, <2>3
<1>13. QED
    BY <1>6, <1>9, <1>11, <1>12 DEF IInv

LEMMA FreeCallStep ==
    ASSUME IInv, NEW t \in Threads, NEW n \in Nodes, FreeCall(t, n) PROVE IInv'
<1> USE DEF FreeCall, Goto
<1>1. handouts[n] = 1 /\ handouts' = [handouts EXCEPT ![n] = 0]
    <2>1. handouts[n] \in Nat /\ handouts[n] <= 1 /\ handouts[n] > 0
        BY DEF IInv, TypeOK, Ownership
    <2>2. handouts[n] = 1
        BY <2>1
    <2>3. QED
        BY <2>2
<1>2. TypeOK'
    BY <1>1 DEF IInv, TypeOK
<1>3. /\ InFree(t)' /\ ~InFree(t) /\ arg'[t] = n
      /\ \A u \in Threads \ {t} : InFree(u)' = InFree(u) /\ arg'[u] = arg[u]
    BY DEF InFree, IInv, TypeOK
<1>4. FreeBlocks' = FreeBlocks
    BY <1>1, <1>3 DEF FreeBlocks, IInv, TypeOK
<1>5. Ownership'
    BY <1>1, <1>3 DEF IInv, TypeOK, Ownership
<1>6. ListShape'
    BY <1>4 DEF IInv, ListShape
<1>7. Views'
    BY <1>4 DEF IInv, TypeOK, Views, InAlloc
<1>8. QED
    BY <1>2, <1>5, <1>6, <1>7 DEF IInv

LEMMA FreeLoadStep ==
    ASSUME IInv, NEW t \in Threads, FreeLoad(t) PROVE IInv'
<1> USE DEF FreeLoad, Goto
<1>1. TypeOK'
    BY DEF IInv, TypeOK
<1>2. \A u \in Threads : InFree(u)' = InFree(u)
    BY DEF InFree, IInv, TypeOK
<1>3. FreeBlocks' = FreeBlocks
    BY <1>2, SameFreeBlocks
<1>4. Ownership' /\ ListShape'
    BY <1>2, <1>3 DEF IInv, Ownership, ListShape
<1>5. Views'
    BY <1>3 DEF IInv, TypeOK, Views, InAlloc
<1>6. QED
    BY <1>1, <1>4, <1>5 DEF IInv

\* The link is stored in a block that is no longer anybody's and not yet free.
LEMMA FreeStoreStep ==
    ASSUME IInv, NEW t \in Threads, FreeStore(t) PROVE IInv'
<1> USE DEF FreeStore, Goto
<1>1. TypeOK'
    BY DEF IInv, TypeOK
<1>2. \A u \in Threads : InFree(u)' = InFree(u)
    BY DEF InFree, IInv, TypeOK
<1>3. FreeBlocks' = FreeBlocks
    BY <1>2, SameFreeBlocks
<1>4. arg[t] \in Nodes \ FreeBlocks
    BY DEF FreeBlocks, InFree, IInv, TypeOK
<1>5. \A n \in FreeBlocks : next'[n] = next[n]
    BY <1>4 DEF IInv, TypeOK, FreeBlocks
<1>6. Ownership'
    BY <1>2 DEF IInv, Ownership
<1>7. ListShape'
    BY <1>3, <1>5 DEF IInv, ListShape
<1>8. Views'
    <2> SUFFICES ASSUME NEW u \in Threads PROVE Views!(u)'
        BY DEF Views
    <2>1. CASE u = t
        BY <2>1, <1>4 DEF IInv, TypeOK, Views, InAlloc
    <2>2. CASE u # t
        <3>1. pc'[u] = pc[u]
            BY <2>2 DEF IInv, TypeOK
        <3>2. InFree(u) => arg[u] # arg[t]
            BY <2>2 DEF IInv, Ownership, InFree
        <3>3. pc[u] = "f_cas" => next'[arg[u]] = next[arg[u]]
            BY <3>2 DEF IInv, TypeOK, InFree
        <3>4. QED
            BY <3>1, <3>3, <1>3, <1>5 DEF IInv, Views, InAlloc
    <2>3. QED
        BY <2>1, <2>2
<1>9. QED
    BY <1>1, <1>6, <1>7, <1>8 DEF IInv

\* The push: the block joins the free blocks, linked to what was the head.
LEMMA FreeCASStep ==
    ASSUME IInv, NoABA, NEW t \in Threads, FreeCAS(t) PROVE IInv'
<1> DEFINE n == arg[t]
<1> USE DEF FreeCAS, Goto
<1>1. TypeOK'
    BY DEF IInv, TypeOK, Pointers
<1>2. InFree(t) /\ t \in Freers
    BY DEF InFree, IInv, Ownership
<1>3. /\ ~InFree(t)'
      /\ \A u \in Threads \ {t} : InFree(u)' = InFree(u)
    BY DEF InFree, IInv, TypeOK
<1>4. n \in Nodes \ FreeBlocks /\ handouts[n] = 0
    BY <1>2 DEF FreeBlocks, IInv, TypeOK, Ownership
<1>5. FreeBlocks' = FreeBlocks \cup {n}
    BY <1>2, <1>3, <1>4 DEF FreeBlocks, IInv, TypeOK, Ownership
<1>6. next[n] = head /\ head' = n /\ next' = next
    BY DEF IInv, Views
<1>7. Ownership'
    BY <1>3 DEF IInv, Ownership
<1>8. ListShape'
    <2>1. head' \in FreeBlocks' \cup {NULL}
        BY <1>5, <1>6
    <2>2. \A m \in FreeBlocks' : next'[m] \in FreeBlocks' \cup {NULL}
        BY <1>5, <1>6 DEF IInv, ListShape
    <2>3. \A m \in FreeBlocks' : next'[m] = head' => head' = NULL
        BY <1>4, <1>5, <1>6, PoolAssumption DEF IInv, ListShape
    <2>4. \A m, o \in FreeBlocks' : next'[m] = next'[o] /\ next'[m] # NULL => m = o
        BY <1>5, <1>6 DEF IInv, ListShape
    <2>5. QED
        BY <2>1, <2>2, <2>3, <2>4 DEF ListShape
<1>9. Views'
    BY <1>2, <1>4, <1>5 DEF IInv, TypeOK, Views, InAlloc
<1>10. QED
    BY <1>1, <1>7, <1>8, <1>9 DEF IInv

\* With one-word blocks a caller's store stays inside its own block.
LEMMA WriteStep ==
    ASSUME IInv, WriteSpan = 1,
           NEW n \in Nodes, NEW i \in 0 .. WriteSpan - 1, NEW w \in Words, Write(n, i, w)
    PROVE  IInv'
<1> USE DEF Write
<1>1. next' = [next EXCEPT ![n] = w] /\ n \notin FreeBlocks
    BY DEF FreeBlocks, Nodes, IInv, TypeOK
<1>2. TypeOK'
    BY <1>1 DEF IInv, TypeOK, Pointers
<1>3. \A u \in Threads : InFree(u)' = InFree(u)
    BY DEF InFree
<1>4. FreeBlocks' = FreeBlocks
    BY <1>3, SameFreeBlocks
<1>5. \A m \in FreeBlocks : next'[m] = next[m]
    BY <1>1 DEF IInv, TypeOK, FreeBlocks
<1>6. \A u \in Threads : InFree(u) => next'[arg[u]] = next[arg[u]]
    BY <1>1 DEF IInv, TypeOK, Ownership
<1>7. Ownership'
    BY <1>3 DEF IInv, Ownership
<1>8. ListShape'
    BY <1>4, <1>5 DEF IInv, ListShape
<1>9. Views'
    BY <1>4, <1>5, <1>6 DEF IInv, Views, InAlloc, InFree
<1>10. QED
    BY <1>2, <1>7, <1>8, <1>9 DEF IInv

LEMMA StutterStep == ASSUME IInv, UNCHANGED vars PROVE IInv'
  BY DEF vars, IInv, TypeOK, Ownership, ListShape, Views, FreeBlocks, InFree, InAlloc

LEMMA NextIInv ==
    ASSUME NoABA, WriteSpan = 1 PROVE IInv /\ [Next]_vars => IInv'
<1> SUFFICES ASSUME IInv, [Next]_vars PROVE IInv'
    OBVIOUS
<1>1. ASSUME NEW t \in Threads, AllocCall(t) \/ AllocStep(t) \/ FreeStep(t) PROVE IInv'
    BY <1>1, AllocCallStep, AllocLoadStep, AllocReadNextStep, AllocCASStep,
       RetrySteps, FreeLoadStep, FreeStoreStep, FreeCASStep DEF AllocStep, FreeStep
<1>2. ASSUME NEW t \in Threads, NEW n \in Nodes, FreeCall(t, n) PROVE IInv'
    BY <1>2, FreeCallStep
<1>3. ASSUME NEW n \in Nodes, NEW i \in 0 .. WriteSpan - 1, NEW w \in Words, Write(n, i, w)
      PROVE IInv'
    BY <1>3, WriteStep
<1>4. CASE UNCHANGED vars
    BY <1>4, StutterStep
<1>5. QED
    BY <1>1, <1>2, <1>3, <1>4 DEF Next

\* The inductive invariant, of which the theorems below are corollaries.
THEOREM PoolInvariant ==
    ASSUME NoABA, WriteSpan = 1 PROVE Spec => []IInv
<1>1. Init => IInv
    BY InitIInv
<1>2. IInv /\ [Next]_vars => IInv'
    BY NextIInv
<1>3. QED
    BY <1>1, <1>2, PTL DEF Spec

\* Allocate (hp_memory.h:81-90) never returns a block that a caller still
\* holds, whatever the other threads do between its steps.
THEOREM NoBlockTwice ==
    ASSUME NoABA, WriteSpan = 1 PROVE Spec => []NoDoubleAllocation
<1>1. IInv => NoDoubleAllocation
    BY DEF IInv, Ownership, NoDoubleAllocation
<1>2. QED
    BY <1>1, PoolInvariant, PTL

\* The free list is never led out of the pool: head_ (hp_memory.h:117) is
\* nullptr or the address of a FreeNode.
THEOREM HeadStaysInPool ==
    ASSUME NoABA, WriteSpan = 1 PROVE Spec => []HeadIsABlock
<1>1. IInv => HeadIsABlock
    BY DEF IInv, ListShape, HeadIsABlock, FreeBlocks
<1>2. QED
    BY <1>1, PoolInvariant, PTL

\* The pool of the callers: Allocate and Free (hp_memory.h:81-102) refine the
\* abstract Take, GiveBack and Reclaim, every other step is invisible.
LEMMA InitPool == Init => Pool!PoolInit
  BY DEF Init, Pool!PoolInit, InFree

\* The steps that are invisible from outside.
LEMMA SamePool ==
    ASSUME UNCHANGED <<handouts, arg>>,
           \A t \in Threads : InFree(t)' = InFree(t)
    PROVE  UNCHANGED Pool!poolVars
  BY DEF Pool!poolVars

LEMMA StepPool ==
    ASSUME IInv, NoABA, [Next]_vars PROVE [Pool!PoolNext]_(Pool!poolVars)
<1> USE DEF Goto
<1>1. ASSUME NEW t \in Threads,
             \/ AllocCall(t) \/ AllocLoad(t) \/ AllocReadNext(t) \/ AllocRetry(t)
             \/ FreeLoad(t) \/ FreeStore(t) \/ FreeRetry(t)
      PROVE  UNCHANGED Pool!poolVars
    <2>1. \A u \in Threads : InFree(u)' = InFree(u)
        BY <1>1 DEF InFree, IInv, TypeOK, AllocCall, AllocLoad, AllocReadNext,
                    AllocRetry, FreeLoad, FreeStore, FreeRetry
    <2>2. UNCHANGED <<handouts, arg>>
        BY <1>1 DEF AllocCall, AllocLoad, AllocReadNext,
                    AllocRetry, FreeLoad, FreeStore, FreeRetry
    <2>3. QED
        BY <2>1, <2>2, SamePool
<1>2. ASSUME NEW t \in Threads, AllocCAS(t) PROVE Pool!PoolNext
    <2>1. old[t] \in FreeBlocks /\ old[t] \in Nodes
        BY <1>2, PoolAssumption DEF AllocCAS, IInv, Views, ListShape
    <2>2. handouts[old[t]] = 0 /\ handouts' = [handouts EXCEPT ![old[t]] = 1]
        BY <1>2, <2>1 DEF AllocCAS, IInv, TypeOK, FreeBlocks
    <2>3. \A u \in Threads : InFree(u)' = InFree(u)
        BY <1>2 DEF AllocCAS, InFree, IInv, TypeOK
    <2>4. UNCHANGED arg
        BY <1>2 DEF AllocCAS
    <2>5. QED
        BY <2>1, <2>2, <2>3, <2>4 DEF Pool!Take, Pool!PoolNext, IInv, TypeOK, FreeBlocks
<1>3. ASSUME NEW t \in Threads, NEW n \in Nodes, FreeCall(t, n) PROVE Pool!PoolNext
    <2>1. handouts[n] \in Nat /\ handouts[n] <= 1 /\ handouts[n] > 0
        BY <1>3 DEF FreeCall, IInv, TypeOK, Ownership
    <2>2. handouts' = [handouts EXCEPT ![n] = 0]
        <3>1. handouts[n] - 1 = 0
            BY <2>1
        <3>2. QED
            BY <1>3, <3>1 DEF FreeCall
    <2>3. /\ InFree(t)' /\ ~InFree(t) /\ arg'[t] = n
          /\ \A u \in Threads \ {t} : InFree(u)' = InFree(u) /\ arg'[u] = arg[u]
        BY <1>3 DEF FreeCall, InFree, IInv, TypeOK
    <2>4. QED
        BY <2>1, <2>2, <2>3 DEF Pool!GiveBack, Pool!PoolNext, IInv, TypeOK
<1>4. ASSUME NEW t \in Threads, FreeCAS(t) PROVE Pool!PoolNext
    <2>1. InFree(t) /\ ~InFree(t)' /\ \A u \in Threads \ {t} : InFree(u)' = InFree(u)
        BY <1>4 DEF FreeCAS, InFree, IInv, TypeOK
    <2>2. UNCHANGED <<handouts, arg>>
        BY <1>4 DEF FreeCAS
    <2>3. QED
        BY <2>1, <2>2 DEF Pool!Reclaim, Pool!PoolNext, IInv, TypeOK, Ownership
<1>5. ASSUME NEW n \in Nodes, NEW i \in 0 .. WriteSpan - 1, NEW w \in Words, Write(n, i, w)
      PROVE  UNCHANGED Pool!poolVars
    BY <1>5, SamePool DEF Write, InFree
<1>6. CASE UNCHANGED vars
    BY <1>6, SamePool DEF vars, InFree
<1>7. QED
    <2>1. ASSUME NEW t \in Threads, AllocCall(t) \/ AllocStep(t) \/ FreeStep(t)
          PROVE  [Pool!PoolNext]_(Pool!poolVars)
        BY <2>1, <1>1, <1>2, <1>4 DEF AllocStep, FreeStep
    <2>2. QED
        BY <2>1, <1>3, <1>5, <1>6 DEF Next

\* What the callers of Allocate and Free observe is the abstract pool.
THEOREM PoolRefinement ==
    ASSUME NoABA, WriteSpan = 1 PROVE Spec => ImplementsPool
<1>1. Init => Pool!PoolInit
    BY InitPool
<1>2. IInv /\ [Next]_vars => [Pool!PoolNext]_(Pool!poolVars)
    BY StepPool
<1>3. QED
    BY <1>1, <1>2, PoolInvariant, PTL DEF Spec, ImplementsPool, Pool!PoolSpec

-------------------------------------------------------------------------------
(* The list itself.  ListShape does not rule out a ring of free blocks beside  *)
(* the list; what follows does: the free blocks can be numbered in the order   *)
(* of the links, from head_ to a null link.                                    *)

IsChain(L, c) ==
    /\ c \in [1 .. L -> FreeBlocks]
    /\ \A n \in FreeBlocks : \E i \in 1 .. L : c[i] = n
    /\ \A i, j \in 1 .. L : c[i] = c[j] => i = j
    /\ head = IF L = 0 THEN NULL ELSE c[1]
    /\ \A i \in 1 .. L : next[c[i]] = IF i = L THEN NULL ELSE c[i + 1]

Chained == \E L \in 0 .. PoolSize : \E c \in [1 .. L -> FreeBlocks] : IsChain(L, c)

\* A chain has no more blocks than the pool.
LEMMA ChainLength ==
    ASSUME NEW L \in Nat, NEW c \in [1 .. L -> Nodes],
           \A i, j \in 1 .. L : c[i] = c[j] => i = j
    PROVE  L \in 0 .. PoolSize
<1>1. IsFiniteSet(Nodes) /\ Cardinality(Nodes) = PoolSize
    BY FS_Interval, PoolAssumption DEF Nodes
<1>2. IsFiniteSet(1 .. L) /\ Cardinality(1 .. L) = L
    BY FS_Interval
<1>3. ~(Cardinality(Nodes) < Cardinality(1 .. L))
    BY <1>1, <1>2, FS_PigeonHole
<1>4. QED
    BY <1>1, <1>2, <1>3, PoolAssumption

\* What makes a chain of the next state.
LEMMA ChainedNext ==
    ASSUME NEW L \in Nat, NEW c, IsChain(L, c)'
    PROVE  Chained'
<1>1. c \in [1 .. L -> FreeBlocks'] /\ c \in [1 .. L -> Nodes]
    BY DEF IsChain, FreeBlocks
<1>2. L \in 0 .. PoolSize
    BY <1>1, ChainLength DEF IsChain
<1>3. QED
    BY <1>1, <1>2 DEF Chained

LEMMA InitChained == Init => Chained
<1> SUFFICES ASSUME Init PROVE Chained
    OBVIOUS
<1> DEFINE c == [i \in 1 .. PoolSize |-> i - 1]
<1>1. FreeBlocks = Nodes
    BY DEF Init, FreeBlocks, InFree
<1>2. PoolSize \in Nat /\ PoolSize # 0 /\ PoolSize \in 0 .. PoolSize
    BY PoolAssumption
<1>3. c \in [1 .. PoolSize -> FreeBlocks]
    BY <1>1, <1>2 DEF Nodes
<1>4. \A n \in FreeBlocks : \E i \in 1 .. PoolSize : c[i] = n
    <2>1. ASSUME NEW n \in FreeBlocks PROVE n + 1 \in 1 .. PoolSize /\ c[n + 1] = n
        BY <1>1, <1>2, <2>1 DEF Nodes
    <2>2. QED
        BY <2>1
<1>5. \A i \in 1 .. PoolSize : next[c[i]] = IF i = PoolSize THEN NULL ELSE c[i + 1]
    BY <1>2 DEF Init, Nodes
<1>6. IsChain(PoolSize, c)
    <2>1. \A i, j \in 1 .. PoolSize : c[i] = c[j] => i = j
        BY <1>2
    <2>2. head = c[1] /\ PoolSize # 0
        BY <1>2 DEF Init
    <2> HIDE DEF c
    <2>3. QED
        BY <1>3, <1>4, <1>5, <2>1, <2>2 DEF IsChain
<1> HIDE DEF c
<1>7. QED
    BY <1>2, <1>3, <1>6 DEF Chained

\* A step that changes neither the head, nor which blocks are free, nor their
\* links, leaves the chain as it was.
LEMMA SameChain ==
    ASSUME Chained, head' = head, FreeBlocks' = FreeBlocks,
           \A n \in FreeBlocks : next'[n] = next[n]
    PROVE  Chained'
<1>1. PICK L, c : L \in 0 .. PoolSize /\ IsChain(L, c)
    BY DEF Chained
<1>2. \A i \in 1 .. L : next'[c[i]] = next[c[i]]
    BY <1>1 DEF IsChain
<1>3. IsChain(L, c)'
    BY <1>1, <1>2, Zenon DEF IsChain
<1>4. QED
    BY <1>1, <1>3, ChainedNext, PoolAssumption

\* The pop takes the first block of the chain.
LEMMA PopChain ==
    ASSUME IInv, NoABA, Chained, NEW t \in Threads, AllocCAS(t) PROVE Chained'
<1> DEFINE n == old[t]
<1>1. n \in FreeBlocks /\ n = head /\ n # NULL /\ nxt[t] = next[n]
    BY PoolAssumption DEF AllocCAS, IInv, Views, ListShape, FreeBlocks
<1>2. head' = next[n] /\ next' = next
    BY <1>1 DEF AllocCAS
<1>3. FreeBlocks' = FreeBlocks \ {n}
    BY <1>1 DEF AllocCAS, Goto, FreeBlocks, InFree, IInv, TypeOK
<1>4. PICK L, c : L \in 0 .. PoolSize /\ IsChain(L, c)
    BY DEF Chained
<1> HIDE DEF n
<1>5. L \in Nat /\ L # 0 /\ c[1] = n /\ L - 1 \in Nat
    BY <1>1, <1>4, PoolAssumption DEF IsChain
<1> DEFINE d == [i \in 1 .. L - 1 |-> c[i + 1]]
<1>6. d \in [1 .. L - 1 -> FreeBlocks']
    BY <1>3, <1>4, <1>5 DEF IsChain
<1>7. \A m \in FreeBlocks' : \E i \in 1 .. L - 1 : d[i] = m
    <2> SUFFICES ASSUME NEW m \in FreeBlocks' PROVE \E i \in 1 .. L - 1 : d[i] = m
        OBVIOUS
    <2>1. PICK i \in 1 .. L : c[i] = m
        BY <1>3, <1>4 DEF IsChain
    <2>2. i # 1
        BY <2>1, <1>3, <1>5
    <2>3. i - 1 \in 1 .. L - 1 /\ d[i - 1] = m
        BY <2>1, <2>2, <1>5
    <2>4. QED
        BY <2>3
<1>8. \A i, j \in 1 .. L - 1 : d[i] = d[j] => i = j
    BY <1>4, <1>5 DEF IsChain
<1>9. \A i \in 1 .. L - 1 : next'[d[i]] = IF i = L - 1 THEN NULL ELSE d[i + 1]
    BY <1>2, <1>4, <1>5 DEF IsChain
<1>10. head' = IF L - 1 = 0 THEN NULL ELSE d[1]
    BY <1>2, <1>4, <1>5 DEF IsChain
<1> HIDE DEF d
<1>11. IsChain(L - 1, d)'
    BY <1>6, <1>7, <1>8, <1>9, <1>10 DEF IsChain
<1>12. QED
    BY <1>5, <1>11, ChainedNext

\* The push puts its block before the first.
LEMMA PushChain ==
    ASSUME IInv, Chained, NEW t \in Threads, FreeCAS(t) PROVE Chained'
<1>0. PICK n : n = arg[t]
    OBVIOUS
<1>1. InFree(t) /\ pc[t] = "f_cas" /\ n \in Nodes \ FreeBlocks /\ handouts[n] = 0
    BY <1>0 DEF FreeCAS, InFree, FreeBlocks, IInv, TypeOK, Ownership
<1>2. /\ ~InFree(t)'
      /\ \A u \in Threads \ {t} : InFree(u)' = InFree(u)
    BY DEF FreeCAS, Goto, InFree, IInv, TypeOK
<1>3. FreeBlocks' = FreeBlocks \cup {n}
    BY <1>0, <1>1, <1>2 DEF FreeCAS, FreeBlocks, IInv, TypeOK, Ownership
<1>4. next[n] = head /\ head' = n /\ next' = next
    BY <1>0, <1>1 DEF FreeCAS, IInv, Views
<1>5. PICK L, c : L \in 0 .. PoolSize /\ IsChain(L, c)
    BY DEF Chained
<1>6. L \in Nat /\ c \in [1 .. L -> FreeBlocks]
    BY <1>5, PoolAssumption DEF IsChain
<1> DEFINE d == [i \in 1 .. L + 1 |-> IF i = 1 THEN n ELSE c[i - 1]]
<1>7. d \in [1 .. L + 1 -> FreeBlocks']
    BY <1>3, <1>6
<1>8. \A m \in FreeBlocks' : \E i \in 1 .. L + 1 : d[i] = m
    <2> SUFFICES ASSUME NEW m \in FreeBlocks' PROVE \E i \in 1 .. L + 1 : d[i] = m
        OBVIOUS
    <2>1. CASE m = n
        BY <2>1, <1>6
    <2>2. CASE m \in FreeBlocks
        <3>1. PICK i \in 1 .. L : c[i] = m
            BY <2>2, <1>5 DEF IsChain
        <3>2. i + 1 \in 1 .. L + 1 /\ d[i + 1] = m
            BY <3>1, <1>6
        <3>3. QED
            BY <3>2
    <2>3. QED
        BY <2>1, <2>2, <1>3
<1>9. \A i, j \in 1 .. L + 1 : d[i] = d[j] => i = j
    <2>1. \A i \in 1 .. L : c[i] # n
        BY <1>1, <1>5 DEF IsChain
    <2>2. QED
        BY <2>1, <1>5, <1>6 DEF IsChain
<1>10. \A i \in 1 .. L + 1 : next'[d[i]] = IF i = L + 1 THEN NULL ELSE d[i + 1]
    BY <1>4, <1>5, <1>6 DEF IsChain
<1>11. head' = d[1]
    BY <1>4, <1>6
<1>12. L + 1 \in Nat /\ L + 1 # 0
    BY <1>6
<1> HIDE DEF d
<1>13. IsChain(L + 1, d)'
    <2>1. head' = IF L + 1 = 0 THEN NULL ELSE d[1]
        BY <1>11, <1>12
    <2>2. QED
        BY <1>7, <1>8, <1>9, <1>10, <2>1, Zenon DEF IsChain
<1>14. QED
    BY <1>12, <1>13, ChainedNext

LEMMA StepChained ==
    ASSUME NoABA, WriteSpan = 1, IInv, Chained, [Next]_vars PROVE Chained'
<1>1. ASSUME NEW t \in Threads,
             AllocCall(t) \/ AllocLoad(t) \/ AllocReadNext(t) \/ AllocRetry(t)
             \/ FreeLoad(t) \/ FreeRetry(t)
      PROVE  Chained'
    <2>1. \A u \in Threads : InFree(u)' = InFree(u)
        BY <1>1 DEF InFree, IInv, TypeOK, Goto, AllocCall, AllocLoad, AllocReadNext,
                    AllocRetry, FreeLoad, FreeRetry
    <2>2. UNCHANGED <<handouts, arg, head, next>>
        BY <1>1 DEF AllocCall, AllocLoad, AllocReadNext, AllocRetry, FreeLoad, FreeRetry
    <2>3. QED
        BY <2>1, <2>2, SameFreeBlocks, SameChain
<1>2. ASSUME NEW t \in Threads, FreeStore(t) PROVE Chained'
    <2>1. \A u \in Threads : InFree(u)' = InFree(u)
        BY <1>2 DEF InFree, IInv, TypeOK, Goto, FreeStore
    <2>2. arg[t] \in Nodes \ FreeBlocks
        BY <1>2 DEF FreeStore, FreeBlocks, InFree, IInv, TypeOK
    <2>3. \A n \in FreeBlocks : next'[n] = next[n]
        BY <1>2, <2>2 DEF FreeStore, IInv, TypeOK, FreeBlocks
    <2>4. UNCHANGED <<handouts, arg, head>>
        BY <1>2 DEF FreeStore
    <2>5. QED
        BY <2>1, <2>3, <2>4, SameFreeBlocks, SameChain
<1>3. ASSUME NEW t \in Threads, NEW n \in Nodes, FreeCall(t, n) PROVE Chained'
    <2>1. handouts[n] > 0 /\ handouts[n] \in Nat /\ handouts[n] <= 1
        BY <1>3 DEF FreeCall, IInv, TypeOK, Ownership
    <2>2. handouts' = [handouts EXCEPT ![n] = 0]
        <3>1. handouts[n] - 1 = 0
            BY <2>1
        <3>2. QED
            BY <1>3, <3>1 DEF FreeCall
    <2>3. /\ InFree(t)' /\ ~InFree(t) /\ arg'[t] = n
          /\ \A u \in Threads \ {t} : InFree(u)' = InFree(u) /\ arg'[u] = arg[u]
        BY <1>3 DEF FreeCall, Goto, InFree, IInv, TypeOK
    <2>4. FreeBlocks' = FreeBlocks
        BY <2>1, <2>2, <2>3 DEF FreeBlocks, IInv, TypeOK
    <2>5. UNCHANGED <<head, next>>
        BY <1>3 DEF FreeCall
    <2>6. QED
        BY <2>4, <2>5, SameChain
<1>4. ASSUME NEW n \in Nodes, NEW i \in 0 .. WriteSpan - 1, NEW w \in Words, Write(n, i, w)
      PROVE  Chained'
    <2>1. next' = [next EXCEPT ![n] = w] /\ n \notin FreeBlocks
        BY <1>4 DEF Write, FreeBlocks, Nodes, IInv, TypeOK
    <2>2. \A m \in FreeBlocks : next'[m] = next[m]
        BY <2>1 DEF IInv, TypeOK, FreeBlocks
    <2>3. \A u \in Threads : InFree(u)' = InFree(u)
        BY <1>4 DEF Write, InFree
    <2>4. UNCHANGED <<handouts, arg, head>>
        BY <1>4 DEF Write
    <2>5. QED
        BY <2>2, <2>3, <2>4, SameFreeBlocks, SameChain
<1>5. CASE UNCHANGED vars
    <2>1. \A u \in Threads : InFree(u)' = InFree(u)
        BY <1>5 DEF vars, InFree
    <2>2. UNCHANGED <<handouts, arg, head, next>>
        BY <1>5 DEF vars
    <2>3. QED
        BY <2>1, <2>2, SameFreeBlocks, SameChain
<1>6. QED
    <2>1. ASSUME NEW t \in Threads, AllocCall(t) \/ AllocStep(t) \/ FreeStep(t)
          PROVE  Chained'
        BY <2>1, <1>1, <1>2, PopChain, PushChain DEF AllocStep, FreeStep
    <2>2. QED
        BY <2>1, <1>3, <1>4, <1>5 DEF Next

\* Every set of natural numbers that has an element has a least one.
LEMMA HasLeast ==
    ASSUME NEW S \in SUBSET Nat, S # {}
    PROVE  \E m \in S : \A k \in S : m <= k
<1> DEFINE R == OpToRel(<, Nat)
<1>1. \A x, y \in Nat : x < y => <<x, y>> \in R
    BY DEF OpToRel
<1>2. IsWellFoundedOn(R, Nat)
    BY NatLessThanWellFounded
<1> HIDE DEF R
<1>3. S \subseteq Nat
    OBVIOUS
<1>4. PICK x \in S : \A y \in S : ~(<<y, x>> \in R)
    BY <1>2, <1>3, WFMin, Zenon
<1>5. \A y \in S : ~(y < x)
    BY <1>1, <1>3, <1>4, Zenon
<1>6. QED
    BY <1>3, <1>5

\* A set of numbers that holds 0, and with a number below m the next one, holds
\* all up to m: the induction that the walk along the list needs.
LEMMA UpTo ==
    ASSUME NEW m \in Nat, NEW S, 0 \in S,
           \A k \in 0 .. m : k \in S /\ k < m => k + 1 \in S
    PROVE  0 .. m \subseteq S
<1> DEFINE Missed == (0 .. m) \ S
<1>1. SUFFICES ASSUME Missed # {} PROVE FALSE
    OBVIOUS
<1>2. PICK k \in Missed : \A j \in Missed : k <= j
    <2>1. Missed \in SUBSET Nat
        OBVIOUS
    <2> HIDE DEF Missed
    <2>2. QED
        BY <1>1, <2>1, HasLeast
<1>3. k # 0 /\ k \in 0 .. m
    BY <1>2
<1>4. k - 1 \in 0 .. m /\ k - 1 \in S
    BY <1>2, <1>3
<1>5. QED
    BY <1>2, <1>3, <1>4

\* Walking from the head visits the chain and then stays at its end.
LEMMA ChainIsList == IInv /\ Chained => OnList = FreeBlocks
<1> SUFFICES ASSUME IInv, Chained PROVE OnList = FreeBlocks
    OBVIOUS
<1>1. PICK L, c : L \in 0 .. PoolSize /\ IsChain(L, c)
    BY DEF Chained
<1>2. L \in Nat /\ c \in [1 .. L -> FreeBlocks] /\ PoolSize \in Nat /\ PoolSize # 0 /\ L <= PoolSize
    BY <1>1, PoolAssumption DEF IsChain
<1>3. FreeBlocks \subseteq Nodes /\ NULL \notin Nodes
    BY PoolAssumption DEF FreeBlocks
<1> DEFINE at[k \in 0 .. PoolSize] ==
                IF k = 0 THEN head
                ELSE IF at[k - 1] \in Nodes THEN next[at[k - 1]] ELSE NULL
           walk == [k \in 0 .. PoolSize |-> IF k < L THEN c[k + 1] ELSE NULL]
           Step(f) == [k \in 0 .. PoolSize |->
                        IF k = 0 THEN head
                        ELSE IF f[k - 1] \in Nodes THEN next[f[k - 1]] ELSE NULL]
<1>4. walk = Step(walk)
    <2> SUFFICES ASSUME NEW k \in 0 .. PoolSize
                 PROVE  walk[k] = IF k = 0 THEN head
                                  ELSE IF walk[k - 1] \in Nodes THEN next[walk[k - 1]] ELSE NULL
        OBVIOUS
    <2>1. CASE k = 0
        BY <2>1, <1>1, <1>2 DEF IsChain
    <2>2. CASE k # 0 /\ k - 1 < L
        <3>1. k \in 1 .. L /\ walk[k - 1] = c[k] /\ c[k] \in Nodes
            BY <2>2, <1>2, <1>3
        <3>2. next[c[k]] = IF k = L THEN NULL ELSE c[k + 1]
            BY <3>1, <1>1 DEF IsChain
        <3>3. walk[k] = IF k = L THEN NULL ELSE c[k + 1]
            BY <3>1, <1>2
        <3>4. QED
            BY <2>2, <3>1, <3>2, <3>3
    <2>3. CASE k # 0 /\ ~(k - 1 < L)
        <3>1. walk[k - 1] = NULL /\ walk[k] = NULL
            BY <2>3, <1>2
        <3>2. QED
            BY <2>3, <3>1, <1>3
    <2>4. QED
        BY <2>1, <2>2, <2>3
<1>5. at = Step(at)
    BY <1>4, Zenon
<1> HIDE DEF at, walk
<1>6. \A k \in 0 .. PoolSize : at[k] = walk[k]
    <2> DEFINE S == {k \in 0 .. PoolSize : at[k] = walk[k]}
    <2>1. 0 \in S
        BY <1>2, <1>4, <1>5
    <2>2. ASSUME NEW k \in 0 .. PoolSize, k \in S, k < PoolSize PROVE k + 1 \in S
        <3>1. k + 1 \in 0 .. PoolSize /\ k + 1 # 0 /\ (k + 1) - 1 = k /\ at[k] = walk[k]
            BY <2>2, <1>2
        <3>2. QED
            BY <3>1, <1>4, <1>5
    <2> HIDE DEF S
    <2>3. 0 .. PoolSize \subseteq S
        BY <2>1, <2>2, <1>2, UpTo
    <2>4. QED
        BY <2>3 DEF S
<1>7. OnList = {walk[k] : k \in 0 .. PoolSize} \cap Nodes
    BY <1>6 DEF OnList, at
<1>8. ASSUME NEW n \in FreeBlocks PROVE n \in OnList
    <2>1. PICK i \in 1 .. L : c[i] = n
        BY <1>1 DEF IsChain
    <2>2. i - 1 \in 0 .. PoolSize /\ walk[i - 1] = n
        BY <2>1, <1>2 DEF walk
    <2>3. QED
        BY <2>2, <1>3, <1>7
<1>9. ASSUME NEW n \in OnList PROVE n \in FreeBlocks
    <2>1. PICK k \in 0 .. PoolSize : walk[k] = n /\ n \in Nodes
        BY <1>7
    <2>2. k < L
        BY <2>1, <1>3 DEF walk
    <2>3. QED
        BY <2>1, <2>2, <1>2 DEF walk
<1>10. QED
    BY <1>8, <1>9

\* Between any two steps of any threads the nodes reached from head_
\* (hp_memory.h:85-101) are the blocks that nobody holds: no push or pop that
\* raced has lost one, made a ring of some, or left one that is held.
THEOREM ListHoldsFreeBlocks ==
    ASSUME NoABA, WriteSpan = 1 PROVE Spec => []ListIsFreeBlocks
<1>1. Init => Chained
    BY InitChained
<1>2. IInv /\ Chained /\ [Next]_vars => Chained'
    BY StepChained
<1>3. IInv /\ Chained => ListIsFreeBlocks
    BY ChainIsList DEF ListIsFreeBlocks
<1>4. QED
    BY <1>1, <1>2, <1>3, PoolInvariant, PTL DEF Spec

==============================================================================
