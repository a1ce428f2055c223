------------------------------ MODULE BlockPool ------------------------------
(***************************************************************************)
(* What a memory pool of fixed blocks promises its callers                 *)
(* (src/src/core/hp_memory.h:69-118), free of any list or thread: a block  *)
(* is handed out only while nobody has it, and comes back only from a      *)
(* caller that has it.  LockFreePool is shown to implement this module.    *)
(***************************************************************************)

CONSTANT Blocks          \* the blocks of the pool

VARIABLES inUse,         \* blocks that a caller holds
          returning      \* blocks given back whose Free has not ended yet

poolVars == <<inUse, returning>>

PoolInit == inUse = {} /\ returning = {}

\* Allocate returns block b.
Take(b) == /\ b \in Blocks \ (inUse \cup returning)
           /\ inUse' = inUse \cup {b}
           /\ UNCHANGED returning

\* A caller enters Free(b).
GiveBack(b) == /\ b \in inUse
               /\ inUse' = inUse \ {b}
               /\ returning' = returning \cup {b}

\* Free(b) takes effect: the block can be handed out again.
Reclaim(b) == /\ b \in returning
              /\ returning' = returning \ {b}
              /\ UNCHANGED inUse

PoolNext == \E b \in Blocks : Take(b) \/ GiveBack(b) \/ Reclaim(b)

PoolSpec == PoolInit /\ [][PoolNext]_poolVars

==============================================================================
