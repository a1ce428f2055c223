------------------------------- MODULE WorkQueue -------------------------------
(***************************************************************************)
(* What a work-stealing deque promises while its owner only pushes         *)
(* (src/src/core/runtime.h:66-73 and 94-105): a bounded FIFO queue.        *)
(***************************************************************************)
EXTENDS Integers, Sequences

CONSTANTS Capacity,   \* most items that wait
          Items

VARIABLES queue,    \* the items waiting, oldest first
          got       \* the items taken so far, in the order they were taken

queueVars == <<queue, got>>

QueueInit == queue = <<>> /\ got = <<>>

Put(item) == /\ Len(queue) < Capacity
             /\ queue' = Append(queue, item)
             /\ UNCHANGED got

Take == /\ queue # <<>>
        /\ got' = Append(got, Head(queue))
        /\ queue' = Tail(queue)

QueueNext == Take \/ \E item \in Items : Put(item)

QueueSpec == QueueInit /\ [][QueueNext]_queueVars

==============================================================================
