--------------------------- MODULE WorkStealingDeque ---------------------------
(***************************************************************************)
(* WorkStealingDeque<T, Capacity>, src/src/core/runtime.h:54-106.  One     *)
(* owner calls Push and Pop, any number of thieves call Steal; each atomic *)
(* access is a step.  The indices are size_t, that is modulo SizeMod.      *)
(*                                                                         *)
(* The k-th item pushed is the number k (the deque never looks inside an   *)
(* item); what the buffer holds before anything was stored is NoItem.      *)
(***************************************************************************)
EXTENDS Integers, Sequences

CONSTANTS Capacity,   \* slots of buffer_
          SizeMod,    \* 2^64, the modulus of size_t
          Thieves,    \* threads that call Steal
          MaxPush,    \* bound: how many items are pushed
          NoItem      \* what an unwritten slot holds

ASSUME DequeAssumption ==
    /\ Capacity \in Nat \ {0}
    /\ SizeMod \in Nat /\ MaxPush \in Nat
    /\ MaxPush + Capacity < SizeMod
    /\ NoItem \notin Nat

VARIABLES
    top,        \* top_
    bottom,     \* bottom_
    buffer,     \* buffer_
    opc,        \* where the owner is
    ob, ot,     \* its locals b and t
    tpc,        \* where each thief is
    tt, tb,     \* its locals t and b
    titem,      \* the item it has read
    pushed,     \* history: number of items pushed
    taken       \* history: the items taken, in the order they were taken

ownerVars == <<opc, ob, ot>>
thiefVars == <<tpc, tt, tb, titem>>
vars == <<top, bottom, buffer, opc, ob, ot, tpc, tt, tb, titem, pushed, taken>>

SizeT == 0 .. SizeMod - 1
Inc(x) == IF x = SizeMod - 1 THEN 0 ELSE x + 1
Dec(x) == IF x = 0 THEN SizeMod - 1 ELSE x - 1
Minus(x, y) == IF y <= x THEN x - y ELSE SizeMod + x - y
Slot(x) == x % Capacity

TypeOK ==
    /\ top \in SizeT /\ bottom \in SizeT
    /\ buffer \in [0 .. Capacity - 1 -> Nat \cup {NoItem}]
    /\ opc \in {"idle", "push_top", "push_store", "push_bottom",
                "pop_top", "pop_cas", "pop_lost", "pop_reset"}
    /\ ob \in SizeT /\ ot \in SizeT
    /\ tpc \in [Thieves -> {"idle", "bottom", "read", "cas"}]
    /\ tt \in [Thieves -> SizeT] /\ tb \in [Thieves -> SizeT]
    /\ titem \in [Thieves -> Nat \cup {NoItem}]
    /\ pushed \in 0 .. MaxPush
    /\ taken \in Seq(Nat \cup {NoItem})

Init ==
    /\ top = 0 /\ bottom = 0
    /\ buffer = [s \in 0 .. Capacity - 1 |-> NoItem]
    /\ opc = "idle" /\ ob = 0 /\ ot = 0
    /\ tpc = [i \in Thieves |-> "idle"]
    /\ tt = [i \in Thieves |-> 0] /\ tb = [i \in Thieves |-> 0]
    /\ titem = [i \in Thieves |-> NoItem]
    /\ pushed = 0 /\ taken = <<>>

-------------------------------------------------------------------------------
(* Push *)

PushCall ==
    /\ opc = "idle" /\ pushed < MaxPush
    /\ ob' = bottom
    /\ opc' = "push_top"
    /\ UNCHANGED <<top, bottom, buffer, ot, thiefVars, pushed, taken>>

\* Mutant: the test for a full buffer is off by one.
PushLoadTopOffByOne ==
    /\ opc = "push_top"
    /\ ot' = top
    /\ opc' = IF Minus(ob, top) > Capacity THEN "idle" ELSE "push_store"
    /\ UNCHANGED <<top, bottom, buffer, ob, thiefVars, pushed, taken>>

PushLoadTop ==
    /\ opc = "push_top"
    /\ ot' = top
    /\ opc' = IF Minus(ob, top) >= Capacity THEN "idle" ELSE "push_store"
    /\ UNCHANGED <<top, bottom, buffer, ob, thiefVars, pushed, taken>>

PushStore ==
    /\ opc = "push_store"
    /\ buffer' = [buffer EXCEPT ![Slot(ob)] = pushed + 1]
    /\ opc' = "push_bottom"
    /\ UNCHANGED <<top, bottom, ob, ot, thiefVars, pushed, taken>>

PushBottom ==
    /\ opc = "push_bottom"
    /\ bottom' = Inc(ob)
    /\ pushed' = pushed + 1
    /\ opc' = "idle"
    /\ UNCHANGED <<top, buffer, ob, ot, thiefVars, taken>>

-------------------------------------------------------------------------------
(* Pop.  Only the owner stores to bottom_, so its load is one step with the  *)
(* store that follows.                                                       *)

PopCall ==
    /\ opc = "idle"
    /\ ob' = Dec(bottom)
    /\ bottom' = Dec(bottom)
    /\ opc' = "pop_top"
    /\ UNCHANGED <<top, buffer, ot, thiefVars, pushed, taken>>

\* t = top_; with more than one item the bottom one is the owner's without a
\* compare-exchange, with exactly one the thieves compete for it.
PopLoadTop ==
    /\ opc = "pop_top"
    /\ ot' = top
    /\ opc' = IF top < ob THEN "idle" ELSE IF top = ob THEN "pop_cas" ELSE "pop_reset"
    /\ taken' = IF top < ob THEN Append(taken, buffer[Slot(ob)]) ELSE taken
    /\ UNCHANGED <<top, bottom, buffer, ob, thiefVars, pushed>>

\* On success bottom_ stays at ob, one below the new top_.  On failure the
\* compare-exchange stores the current top_ in t.
PopCAS ==
    /\ opc = "pop_cas"
    /\ \/ /\ top = ot
          /\ top' = Inc(ot)
          /\ taken' = Append(taken, buffer[Slot(ob)])
          /\ opc' = "idle"
          /\ UNCHANGED ot
       \/ /\ top # ot
          /\ ot' = top
          /\ opc' = "pop_lost"
          /\ UNCHANGED <<top, taken>>
    /\ UNCHANGED <<bottom, buffer, ob, thiefVars, pushed>>

PopLost ==
    /\ opc = "pop_lost"
    /\ bottom' = Inc(ot)
    /\ opc' = "idle"
    /\ UNCHANGED <<top, buffer, ob, ot, thiefVars, pushed, taken>>

PopReset ==
    /\ opc = "pop_reset"
    /\ bottom' = ot
    /\ opc' = "idle"
    /\ UNCHANGED <<top, buffer, ob, ot, thiefVars, pushed, taken>>

-------------------------------------------------------------------------------
(* Steal *)

StealCall(i) ==
    /\ tpc[i] = "idle"
    /\ tt' = [tt EXCEPT ![i] = top]
    /\ tpc' = [tpc EXCEPT ![i] = "bottom"]
    /\ UNCHANGED <<top, bottom, buffer, ownerVars, tb, titem, pushed, taken>>

StealLoadBottom(i) ==
    /\ tpc[i] = "bottom"
    /\ tb' = [tb EXCEPT ![i] = bottom]
    /\ tpc' = [tpc EXCEPT ![i] = IF tt[i] < bottom THEN "read" ELSE "idle"]
    /\ UNCHANGED <<top, bottom, buffer, ownerVars, tt, titem, pushed, taken>>

StealRead(i) ==
    /\ tpc[i] = "read"
    /\ titem' = [titem EXCEPT ![i] = buffer[Slot(tt[i])]]
    /\ tpc' = [tpc EXCEPT ![i] = "cas"]
    /\ UNCHANGED <<top, bottom, buffer, ownerVars, tt, tb, pushed, taken>>

\* Mutant: top_ is stored without comparing.
StealStoreTop(i) ==
    /\ tpc[i] = "cas"
    /\ top' = Inc(tt[i])
    /\ taken' = Append(taken, titem[i])
    /\ tpc' = [tpc EXCEPT ![i] = "idle"]
    /\ UNCHANGED <<bottom, buffer, ownerVars, tt, tb, titem, pushed>>

StealCAS(i) ==
    /\ tpc[i] = "cas"
    /\ IF top = tt[i]
       THEN /\ top' = Inc(tt[i])
            /\ taken' = Append(taken, titem[i])
       ELSE UNCHANGED <<top, taken>>
    /\ tpc' = [tpc EXCEPT ![i] = "idle"]
    /\ UNCHANGED <<bottom, buffer, ownerVars, tt, tb, titem, pushed>>

-------------------------------------------------------------------------------
PushStep == PushCall \/ PushLoadTop \/ PushStore \/ PushBottom
PopStep  == PopCall \/ PopLoadTop \/ PopCAS \/ PopLost \/ PopReset
StealStep(i) == StealCall(i) \/ StealLoadBottom(i) \/ StealRead(i) \/ StealCAS(i)

\* The owner pushes, the thieves steal.
PushStealNext == PushStep \/ \E i \in Thieves : StealStep(i)
PushStealSpec == Init /\ [][PushStealNext]_vars

\* The owner pops as well.
Next == PopStep \/ PushStealNext
Spec == Init /\ [][Next]_vars

-------------------------------------------------------------------------------
(* Properties *)

\* What is taken was pushed, and nothing is taken twice, by whomever.
TakenOnce ==
    /\ \A k \in 1 .. Len(taken) : taken[k] \in 1 .. pushed
    /\ \A j, k \in 1 .. Len(taken) : taken[j] = taken[k] => j = k

\* Owner and thieves together are a bounded FIFO queue: the successful
\* compare-exchange of Steal takes the oldest item, the store to bottom_ adds one.
Fifo == INSTANCE WorkQueue WITH
            Items <- 1 .. MaxPush,
            queue <- [k \in 1 .. bottom - top |-> top + k],
            got <- taken

ImplementsFifo == Fifo!QueueSpec

(* The inductive invariant of PushStealSpec. *)

Indices ==
    /\ top <= bottom /\ bottom <= top + Capacity
    /\ bottom = pushed
    /\ taken = [k \in 1 .. top |-> k]

\* The slots between top_ and bottom_ hold the items of their index.
Contents == \A k \in top .. bottom - 1 : buffer[Slot(k)] = k + 1

OwnerView ==
    /\ opc \in {"idle", "push_top", "push_store", "push_bottom"}
    /\ opc # "idle" => ob = bottom /\ pushed < MaxPush
    /\ opc \in {"push_store", "push_bottom"} => ot <= top /\ ob - ot < Capacity
    /\ opc = "push_bottom" => buffer[Slot(ob)] = ob + 1

\* A thief whose compare-exchange can still succeed has read the right item.
ThiefView(i) ==
    /\ tpc[i] # "idle" => tt[i] <= top
    /\ tpc[i] \in {"read", "cas"} => tt[i] < bottom
    /\ tpc[i] = "cas" /\ tt[i] = top => titem[i] = top + 1

DequeInv == TypeOK /\ Indices /\ Contents /\ OwnerView /\ \A i \in Thieves : ThiefView(i)

==============================================================================
