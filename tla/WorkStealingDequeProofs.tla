------------------------ MODULE WorkStealingDequeProofs ------------------------
(***************************************************************************)
(* While the owner only pushes, the deque takes each item once, in the     *)
(* order of the pushes, for any capacity and any number of thieves.        *)
(***************************************************************************)
EXTENDS WorkStealingDeque, TLAPS

\* Two indices less than Capacity apart have different slots.
LEMMA SlotRange == \A x \in Nat : Slot(x) \in 0 .. Capacity - 1
  BY DequeAssumption DEF Slot

LEMMA SmallMultiple ==
    ASSUME NEW c \in Nat \ {0}, NEW q \in Int, c * q < c, c * q > -c
    PROVE  q = 0
  <1>1. CASE q >= 1
    <2>1. c * q >= c * 1
      BY <1>1, Z3
    <2>2. QED
      BY <2>1
  <1>2. CASE q <= -1
    <2>1. c * q <= c * (-1)
      BY <1>2, Z3
    <2>2. QED
      BY <2>1
  <1>3. QED
    BY <1>1, <1>2

LEMMA SlotsDiffer ==
    ASSUME NEW x \in Nat, NEW y \in Nat, x < y, y - x < Capacity
    PROVE  Slot(x) # Slot(y)
<1> SUFFICES ASSUME Slot(x) = Slot(y) PROVE FALSE
    OBVIOUS
<1> DEFINE p == x \div Capacity
           q == y \div Capacity
<1>1. p \in Int /\ q \in Int
    BY DequeAssumption
<1>2. x = Capacity * p + Slot(x) /\ y = Capacity * q + Slot(y)
    BY DequeAssumption DEF Slot
<1>3. Slot(x) \in Int /\ Slot(y) \in Int
    BY DequeAssumption, SlotRange
<1> HIDE DEF p, q
<1>4. y - x = Capacity * (q - p)
    <2>1. Capacity * q - Capacity * p = Capacity * (q - p)
        BY <1>1, DequeAssumption
    <2>2. Capacity * q \in Int /\ Capacity * p \in Int
        BY <1>1, DequeAssumption
    <2>3. QED
        BY <1>2, <1>3, <2>1, <2>2
<1>5. q - p = 0
    BY <1>1, <1>4, DequeAssumption, SmallMultiple
<1>6. QED
    BY <1>1, <1>4, <1>5, DequeAssumption

\* Below the bound on pushes the indices of size_t do not wrap.
LEMMA Arithmetic ==
    ASSUME DequeInv
    PROVE  /\ top \in Nat /\ bottom \in Nat /\ pushed \in Nat /\ pushed <= MaxPush
           /\ top <= bottom /\ bottom = pushed /\ bottom <= top + Capacity
           /\ bottom < SizeMod - 1 /\ top < SizeMod - 1
           /\ Capacity \in Nat \ {0} /\ SizeMod \in Nat /\ MaxPush \in Nat
           /\ ob \in Nat /\ ot \in Nat
  BY DequeAssumption DEF DequeInv, TypeOK, Indices, SizeT

LEMMA InitDequeInv == Init => DequeInv
<1> SUFFICES ASSUME Init PROVE DequeInv
    OBVIOUS
<1> USE DequeAssumption DEF Init
<1>1. TypeOK
    BY DEF TypeOK, SizeT
<1>2. Indices /\ Contents
    BY DEF Indices, Contents
<1>3. OwnerView /\ \A i \in Thieves : ThiefView(i)
    BY DEF OwnerView, ThiefView
<1>4. QED
    BY <1>1, <1>2, <1>3 DEF DequeInv

LEMMA PushCallStep == ASSUME DequeInv, PushCall PROVE DequeInv'
<1> USE DEF PushCall, thiefVars
<1>1. TypeOK'
    BY DEF DequeInv, TypeOK
<1>2. Indices' /\ Contents'
    BY DEF DequeInv, Indices, Contents
<1>3. OwnerView' /\ \A i \in Thieves : ThiefView(i)'
    BY DEF DequeInv, OwnerView, ThiefView
<1>4. QED
    BY <1>1, <1>2, <1>3 DEF DequeInv

LEMMA PushLoadTopStep == ASSUME DequeInv, PushLoadTop PROVE DequeInv'
<1> USE DEF PushLoadTop, thiefVars
<1>1. TypeOK'
    BY DEF DequeInv, TypeOK
<1>2. Indices' /\ Contents'
    BY DEF DequeInv, Indices, Contents
<1>3. Minus(ob, top) = ob - top
    BY Arithmetic DEF DequeInv, OwnerView, Minus
<1>4. OwnerView'
    BY <1>3, Arithmetic DEF DequeInv, OwnerView
<1>5. \A i \in Thieves : ThiefView(i)'
    BY DEF DequeInv, ThiefView
<1>6. QED
    BY <1>1, <1>2, <1>4, <1>5 DEF DequeInv

\* The slot that is written is no slot between top_ and bottom_: they are less
\* than Capacity away, since top_ can only have grown since Push read it.
LEMMA PushStoreStep == ASSUME DequeInv, PushStore PROVE DequeInv'
<1> USE DEF PushStore, thiefVars
<1>1. ob = bottom /\ pushed < MaxPush /\ ot <= top /\ ob - ot < Capacity
    BY DEF DequeInv, OwnerView
<1>2. Slot(ob) \in 0 .. Capacity - 1
    BY SlotRange, Arithmetic
<1>3. TypeOK'
    <2>1. buffer \in [0 .. Capacity - 1 -> Nat \cup {NoItem}] /\ pushed + 1 \in Nat
        BY DEF DequeInv, TypeOK
    <2>2. buffer' \in [0 .. Capacity - 1 -> Nat \cup {NoItem}] /\ opc' = "push_bottom"
        BY <1>2, <2>1
    <2>3. QED
        BY <2>2, Zenon DEF DequeInv, TypeOK
<1>4. Indices'
    BY DEF DequeInv, Indices
<1>5. ASSUME NEW k \in top .. bottom - 1 PROVE buffer'[Slot(k)] = k + 1
    <2>1. k \in Nat /\ k < ob /\ ob - k < Capacity
        BY <1>1, Arithmetic
    <2>2. Slot(k) # Slot(ob)
        BY <2>1, SlotsDiffer, Arithmetic
    <2>3. buffer'[Slot(k)] = buffer[Slot(k)]
        BY <2>1, <2>2, <1>2, SlotRange DEF DequeInv, TypeOK
    <2>4. QED
        BY <2>3 DEF DequeInv, Contents
<1>6. Contents'
    BY <1>5 DEF Contents
<1>7. OwnerView'
    BY <1>1, <1>2, Arithmetic DEF DequeInv, OwnerView, TypeOK
<1>8. \A i \in Thieves : ThiefView(i)'
    BY DEF DequeInv, ThiefView
<1>9. QED
    BY <1>3, <1>4, <1>6, <1>7, <1>8 DEF DequeInv

LEMMA PushBottomStep == ASSUME DequeInv, PushBottom PROVE DequeInv'
<1> USE DEF PushBottom, thiefVars
<1>1. /\ ob = bottom /\ pushed < MaxPush /\ ot <= top /\ ob - ot < Capacity
      /\ buffer[Slot(ob)] = ob + 1
    BY DEF DequeInv, OwnerView
<1>2. bottom' = bottom + 1
    BY <1>1, Arithmetic DEF Inc
<1>3. TypeOK'
    <2>1. bottom' \in SizeT /\ pushed' \in 0 .. MaxPush /\ opc' = "idle"
        BY <1>1, <1>2, Arithmetic DEF SizeT
    <2>2. QED
        BY <2>1, Zenon DEF DequeInv, TypeOK
<1>4. Indices'
    BY <1>1, <1>2, Arithmetic DEF DequeInv, Indices
<1>5. Contents'
    BY <1>1, <1>2, Arithmetic DEF DequeInv, Contents
<1>6. OwnerView'
    BY DEF DequeInv, OwnerView
<1>7. ASSUME NEW i \in Thieves PROVE ThiefView(i)'
    <2>1. tt[i] \in Nat
        BY DEF DequeInv, TypeOK, SizeT
    <2>2. QED
        BY <1>2, <2>1, Arithmetic DEF DequeInv, ThiefView
<1>8. QED
    BY <1>3, <1>4, <1>5, <1>6, <1>7 DEF DequeInv

LEMMA StealCallStep == ASSUME DequeInv, NEW i \in Thieves, StealCall(i) PROVE DequeInv'
<1> USE DEF StealCall, ownerVars
<1>1. TypeOK'
    BY DEF DequeInv, TypeOK
<1>2. Indices' /\ Contents' /\ OwnerView'
    BY DEF DequeInv, Indices, Contents, OwnerView
<1>3. \A j \in Thieves : ThiefView(j)'
    BY Arithmetic DEF DequeInv, ThiefView, TypeOK
<1>4. QED
    BY <1>1, <1>2, <1>3 DEF DequeInv

LEMMA StealLoadBottomStep ==
    ASSUME DequeInv, NEW i \in Thieves, StealLoadBottom(i) PROVE DequeInv'
<1> USE DEF StealLoadBottom, ownerVars
<1>1. TypeOK'
    BY DEF DequeInv, TypeOK
<1>2. Indices' /\ Contents' /\ OwnerView'
    BY DEF DequeInv, Indices, Contents, OwnerView
<1>3. \A j \in Thieves : ThiefView(j)'
    BY DEF DequeInv, ThiefView, TypeOK
<1>4. QED
    BY <1>1, <1>2, <1>3 DEF DequeInv

\* What the thief reads matters only while top_ is still its t; the slot of
\* top_ then holds the item of top_.
LEMMA StealReadStep == ASSUME DequeInv, NEW i \in Thieves, StealRead(i) PROVE DequeInv'
<1> USE DEF StealRead, ownerVars
<1>1. tt[i] \in Nat /\ Slot(tt[i]) \in 0 .. Capacity - 1
    BY SlotRange DEF DequeInv, TypeOK, SizeT
<1>2. TypeOK'
    BY <1>1 DEF DequeInv, TypeOK
<1>3. Indices' /\ Contents' /\ OwnerView'
    BY DEF DequeInv, Indices, Contents, OwnerView
<1>4. tt[i] = top => buffer[Slot(tt[i])] = top + 1
    BY Arithmetic DEF DequeInv, ThiefView, Contents
<1>5. \A j \in Thieves : ThiefView(j)'
    BY <1>4 DEF DequeInv, ThiefView, TypeOK
<1>6. QED
    BY <1>2, <1>3, <1>5 DEF DequeInv

LEMMA StealCASStep == ASSUME DequeInv, NEW i \in Thieves, StealCAS(i) PROVE DequeInv'
<1> USE DEF StealCAS, ownerVars
<1>1. CASE top = tt[i]
    <2>1. titem[i] = top + 1 /\ top < bottom
        BY <1>1 DEF DequeInv, ThiefView
    <2>2. top' = top + 1 /\ taken' = Append(taken, top + 1)
        BY <1>1, <2>1, Arithmetic DEF Inc
    <2>3. taken' = [k \in 1 .. top + 1 |-> k]
        BY <2>2, Arithmetic DEF DequeInv, Indices
    <2>4. TypeOK'
        <3>1. top' \in SizeT
            BY <2>2, Arithmetic DEF SizeT
        <3>2. taken' \in Seq(Nat \cup {NoItem})
            BY <2>2, Arithmetic DEF DequeInv, TypeOK
        <3>3. tpc' \in [Thieves -> {"idle", "bottom", "read", "cas"}]
            BY <1>1 DEF DequeInv, TypeOK
        <3>4. QED
            BY <1>1, <3>1, <3>2, <3>3, Zenon DEF DequeInv, TypeOK
    <2>5. Indices'
        BY <2>1, <2>2, <2>3, Arithmetic DEF DequeInv, Indices
    <2>6. Contents'
        BY <2>2, Arithmetic DEF DequeInv, Contents
    <2>7. OwnerView'
        BY <2>2, Arithmetic DEF DequeInv, OwnerView
    <2>8. ASSUME NEW j \in Thieves PROVE ThiefView(j)'
        <3>1. tt[j] \in Nat
            BY DEF DequeInv, TypeOK, SizeT
        <3>2. tpc'[j] = tpc[j] \/ tpc'[j] = "idle"
            BY DEF DequeInv, TypeOK
        <3>3. tt' = tt /\ titem' = titem /\ bottom' = bottom
            OBVIOUS
        <3>4. ThiefView(j) /\ top \in Nat
            BY Arithmetic DEF DequeInv
        <3> HIDE DEF StealCAS, ownerVars
        <3>5. QED
            BY <2>2, <3>1, <3>2, <3>3, <3>4 DEF ThiefView
    <2>9. QED
        BY <2>4, <2>5, <2>6, <2>7, <2>8 DEF DequeInv
<1>2. CASE top # tt[i]
    <2>1. TypeOK'
        BY <1>2 DEF DequeInv, TypeOK
    <2>2. Indices' /\ Contents' /\ OwnerView'
        BY <1>2 DEF DequeInv, Indices, Contents, OwnerView
    <2>3. \A j \in Thieves : ThiefView(j)'
        BY <1>2 DEF DequeInv, ThiefView, TypeOK
    <2>4. QED
        BY <2>1, <2>2, <2>3 DEF DequeInv
<1>3. QED
    BY <1>1, <1>2

LEMMA NextDequeInv == DequeInv /\ [PushStealNext]_vars => DequeInv'
<1> SUFFICES ASSUME DequeInv, [PushStealNext]_vars PROVE DequeInv'
    OBVIOUS
<1>1. CASE PushStep
    BY <1>1, PushCallStep, PushLoadTopStep, PushStoreStep, PushBottomStep DEF PushStep
<1>2. ASSUME NEW i \in Thieves, StealStep(i) PROVE DequeInv'
    BY <1>2, StealCallStep, StealLoadBottomStep, StealReadStep, StealCASStep DEF StealStep
<1>3. CASE UNCHANGED vars
    BY <1>3 DEF vars, DequeInv, TypeOK, Indices, Contents, OwnerView, ThiefView
<1>4. QED
    BY <1>1, <1>2, <1>3 DEF PushStealNext

\* The inductive invariant, of which the theorems below are corollaries.
THEOREM DequeInvariant == PushStealSpec => []DequeInv
<1>1. Init => DequeInv
    BY InitDequeInv
<1>2. DequeInv /\ [PushStealNext]_vars => DequeInv'
    BY NextDequeInv
<1>3. QED
    BY <1>1, <1>2, PTL DEF PushStealSpec

\* Push and Steal (runtime.h:66-73, 94-105) lose nothing to a race: what the
\* thieves take are the items pushed, each once.
THEOREM EachItemOnce == PushStealSpec => []TakenOnce
<1>1. DequeInv => TakenOnce
    BY Arithmetic DEF DequeInv, Indices, TakenOnce
<1>2. QED
    BY <1>1, DequeInvariant, PTL

(* The refinement of the FIFO queue. *)

Waiting(t, b) == [k \in 1 .. b - t |-> t + k]

LEMMA WaitingAppend ==
    ASSUME NEW t \in Nat, NEW b \in Nat, t <= b
    PROVE  /\ Waiting(t, b) \in Seq(Nat) /\ Len(Waiting(t, b)) = b - t
           /\ Waiting(t, b + 1) = Append(Waiting(t, b), b + 1)
<1>1. b - t \in Nat /\ b + 1 - t = (b - t) + 1
    OBVIOUS
<1>2. Waiting(t, b) \in Seq(Nat) /\ Len(Waiting(t, b)) = b - t
    BY <1>1 DEF Waiting
<1>3. Waiting(t, b + 1) = Append(Waiting(t, b), b + 1)
    BY <1>1, <1>2 DEF Waiting
<1>4. QED
    BY <1>2, <1>3

LEMMA WaitingTail ==
    ASSUME NEW t \in Nat, NEW b \in Nat, t < b
    PROVE  /\ Waiting(t, b) # <<>> /\ Head(Waiting(t, b)) = t + 1
           /\ Waiting(t + 1, b) = Tail(Waiting(t, b))
<1>1. b - t \in Nat /\ b - t >= 1 /\ b - (t + 1) = (b - t) - 1
    OBVIOUS
<1>2. Waiting(t, b) \in Seq(Nat) /\ Len(Waiting(t, b)) = b - t
    BY <1>1 DEF Waiting
<1>3. Waiting(t, b) # <<>> /\ Head(Waiting(t, b)) = t + 1
    BY <1>1, <1>2 DEF Waiting
<1>4. Waiting(t + 1, b) = Tail(Waiting(t, b))
    BY <1>1, <1>2 DEF Waiting
<1>5. QED
    BY <1>3, <1>4

LEMMA StepFifo ==
    ASSUME DequeInv, DequeInv', [PushStealNext]_vars PROVE [Fifo!QueueNext]_(Fifo!queueVars)
<1> USE DEF Fifo!queueVars
<1>1. ASSUME UNCHANGED <<top, bottom, taken>> PROVE UNCHANGED Fifo!queueVars
    BY <1>1
<1>2. CASE PushBottom
    <2>1. /\ bottom' = bottom + 1 /\ pushed < MaxPush /\ bottom - top < Capacity
          /\ UNCHANGED <<top, taken>>
        BY <1>2, Arithmetic DEF PushBottom, DequeInv, OwnerView, Inc
    <2>2. /\ Waiting(top, bottom') = Append(Waiting(top, bottom), bottom + 1)
          /\ Len(Waiting(top, bottom)) < Capacity
        BY <2>1, Arithmetic, WaitingAppend
    <2>3. bottom + 1 \in 1 .. MaxPush
        BY <2>1, Arithmetic
    <2>4. QED
        BY <2>1, <2>2, <2>3 DEF Fifo!QueueNext, Fifo!Put, Waiting
<1>3. ASSUME NEW i \in Thieves, StealCAS(i), top = tt[i] PROVE Fifo!QueueNext
    <2>1. titem[i] = top + 1 /\ top < bottom
        BY <1>3 DEF StealCAS, DequeInv, ThiefView
    <2>2. top' = top + 1 /\ taken' = Append(taken, top + 1) /\ UNCHANGED bottom
        BY <1>3, <2>1, Arithmetic DEF StealCAS, Inc
    <2>3. /\ Waiting(top, bottom) # <<>> /\ Head(Waiting(top, bottom)) = top + 1
          /\ Waiting(top', bottom) = Tail(Waiting(top, bottom))
        BY <2>1, <2>2, Arithmetic, WaitingTail
    <2>4. Fifo!Take
        BY <2>2, <2>3 DEF Fifo!Take, Waiting
    <2>5. QED
        BY <2>4 DEF Fifo!QueueNext
<1>4. CASE PushStep
    BY <1>1, <1>2, <1>4 DEF PushStep, PushCall, PushLoadTop, PushStore
<1>5. ASSUME NEW i \in Thieves, StealStep(i) PROVE [Fifo!QueueNext]_(Fifo!queueVars)
    <2>1. CASE StealCAS(i) /\ top = tt[i]
        BY <1>3, <2>1
    <2>2. CASE ~(StealCAS(i) /\ top = tt[i])
        BY <1>1, <1>5, <2>2 DEF StealStep, StealCall, StealLoadBottom, StealRead, StealCAS
    <2>3. QED
        BY <2>1, <2>2
<1>6. CASE UNCHANGED vars
    BY <1>1, <1>6 DEF vars
<1>7. QED
    BY <1>4, <1>5, <1>6 DEF PushStealNext

\* Push and Steal implement a bounded FIFO queue: the push becomes visible with
\* the store to bottom_, the steal with the compare-exchange of top_.
THEOREM DequeRefinement == PushStealSpec => ImplementsFifo
<1>1. Init => Fifo!QueueInit
    BY DEF Init, Fifo!QueueInit
<1>2. DequeInv /\ DequeInv' /\ [PushStealNext]_vars => [Fifo!QueueNext]_(Fifo!queueVars)
    BY StepFifo
<1>3. QED
    BY <1>1, <1>2, DequeInvariant, PTL DEF PushStealSpec, ImplementsFifo, Fifo!QueueSpec

==============================================================================
