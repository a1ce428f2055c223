--------------------------- MODULE InterpretersProofs ---------------------------
(***************************************************************************)
(* What the three interpreters keep in their stacks, where they agree, and *)
(* what Execute forgets, for every width of a word, every arithmetic and   *)
(* every set of methods.                                                   *)
(***************************************************************************)
EXTENDS Interpreters, TLAPS

-------------------------------------------------------------------------------
(* Machines whose ints are words, and whose unsigned stack holds values of U *)

Sane(U, m) ==
    /\ m \in Machine
    /\ m.stack["i32"] \in Seq(Words) /\ m.stack["u32"] \in Seq(U)

\* What an instruction leaves alone when it changes only stack k.
SameBut(k, m, n) ==
    /\ n.pc = m.pc /\ n.running = m.running /\ n.fault = m.fault
    /\ n.locals = m.locals /\ n.ret = m.ret /\ n.retobj = m.retobj
    /\ \A j \in Kinds \ {k} : n.stack[j] = m.stack[j]

\* What Push does.
LEMMA Pushed ==
    ASSUME NEW m \in Machine, NEW k \in Kinds, NEW v \in Nat
    PROVE  /\ Push(m, k, v) \in Machine /\ SameBut(k, m, Push(m, k, v))
           /\ Push(m, k, v).stack[k] = Append(m.stack[k], v)
  <1>1. m.stack \in [Kinds -> Seq(Nat)]
    BY DEF Machine
  <1>2. Append(m.stack[k], v) \in Seq(Nat)
    BY <1>1
  <1> DEFINE s == [m.stack EXCEPT ![k] = Append(m.stack[k], v)]
  <1>3. /\ s \in [Kinds -> Seq(Nat)] /\ s[k] = Append(m.stack[k], v)
        /\ \A j \in Kinds \ {k} : s[j] = m.stack[j]
    BY <1>1, <1>2
  <1>4. Push(m, k, v) = [m EXCEPT !.stack = s]
    BY DEF Push
  <1> HIDE DEF s
  <1>5. /\ [m EXCEPT !.stack = s] \in Machine /\ [m EXCEPT !.stack = s].stack = s
        /\ [m EXCEPT !.stack = s].pc = m.pc /\ [m EXCEPT !.stack = s].running = m.running
        /\ [m EXCEPT !.stack = s].fault = m.fault /\ [m EXCEPT !.stack = s].locals = m.locals
        /\ [m EXCEPT !.stack = s].ret = m.ret /\ [m EXCEPT !.stack = s].retobj = m.retobj
    BY <1>3 DEF Machine
  <1> QED  BY <1>3, <1>4, <1>5 DEF SameBut

\* What the vectors' pops leave of a stack.
Shorter(s) == IF s = <<>> THEN s ELSE SubSeq(s, 1, Len(s) - 1)
LastOr0(s) == IF s = <<>> THEN 0 ELSE s[Len(s)]

\* A shorter stack has no other elements.
LEMMA ShorterIs ==
    ASSUME NEW S, NEW s \in Seq(S)
    PROVE  Shorter(s) \in Seq(S) /\ (s # <<>> => LastOr0(s) \in S)
  BY DEF Shorter, LastOr0

\* What Drop does.
LEMMA Dropped ==
    ASSUME NEW m \in Machine, NEW k \in Kinds
    PROVE  /\ Drop(m, k) \in Machine /\ SameBut(k, m, Drop(m, k))
           /\ Drop(m, k).stack[k] = Shorter(m.stack[k])
           /\ Top(m, k) = LastOr0(m.stack[k]) /\ Top(m, k) \in Nat
  <1>1. m.stack \in [Kinds -> Seq(Nat)]
    BY DEF Machine
  <1> DEFINE r == Shorter(m.stack[k])
  <1>2. r \in Seq(Nat) /\ LastOr0(m.stack[k]) \in Nat
    BY <1>1, ShorterIs DEF LastOr0
  <1>3. Top(m, k) = LastOr0(m.stack[k])
    BY DEF Top, LastOr0
  <1> DEFINE s == [m.stack EXCEPT ![k] = r]
  <1>4. Drop(m, k) = [m EXCEPT !.stack = s]
    BY DEF Drop, Shorter
  <1> HIDE DEF r
  <1>5. /\ s \in [Kinds -> Seq(Nat)] /\ s[k] = r
        /\ \A j \in Kinds \ {k} : s[j] = m.stack[j]
    BY <1>1, <1>2
  <1> HIDE DEF s
  <1>6. /\ [m EXCEPT !.stack = s] \in Machine /\ [m EXCEPT !.stack = s].stack = s
        /\ [m EXCEPT !.stack = s].pc = m.pc /\ [m EXCEPT !.stack = s].running = m.running
        /\ [m EXCEPT !.stack = s].fault = m.fault /\ [m EXCEPT !.stack = s].locals = m.locals
        /\ [m EXCEPT !.stack = s].ret = m.ret /\ [m EXCEPT !.stack = s].retobj = m.retobj
    BY <1>5 DEF Machine
  <1> QED  BY <1>2, <1>3, <1>4, <1>5, <1>6 DEF SameBut, r

\* Zero is a word, and so is every counter.
LEMMA WordsAre ==
    /\ 0 \in Words /\ Words \subseteq Nat
    /\ \A x \in Nat : ((x + WordMod - 1) % WordMod) \in Nat /\ ((x + 1) % WordMod) \in Nat
    /\ \A x \in Nat : (x % WordMod) \in Words
  <1>1. WordMod \in Nat /\ WordMod > 0
    BY MachineAssumption DEF MachineAssumption
  <1>2. \A x \in Nat : (x % WordMod) \in 0 .. WordMod - 1
    BY <1>1
  <1>3. \A x \in Nat : x + WordMod - 1 \in Nat /\ x + 1 \in Nat
    BY <1>1
  <1>4. 0 \in Words /\ Words \subseteq Nat
    BY <1>1 DEF Words
  <1> QED  BY <1>2, <1>3, <1>4 DEF Words

\* The three ways to change pc_ and the loop's flags.
LEMMA Stepped ==
    ASSUME NEW m \in Machine, NEW target \in Nat
    PROVE  /\ Goto(m, target) \in Machine /\ Next1(m) \in Machine /\ Faulted(m) \in Machine
           /\ \A n \in {Goto(m, target), Next1(m), Faulted(m)} :
                 n.stack = m.stack /\ n.locals = m.locals /\ n.ret = m.ret /\ n.retobj = m.retobj
           /\ \A n \in {Goto(m, target), Next1(m)} : n.running = m.running /\ n.fault = m.fault
           /\ Goto(m, target).pc = (target + WordMod - 1) % WordMod
           /\ Next1(m).pc = (m.pc + 1) % WordMod
           /\ Faulted(m).pc = m.pc /\ ~Faulted(m).running /\ Faulted(m).fault
  <1>1. m.pc \in Nat
    BY DEF Machine
  <1> DEFINE g == (target + WordMod - 1) % WordMod
             p == (m.pc + 1) % WordMod
  <1>2. g \in Nat /\ p \in Nat
    BY <1>1, WordsAre
  <1>3. /\ Goto(m, target) = [m EXCEPT !.pc = g] /\ Next1(m) = [m EXCEPT !.pc = p]
    BY DEF Goto, Next1
  <1>4. Faulted(m) = [m EXCEPT !.fault = TRUE, !.running = FALSE]
    BY DEF Faulted
  <1> HIDE DEF g, p
  <1>5. /\ Goto(m, target) \in Machine /\ Goto(m, target).stack = m.stack
        /\ Goto(m, target).locals = m.locals /\ Goto(m, target).ret = m.ret
        /\ Goto(m, target).retobj = m.retobj /\ Goto(m, target).running = m.running
        /\ Goto(m, target).fault = m.fault /\ Goto(m, target).pc = g
    BY <1>2, <1>3 DEF Machine
  <1>6. /\ Next1(m) \in Machine /\ Next1(m).stack = m.stack
        /\ Next1(m).locals = m.locals /\ Next1(m).ret = m.ret
        /\ Next1(m).retobj = m.retobj /\ Next1(m).running = m.running
        /\ Next1(m).fault = m.fault /\ Next1(m).pc = p
    BY <1>2, <1>3 DEF Machine
  <1>7. /\ Faulted(m) \in Machine /\ Faulted(m).stack = m.stack
        /\ Faulted(m).locals = m.locals /\ Faulted(m).ret = m.ret
        /\ Faulted(m).retobj = m.retobj /\ ~Faulted(m).running
        /\ Faulted(m).fault /\ Faulted(m).pc = m.pc
    BY <1>4 DEF Machine
  <1> QED  BY <1>5, <1>6, <1>7 DEF g, p

\* A value of U is a word.
LEMMA SaneIs ==
    ASSUME NEW U \in SUBSET Words, NEW m, Sane(U, m)
    PROVE  /\ m \in Machine /\ m.stack \in [Kinds -> Seq(Nat)]
           /\ m.pc \in Nat /\ m.running \in BOOLEAN /\ m.fault \in BOOLEAN
           /\ m.locals \in Seq(Nat) /\ m.ret \in Words /\ m.retobj \in Nat
           /\ Sane(Words, m)
  <1>1. Seq(U) \subseteq Seq(Words)
    OBVIOUS
  <1> QED  BY <1>1 DEF Sane, Machine

\* Pushing and popping what belongs on a stack keeps it sane.
LEMMA PushIsSane ==
    ASSUME NEW U \in SUBSET Words, NEW m, Sane(U, m), NEW k \in Kinds, NEW v \in Nat,
           k = "i32" => v \in Words, k = "u32" => v \in U
    PROVE  Sane(U, Push(m, k, v))
  <1> DEFINE n == Push(m, k, v)
  <1>1. n \in Machine /\ SameBut(k, m, n) /\ n.stack[k] = Append(m.stack[k], v)
    BY Pushed DEF Sane
  <1> HIDE DEF n
  <1>2. /\ m.stack["i32"] \in Seq(Words) /\ m.stack["u32"] \in Seq(U)
        /\ "i32" \in Kinds /\ "u32" \in Kinds
    BY DEF Sane, Kinds
  <1>3. n.stack["i32"] \in Seq(Words)
    <2>1. \A s \in Seq(Words), x \in Words : Append(s, x) \in Seq(Words)
      OBVIOUS
    <2>2. k = "i32" \/ n.stack["i32"] = m.stack["i32"]
      BY <1>1, <1>2 DEF SameBut
    <2> QED  BY <1>1, <1>2, <2>1, <2>2
  <1>4. n.stack["u32"] \in Seq(U)
    <2>1. \A s \in Seq(U), x \in U : Append(s, x) \in Seq(U)
      OBVIOUS
    <2>2. k = "u32" \/ n.stack["u32"] = m.stack["u32"]
      BY <1>1, <1>2 DEF SameBut
    <2> QED  BY <1>1, <1>2, <2>1, <2>2
  <1> QED  BY <1>1, <1>3, <1>4 DEF Sane, n

LEMMA DropIsSane ==
    ASSUME NEW U \in SUBSET Words, NEW m, Sane(U, m), NEW k \in Kinds
    PROVE  /\ Sane(U, Drop(m, k)) /\ Top(m, k) \in Nat
           /\ k \in {"i32", "u32"} => Top(m, k) \in Words
           /\ k = "u32" => Top(m, k) \in U \cup {0}
  <1> DEFINE n == Drop(m, k)
  <1>1. /\ n \in Machine /\ SameBut(k, m, n) /\ n.stack[k] = Shorter(m.stack[k])
        /\ Top(m, k) = LastOr0(m.stack[k]) /\ Top(m, k) \in Nat
    BY Dropped DEF Sane
  <1> HIDE DEF n
  <1>2. /\ m.stack["i32"] \in Seq(Words) /\ m.stack["u32"] \in Seq(U)
        /\ "i32" \in Kinds /\ "u32" \in Kinds
    BY DEF Sane, Kinds
  <1>3. /\ Shorter(m.stack["i32"]) \in Seq(Words) /\ Shorter(m.stack["u32"]) \in Seq(U)
        /\ LastOr0(m.stack["i32"]) \in Words /\ LastOr0(m.stack["u32"]) \in U \cup {0}
    BY <1>2, ShorterIs, WordsAre DEF LastOr0
  <1>4. n.stack["i32"] \in Seq(Words) /\ n.stack["u32"] \in Seq(U)
    BY <1>1, <1>2, <1>3 DEF SameBut
  <1>5. k \in {"i32", "u32"} => Top(m, k) \in Words
    BY <1>1, <1>3, WordsAre
  <1> QED  BY <1>1, <1>3, <1>4, <1>5 DEF Sane, n

LEMMA StepIsSane ==
    ASSUME NEW U \in SUBSET Words, NEW m, Sane(U, m), NEW target \in Nat
    PROVE  Sane(U, Goto(m, target)) /\ Sane(U, Next1(m)) /\ Sane(U, Faulted(m))
  BY Stepped DEF Sane

\* Two pops.
LEMMA Drop2IsSane ==
    ASSUME NEW U \in SUBSET Words, NEW m, Sane(U, m), NEW k \in Kinds
    PROVE  /\ Sane(U, Drop2(m, k)) /\ Below(m, k) \in Nat
           /\ k \in {"i32", "u32"} => Below(m, k) \in Words
           /\ k = "u32" => Below(m, k) \in U \cup {0}
  BY DropIsSane DEF Drop2, Below

\* Unsigned operations do not leave U.
Closed(U) ==
    /\ 0 \in U
    /\ \A op \in UnsignedOps : \A a, b \in U : Arith[op][<<a, b>>] \in U \cup {Trap}

LEMMA ClosedSets == Closed(Words) /\ Closed({0}) /\ {0} \in SUBSET Words
  <1>1. 0 \in Words
    BY WordsAre
  <1>2. \A op \in UnsignedOps : Arith[op] \in [Words \X Words -> Words \cup {Trap}]
    BY MachineAssumption DEF MachineAssumption
  <1>3. Closed(Words)
    BY <1>1, <1>2 DEF Closed
  <1>4. \A op \in UnsignedOps : Arith[op][<<0, 0>>] \in {0, Trap}
    BY MachineAssumption DEF MachineAssumption
  <1>5. Closed({0})
    BY <1>4 DEF Closed
  <1> QED  BY <1>1, <1>3, <1>5

\* The composed instructions.
LEMMA ComputedIsSane ==
    ASSUME NEW U \in SUBSET Words, NEW m, Sane(U, m)
    PROVE  /\ \A op \in BinaryOps : Sane(U, Computed(m, "i32", op))
           /\ Closed(U) => \A op \in UnsignedOps : Sane(U, Computed(m, "u32", op))
           /\ \A op \in UnaryOps : Sane(U, ComputedUnary(m, op))
  <1>1. "i32" \in Kinds /\ "u32" \in Kinds /\ Words \subseteq Nat /\ 0 \in Words
    BY WordsAre DEF Kinds
  <1>2. Sane(U, Faulted(m))
    BY <1>1, StepIsSane
  <1>3. ASSUME NEW op \in BinaryOps
        PROVE  Sane(U, Computed(m, "i32", op))
    <2> DEFINE r == Arith[op][<<Below(m, "i32"), Top(m, "i32")>>]
    <2>1. Below(m, "i32") \in Words /\ Top(m, "i32") \in Words /\ Sane(U, Drop2(m, "i32"))
      BY <1>1, Drop2IsSane, DropIsSane
    <2>2. Arith[op] \in [Words \X Words -> Words \cup {Trap}]
      BY MachineAssumption DEF MachineAssumption
    <2>3. r \in Words \cup {Trap}
      BY <2>1, <2>2
    <2> HIDE DEF r
    <2>4. r # Trap => Sane(U, Push(Drop2(m, "i32"), "i32", r))
      BY <1>1, <2>1, <2>3, PushIsSane
    <2> QED  BY <1>2, <2>4 DEF Computed, r
  <1>4. ASSUME Closed(U), NEW op \in UnsignedOps
        PROVE  Sane(U, Computed(m, "u32", op))
    <2> DEFINE r == Arith[op][<<Below(m, "u32"), Top(m, "u32")>>]
    <2>1. Below(m, "u32") \in U /\ Top(m, "u32") \in U /\ Sane(U, Drop2(m, "u32"))
      BY <1>1, <1>4, Drop2IsSane, DropIsSane DEF Closed
    <2>2. r \in U \cup {Trap}
      BY <1>4, <2>1 DEF Closed
    <2> HIDE DEF r
    <2>3. r # Trap => Sane(U, Push(Drop2(m, "u32"), "u32", r))
      BY <1>1, <2>1, <2>2, PushIsSane
    <2> QED  BY <1>2, <2>3 DEF Computed, r
  <1>5. ASSUME NEW op \in UnaryOps
        PROVE  Sane(U, ComputedUnary(m, op))
    <2> DEFINE r == Arith[op][<<Top(m, "i32"), 0>>]
    <2>1. Top(m, "i32") \in Words /\ Sane(U, Drop(m, "i32"))
      BY <1>1, DropIsSane
    <2>2. Arith[op] \in [Words \X Words -> Words]
      BY MachineAssumption DEF MachineAssumption
    <2>3. r \in Words
      BY <1>1, <2>1, <2>2
    <2> HIDE DEF r
    <2>4. Sane(U, Push(Drop(m, "i32"), "i32", r))
      BY <1>1, <2>1, <2>3, PushIsSane
    <2> QED  BY <2>4 DEF ComputedUnary, r
  <1> QED  BY <1>3, <1>4, <1>5

LEMMA BranchIsSane ==
    ASSUME NEW U \in SUBSET Words, NEW m, Sane(U, m), NEW target \in Nat
    PROVE  /\ \A k \in Kinds : \A rel : Sane(U, BranchIf(m, k, rel, target))
           /\ \A awaited : Sane(U, BranchOnTop(m, awaited, target))
  <1>1. ASSUME NEW k \in Kinds, NEW rel
        PROVE  Sane(U, BranchIf(m, k, rel, target))
    BY Drop2IsSane, StepIsSane DEF BranchIf
  <1>2. "i32" \in Kinds
    BY DEF Kinds
  <1>3. Sane(U, Drop(m, "i32")) /\ Sane(U, Goto(Drop(m, "i32"), target))
    BY <1>2, DropIsSane, StepIsSane
  <1>4. ASSUME NEW awaited
        PROVE  Sane(U, BranchOnTop(m, awaited, target))
    BY <1>3 DEF BranchOnTop
  <1> QED  BY <1>1, <1>4

LEMMA LoadIsSane ==
    ASSUME NEW U \in SUBSET Words, NEW m, Sane(U, m), NEW offset \in Nat
    PROVE  Sane(U, LoadField(m, offset))
  <1>1. "obj" \in Kinds
    BY DEF Kinds
  <1>2. Sane(U, Drop(m, "obj")) /\ Top(m, "obj") + offset \in Nat
    BY <1>1, DropIsSane
  <1>3. Sane(U, Push(Drop(m, "obj"), "obj", Top(m, "obj") + offset))
    BY <1>1, <1>2, PushIsSane
  <1> QED  BY <1>2, <1>3 DEF LoadField

-------------------------------------------------------------------------------
(* The classic switch *)

LocalOps == DOMAIN ShortLoad \cup DOMAIN ShortStore
                \cup {"LDloc_S", "LDloc", "STloc_S", "STloc"}

Listed ==
    DOMAIN ShortConstant \cup LocalOps \cup BinaryOps \cup UnsignedOps \cup UnaryOps
        \cup DOMAIN SignedBranch \cup DOMAIN UnsignedBranch \cup ArrayOps
        \cup {"Ldc_I4", "Ldc_I4_S", "Ldc_R4", "Ldc_R8", "Dup", "Pop", "Box", "Stsfld",
              "Br", "Br_S", "Brfalse", "Brfalse_S", "Brtrue", "Brtrue_S", "Ret",
              "LDnull", "Ldsfld", "Newobj", "Ldfld", "Stfld", "Throw"}

\* What one round of the switch makes of m, by the instruction.
ClassicArm(m, b, ins, peek, n) ==
    \/ ins.op \in DOMAIN ShortConstant /\ n = Push(m, "i32", ShortConstant[ins.op] % WordMod)
    \/ ins.op \in {"Ldc_I4", "Ldc_I4_S"} /\ n = Push(m, "i32", ins.arg)
    \/ ins.op = "Ldc_R4" /\ n = Push(m, "f32", ins.arg)
    \/ ins.op = "Ldc_R8" /\ n = Push(m, "f64", DoubleOperand(m, b))
    \/ ins.op \in LocalOps /\ n = LocalAccess(m, ins)
    \/ ins.op = "Dup" /\ n = DupIntFirst(m)
    \/ ins.op \in {"Pop", "Box", "Stsfld"} /\ n = Drop(m, "obj")
    \/ ins.op \in BinaryOps /\ n = Computed(m, "i32", ins.op)
    \/ ins.op \in UnsignedOps /\ n = Computed(m, "u32", ins.op)
    \/ ins.op \in UnaryOps /\ n = ComputedUnary(m, ins.op)
    \/ ins.op \in {"Br", "Br_S"} /\ n = Goto(m, ins.arg)
    \/ ins.op \in {"Brfalse", "Brfalse_S"} /\ n = BranchOnTop(m, "zero", ins.arg)
    \/ ins.op \in {"Brtrue", "Brtrue_S"} /\ n = BranchOnTop(m, "nonzero", ins.arg)
    \/ ins.op \in DOMAIN SignedBranch /\ n = BranchIf(m, "i32", SignedBranch[ins.op], ins.arg)
    \/ ins.op \in DOMAIN UnsignedBranch /\ n = BranchIf(m, "u32", UnsignedBranch[ins.op], ins.arg)
    \/ ins.op = "Ret" /\ n = Returned(m)
    \/ ins.op \in {"LDnull", "Ldsfld", "Newobj"} /\ n = Push(m, "obj", 0)
    \/ ins.op \in ArrayOps /\ n = ArrayInstruction(m, ins.op, peek)
    \/ ins.op = "Ldfld" /\ n = LoadField(m, ins.arg)
    \/ ins.op = "Stfld" /\ n = Drop2(m, "obj")
    \/ ins.op = "Throw" /\ n = [Drop(m, "obj") EXCEPT !.running = FALSE]
    \/ ins.op \notin Listed /\ n = m

LEMMA ClassicArms ==
    ASSUME NEW m, NEW b, NEW ins, NEW peek
    PROVE  ClassicArm(m, b, ins, peek, ExecuteInstruction(m, b, ins, peek))
  <1>1. Loads(ins.op) \/ Stores(ins.op) <=> ins.op \in LocalOps
    BY DEF Loads, Stores, LocalOps
  <1> QED  BY <1>1 DEF ClassicArm, ExecuteInstruction, Listed

Instr == [op : DOMAIN OpCode, arg : Words]

\* Locals are counted from 1.
LEMMA LocalsAreCounted ==
    ASSUME NEW ins, ins.arg \in Nat
    PROVE  LocalOf(ins) \in Nat \ {0}
  BY DEF LocalOf, ShortLoad, ShortStore

\* What a store leaves.
Stored(m, i) == [Drop(m, "obj") EXCEPT !.locals[i] = Top(m, "obj")]

\* A store changes one local and pops one object.
LEMMA StoreIs ==
    ASSUME NEW m \in Machine, NEW i \in 1 .. Len(m.locals)
    PROVE  LET n == Stored(m, i)
           IN  /\ n \in Machine /\ n.pc = m.pc /\ n.running = m.running /\ n.fault = m.fault
               /\ n.ret = m.ret /\ n.retobj = m.retobj /\ n.stack = Drop(m, "obj").stack
               /\ n.locals = [m.locals EXCEPT ![i] = Top(m, "obj")]
  <1> DEFINE d == Drop(m, "obj")
             v == Top(m, "obj")
             ls == [m.locals EXCEPT ![i] = v]
  <1>1. "obj" \in Kinds
    BY DEF Kinds
  <1>2. d \in Machine /\ SameBut("obj", m, d) /\ v \in Nat
    BY <1>1, Dropped
  <1> HIDE DEF d, v
  <1>3. m.locals \in Seq(Nat)
    BY DEF Machine
  <1>4. ls \in Seq(Nat)
    BY <1>2, <1>3
  <1>5. Stored(m, i) = [d EXCEPT !.locals = ls]
    BY <1>2 DEF Stored, SameBut, d, v
  <1> HIDE DEF ls
  <1> QED  BY <1>2, <1>4, <1>5 DEF Machine, SameBut, ls, v, d

LEMMA LocalIsSane ==
    ASSUME NEW U \in SUBSET Words, NEW m, Sane(U, m), NEW ins, ins.arg \in Nat
    PROVE  Sane(U, LocalAccess(m, ins))
  <1> DEFINE i == LocalOf(ins)
  <1>1. i \in Nat \ {0} /\ m \in Machine /\ m.locals \in Seq(Nat) /\ "obj" \in Kinds
    BY LocalsAreCounted, SaneIs DEF Kinds
  <1> HIDE DEF i
  <1>2. ASSUME i <= Len(m.locals)
        PROVE  Sane(U, Push(m, "obj", m.locals[i])) /\ Sane(U, Stored(m, i))
    <2>1. i \in 1 .. Len(m.locals)
      BY <1>1, <1>2
    <2>2. Sane(U, Push(m, "obj", m.locals[i]))
      BY <1>1, <2>1, PushIsSane
    <2>3. Stored(m, i) \in Machine /\ Stored(m, i).stack = Drop(m, "obj").stack
      BY <1>1, <2>1, StoreIs
    <2>4. Sane(U, Drop(m, "obj"))
      BY <1>1, DropIsSane
    <2> QED  BY <2>2, <2>3, <2>4 DEF Sane
  <1>3. i > Len(m.locals) \/ i <= Len(m.locals)
    BY <1>1
  <1> QED  BY <1>2, <1>3 DEF LocalAccess, Stored, i

LEMMA DupIsSane ==
    ASSUME NEW U \in SUBSET Words, NEW m, Sane(U, m)
    PROVE  Sane(U, DupIntFirst(m)) /\ Sane(U, ExecDup(m)) /\ Sane(U, HandleDup(m))
  <1>1. /\ "i32" \in Kinds /\ "obj" \in Kinds
        /\ Top(m, "i32") \in Words /\ Top(m, "i32") \in Nat /\ Top(m, "obj") \in Nat
        /\ Sane(U, Drop(m, "obj"))
    BY DropIsSane DEF Kinds
  <1>2. Sane(U, Push(m, "i32", Top(m, "i32"))) /\ Sane(U, Push(m, "obj", Top(m, "obj")))
    BY <1>1, PushIsSane
  <1>3. Sane(U, Push(Drop(m, "obj"), "obj", Top(m, "obj")))
    BY <1>1, PushIsSane
  <1>4. Sane(U, Push(Push(Drop(m, "obj"), "obj", Top(m, "obj")), "obj", Top(m, "obj")))
    BY <1>1, <1>3, PushIsSane
  <1> QED  BY <1>2, <1>4 DEF DupIntFirst, ExecDup, HandleDup

\* Stopping, with or without a result.
LEMMA StopIsSane ==
    ASSUME NEW U \in SUBSET Words, NEW m, Sane(U, m), NEW v \in Words, NEW o \in Nat
    PROVE  /\ Sane(U, [m EXCEPT !.running = FALSE])
           /\ Sane(U, [m EXCEPT !.ret = v, !.running = FALSE])
           /\ Sane(U, [m EXCEPT !.retobj = o, !.running = FALSE])
  BY DEF Sane, Machine

LEMMA ReturnIsSane ==
    ASSUME NEW U \in SUBSET Words, NEW m, Sane(U, m)
    PROVE  /\ Sane(U, Returned(m)) /\ Sane(U, ExecRet(m)) /\ Sane(U, HandleRet(m))
           /\ Sane(U, [Drop(m, "obj") EXCEPT !.running = FALSE])
  <1>1. /\ "i32" \in Kinds /\ "obj" \in Kinds
        /\ Top(m, "i32") \in Words /\ Top(m, "obj") \in Nat
        /\ Sane(U, Drop(m, "i32")) /\ Sane(U, Drop(m, "obj")) /\ m \in Machine
    BY DropIsSane, SaneIs DEF Kinds
  <1>2. 0 \in Words /\ 0 \in Nat
    BY WordsAre
  <1>3. /\ Sane(U, [Drop(m, "obj") EXCEPT !.running = FALSE])
        /\ Sane(U, [m EXCEPT !.running = FALSE])
    BY <1>1, <1>2, StopIsSane
  <1>4. /\ Sane(U, [Drop(m, "i32") EXCEPT !.ret = Top(m, "i32"), !.running = FALSE])
        /\ Sane(U, [Drop(m, "obj") EXCEPT !.retobj = Top(m, "obj"), !.running = FALSE])
    BY <1>1, <1>2, StopIsSane
  <1>5. Sane(U, Returned(m))
    <2> DEFINE d == Drop(m, "i32")
    <2>1. Sane(U, d) /\ d.ret \in Words
      BY <1>1, SaneIs
    <2> HIDE DEF d
    <2>2. Sane(U, [d EXCEPT !.ret = d.ret, !.running = FALSE])
      BY <1>2, <2>1, StopIsSane
    <2>3. Returned(m) = [d EXCEPT !.ret = IF m.stack["i32"] = <<>> THEN d.ret ELSE Top(m, "i32"),
                                  !.running = FALSE]
      BY DEF Returned, d
    <2>4. CASE m.stack["i32"] = <<>>
      BY <2>2, <2>3, <2>4
    <2>5. CASE m.stack["i32"] # <<>>
      BY <1>4, <2>3, <2>5 DEF d
    <2> QED  BY <2>4, <2>5
  <1> QED  BY <1>3, <1>4, <1>5 DEF ExecRet, HandleRet

\* Array instructions; only Ldlen pushes an unsigned value.
LEMMA ArrayIsSane ==
    ASSUME NEW U \in SUBSET Words, NEW m, Sane(U, m), NEW op \in ArrayOps, NEW peek \in Words,
           op = "Ldlen" => peek \in U
    PROVE  Sane(U, ArrayInstruction(m, op, peek))
  <1>1. /\ "i32" \in Kinds /\ "u32" \in Kinds /\ "obj" \in Kinds
        /\ peek \in Nat /\ NewAddress \in Nat
    BY WordsAre, MachineAssumption DEF MachineAssumption, Kinds
  <1>2. /\ Sane(U, Faulted(m)) /\ Sane(U, Drop(m, "u32")) /\ Sane(U, Drop(m, "obj"))
        /\ Sane(U, Drop(Drop(m, "u32"), "obj"))
        /\ Sane(U, Drop(Drop(Drop(m, "i32"), "u32"), "obj"))
    BY <1>1, StepIsSane, DropIsSane
  <1>3. /\ Sane(U, Push(Drop(m, "u32"), "obj", NewAddress))
        /\ Sane(U, Push(Drop(Drop(m, "u32"), "obj"), "i32", peek))
    BY <1>1, <1>2, PushIsSane
  <1>4. op = "Ldlen" => Sane(U, Push(Drop(m, "obj"), "u32", peek))
    BY <1>1, <1>2, PushIsSane
  <1> QED  BY <1>2, <1>3, <1>4 DEF ArrayInstruction, ArrayOps

\* The constants of the short instructions.
LEMMA ConstantsAreWords ==
    \A op \in DOMAIN ShortConstant :
        ShortConstant[op] \in Nat /\ (ShortConstant[op] % WordMod) \in Words
  <1>1. WordMod - 1 \in Nat
    BY MachineAssumption DEF MachineAssumption
  <1>2. \A op \in DOMAIN ShortConstant : ShortConstant[op] \in Nat
    BY <1>1 DEF ShortConstant
  <1> QED  BY <1>2, WordsAre

\* A double is a number.
LEMMA DoublesAre ==
    ASSUME NEW b, b.code \in Seq(Instr), NEW m \in Machine, m.pc < Len(b.code)
    PROVE  /\ b.code[m.pc + 1] \in Instr /\ b.code[m.pc + 1].arg \in Words
           /\ b.code[m.pc + 1].op \in DOMAIN OpCode
           /\ DoubleOperand(m, b) \in Nat
  <1>1. m.pc \in Nat /\ Len(b.code) \in Nat /\ WordMod \in Nat /\ Words \subseteq Nat
    <2>1. WordMod \in Nat
      BY MachineAssumption DEF MachineAssumption
    <2>2. m.pc \in Nat
      BY DEF Machine
    <2> QED  BY <2>1, <2>2, WordsAre
  <1>2. \A i \in 1 .. Len(b.code) : b.code[i] \in Instr
    OBVIOUS
  <1>3. \A i \in 1 .. Len(b.code) : b.code[i].arg \in Words /\ b.code[i].op \in DOMAIN OpCode
    BY <1>2 DEF Instr
  <1>4. m.pc + 1 \in 1 .. Len(b.code) /\ (m.pc + 2 <= Len(b.code) => m.pc + 2 \in 1 .. Len(b.code))
    BY <1>1
  <1> DEFINE high == IF m.pc + 2 <= Len(b.code) THEN b.code[m.pc + 2].arg ELSE 0
             low  == b.code[m.pc + 1].arg
  <1>5. high \in Nat /\ low \in Nat
    BY <1>1, <1>3, <1>4
  <1>6. DoubleOperand(m, b) = high * WordMod + low
    BY DEF DoubleOperand
  <1> HIDE DEF high, low
  <1>7. high * WordMod + low \in Nat
    <2>1. \A x, y, z \in Nat : x * y + z \in Nat
      OBVIOUS
    <2> QED  BY <1>1, <1>5, <2>1, Zenon
  <1> QED  BY <1>2, <1>3, <1>4, <1>6, <1>7

\* One round of the classic switch.
LEMMA ClassicIsSane ==
    ASSUME NEW U \in SUBSET Words, Closed(U), NEW m, Sane(U, m), NEW b,
           b.code \in Seq(Instr), m.pc < Len(b.code),
           NEW ins, ins = b.code[m.pc + 1], NEW peek \in Words, ins.op = "Ldlen" => peek \in U
    PROVE  Sane(U, ExecuteInstruction(m, b, ins, peek))
  <1> DEFINE n == ExecuteInstruction(m, b, ins, peek)
  <1>1. ClassicArm(m, b, ins, peek, n)
    BY ClassicArms
  <1>2. /\ ins.arg \in Words /\ ins.arg \in Nat /\ DoubleOperand(m, b) \in Nat /\ 0 \in Nat
        /\ Kinds = {"i32", "u32", "f32", "f64", "obj"}
    BY DoublesAre, WordsAre DEF Sane, Kinds
  <1> HIDE DEF n
  <1>3. /\ \A op \in DOMAIN ShortConstant : Sane(U, Push(m, "i32", ShortConstant[op] % WordMod))
        /\ Sane(U, Push(m, "i32", ins.arg)) /\ Sane(U, Push(m, "f32", ins.arg))
        /\ Sane(U, Push(m, "f64", DoubleOperand(m, b))) /\ Sane(U, Push(m, "obj", 0))
    BY <1>2, PushIsSane, ConstantsAreWords, WordsAre
  <1>4. /\ Sane(U, LocalAccess(m, ins)) /\ Sane(U, DupIntFirst(m)) /\ Sane(U, Returned(m))
        /\ Sane(U, [Drop(m, "obj") EXCEPT !.running = FALSE])
    BY <1>2, LocalIsSane, DupIsSane, ReturnIsSane
  <1>5. Sane(U, Drop(m, "obj")) /\ Sane(U, Drop2(m, "obj"))
    BY <1>2, DropIsSane, Drop2IsSane
  <1>6. /\ Sane(U, Goto(m, ins.arg)) /\ Sane(U, LoadField(m, ins.arg))
        /\ \A k \in {"i32", "u32"} : \A rel : Sane(U, BranchIf(m, k, rel, ins.arg))
        /\ \A awaited : Sane(U, BranchOnTop(m, awaited, ins.arg))
    BY <1>2, StepIsSane, LoadIsSane, BranchIsSane
  <1>7. ins.op \in ArrayOps => Sane(U, ArrayInstruction(m, ins.op, peek))
    BY ArrayIsSane
  <1>8. /\ ins.op \in BinaryOps => Sane(U, Computed(m, "i32", ins.op))
        /\ ins.op \in UnsignedOps => Sane(U, Computed(m, "u32", ins.op))
        /\ ins.op \in UnaryOps => Sane(U, ComputedUnary(m, ins.op))
    BY ComputedIsSane
  <1>9. Sane(U, n)
    BY <1>1, <1>3, <1>4, <1>5, <1>6, <1>7, <1>8 DEF ClassicArm
  <1> QED  BY <1>9 DEF n

-------------------------------------------------------------------------------
(* The two tables *)

\* The handlers that ThreadedInterpreter and HighPerformanceInterpreter have.
Handlers ==
    OwnSlot \cup DOMAIN Relation
        \cup {"Ldc_I4", "Isinst", "Castclass", "Ldelem", "Stelem", "Nop"}

LEMMA SlotsAreBytes == \A op \in DOMAIN OpCode : OpCode[op] \in Nat /\ LowByte(op) \in 0 .. 255
  <1>1. \A op \in DOMAIN OpCode : OpCode[op] \in Nat
    BY DEF OpCode
  <1> QED  BY <1>1 DEF LowByte

LEMMA HandlersAre ==
    ASSUME NEW op \in DOMAIN OpCode
    PROVE  /\ DispatchTable[LowByte(op)] \in Registered
           /\ HandlerTable[LowByte(op)] \in Handlers
  <1>1. LowByte(op) \in 0 .. 255
    BY SlotsAreBytes
  <1>2. "Nop" \in Registered
    BY DEF Registered
  <1>3. DispatchTable[LowByte(op)] \in Registered
    BY <1>1, <1>2 DEF DispatchTable
  <1>4. /\ {"Br", "Brfalse", "Brtrue", "Call"} \subseteq OwnSlot
        /\ {"Bge", "Bgt", "Ble", "Blt"} \subseteq DOMAIN Relation
    BY DEF OwnSlot, Relation
  <1>5. HandlerTable[LowByte(op)] \in Handlers
    BY <1>1, <1>4 DEF HandlerTable, Handlers
  <1> QED  BY <1>3, <1>5

\* What the handler in a slot of the threaded table makes of m.
ThreadedArm(m, ins, h, peek, n) ==
    \/ h = "Ldc_I4" /\ n = Push(m, "i32", ins.arg)
    \/ h = "Ldc_R4" /\ n = Push(m, "f32", ins.arg)
    \/ h = "Dup" /\ n = ExecDup(m)
    \/ h \in {"Pop", "Stsfld"} /\ n = Drop(m, "obj")
    \/ h \in BinaryOps /\ n = Computed(m, "i32", h)
    \/ h \in UnaryOps /\ n = ComputedUnary(m, h)
    \/ h = "Br" /\ n = Goto(m, ins.arg)
    \/ h = "Brfalse" /\ n = BranchOnTop(m, "zero", ins.arg)
    \/ h = "Brtrue" /\ n = BranchOnTop(m, "nonzero", ins.arg)
    \/ h = "Ret" /\ n = ExecRet(m)
    \/ h = "Newarr" /\ n = Push(Drop(m, "u32"), "obj", NewAddress)
    \/ h = "Ldlen" /\ n = ExecLdlen(m, peek)
    \/ h = "Ldfld" /\ n = LoadField(m, ins.arg)
    \/ h = "Stfld" /\ n = Drop2(m, "obj")
    \/ h \in {"Ldsfld", "Newobj"} /\ n = Push(m, "obj", 0)
    \/ h = "Throw" /\ n = [m EXCEPT !.running = FALSE]
    \/ h \in {"Nop", "Call", "Box", "Castclass", "Isinst"} /\ n = m

\* The arm that runs is that of the handler h.
LEMMA ArmOfHandler ==
    ASSUME NEW m, NEW ins, NEW h \in Registered, NEW peek
    PROVE  ThreadedArm(m, ins, h, peek, Exec(m, ins, h, peek))
  <1>1. \/ h \in BinaryOps \cup UnaryOps
        \/ h \in {"Ldc_I4", "Ldc_R4", "Dup", "Pop", "Br", "Brfalse", "Brtrue", "Call", "Ret"}
        \/ h \in {"Box", "Newarr", "Ldlen", "Ldfld", "Stfld", "Ldsfld", "Stsfld", "Newobj"}
        \/ h \in {"Nop", "Castclass", "Isinst", "Throw"}
    BY DEF Registered
  <1> QED  BY <1>1 DEF ThreadedArm, ExecBr, Exec

LEMMA ThreadedArms ==
    ASSUME NEW m, NEW ins, ins.op \in DOMAIN OpCode, NEW peek
    PROVE  ThreadedArm(m, ins, DispatchTable[LowByte(ins.op)], peek, Dispatch(m, ins, peek))
  BY HandlersAre, ArmOfHandler DEF Dispatch

\* What the handler in a slot of the high-performance table makes of m.
HPArm(m, b, ins, h, peek, n) ==
    \/ h = "Ldc_I4" /\ n = Push(m, "i32", ins.arg)
    \/ h = "Ldc_R4" /\ n = Push(m, "f32", ins.arg)
    \/ h = "Ldc_R8" /\ n = Push(m, "f64", DoubleOperand(m, b))
    \/ h = "Dup" /\ n = HandleDup(m)
    \/ h = "Pop" /\ n = HandlePop(m)
    \/ h \in BinaryOps /\ n = Computed(m, "i32", h)
    \/ h \in UnaryOps /\ n = ComputedUnary(m, h)
    \/ h = "Br" /\ n = Goto(m, ins.arg)
    \/ h = "Brfalse" /\ n = BranchOnTop(m, "zero", ins.arg)
    \/ h = "Brtrue" /\ n = BranchOnTop(m, "nonzero", ins.arg)
    \/ h \in DOMAIN Relation /\ n = BranchIf(m, "i32", Relation[h], ins.arg)
    \/ h = "Call" /\ n = Next1(m)
    \/ h = "Ret" /\ n = HandleRet(m)
    \/ h \in {"Box", "Newarr"} /\ n = Push(Drop(m, "i32"), "obj", NewAddress)
    \/ h \in {"Ldlen", "Ldelem", "Stelem"} /\ n = HandleArray(m, h, peek)
    \/ h = "Ldfld" /\ n = LoadField(m, ins.arg)
    \/ h = "Stfld" /\ n = Drop2(m, "obj")
    \/ h = "Ldsfld" /\ n = Push(m, "obj", 0)
    \/ h = "Stsfld" /\ n = Drop(m, "obj")
    \/ h = "Newobj" /\ n = Push(m, "obj", NewAddress)
    \/ h = "Throw" /\ n = [Drop(m, "obj") EXCEPT !.running = FALSE]
    \/ h \in {"Nop", "Castclass", "Isinst"} /\ n = m

LEMMA HPArms ==
    ASSUME NEW m, NEW b, NEW ins, NEW h \in Handlers, NEW peek
    PROVE  HPArm(m, b, ins, h, peek, Handle(m, b, ins, h, peek))
  <1>1. DOMAIN Relation = {"Beq", "Bge", "Bgt", "Ble", "Blt"}
    BY DEF Relation
  <1>2. \/ h \in BinaryOps \cup UnaryOps \cup DOMAIN Relation
        \/ h \in {"Ldc_I4", "Ldc_R4", "Ldc_R8", "Dup", "Pop", "Br", "Brfalse", "Brtrue", "Call"}
        \/ h \in {"Ret", "Box", "Newarr", "Ldlen", "Ldelem", "Stelem", "Ldfld", "Stfld"}
        \/ h \in {"Ldsfld", "Stsfld", "Newobj", "Throw", "Nop", "Castclass", "Isinst"}
    BY <1>1 DEF Handlers, OwnSlot, UnaryOps
  <1> QED  BY <1>2 DEF HPArm, Handle

-------------------------------------------------------------------------------
(* What a step keeps *)

LEMMA ThreadedIsSane ==
    ASSUME NEW U \in SUBSET Words, NEW m, Sane(U, m), NEW ins \in Instr,
           NEW peek \in Words, peek \in U
    PROVE  Sane(U, Dispatch(m, ins, peek))
  <1> DEFINE n == Dispatch(m, ins, peek)
             h == DispatchTable[LowByte(ins.op)]
  <1>1. ThreadedArm(m, ins, h, peek, n)
    BY ThreadedArms DEF Instr
  <1>2. /\ ins.arg \in Words /\ ins.arg \in Nat /\ 0 \in Nat /\ NewAddress \in Nat
        /\ Kinds = {"i32", "u32", "f32", "f64", "obj"} /\ peek \in Nat
    BY WordsAre, MachineAssumption DEF MachineAssumption, Instr, Kinds
  <1> HIDE DEF n, h
  <1>3. /\ Sane(U, Push(m, "i32", ins.arg)) /\ Sane(U, Push(m, "f32", ins.arg))
        /\ Sane(U, Push(m, "obj", 0))
    BY <1>2, PushIsSane
  <1>4. Sane(U, ExecDup(m)) /\ Sane(U, ExecRet(m))
    BY DupIsSane, ReturnIsSane
  <1>5. Sane(U, Drop(m, "obj")) /\ Sane(U, Drop2(m, "obj")) /\ Sane(U, Drop(m, "u32"))
    BY <1>2, DropIsSane, Drop2IsSane
  <1>6. /\ Sane(U, Goto(m, ins.arg)) /\ Sane(U, LoadField(m, ins.arg)) /\ Sane(U, Faulted(m))
        /\ \A awaited : Sane(U, BranchOnTop(m, awaited, ins.arg))
    BY <1>2, StepIsSane, LoadIsSane, BranchIsSane
  <1>7. /\ Sane(U, Push(Drop(m, "u32"), "obj", NewAddress))
        /\ Sane(U, Push(Drop(m, "obj"), "u32", peek))
    BY <1>2, <1>5, PushIsSane
  <1>8. /\ h \in BinaryOps => Sane(U, Computed(m, "i32", h))
        /\ h \in UnaryOps => Sane(U, ComputedUnary(m, h))
    BY ComputedIsSane
  <1>9. Sane(U, [m EXCEPT !.running = FALSE])
    <2>1. 0 \in Words /\ 0 \in Nat
      BY WordsAre
    <2> QED  BY <2>1, StopIsSane
  <1>10. Sane(U, ExecLdlen(m, peek))
    BY <1>6, <1>7 DEF ExecLdlen
  <1>11. Sane(U, n)
    BY <1>1, <1>3, <1>4, <1>5, <1>6, <1>7, <1>8, <1>9, <1>10 DEF ThreadedArm
  <1> QED  BY <1>11 DEF n

\* The high-performance interpreter never touches an unsigned stack.
LEMMA HPIsSane ==
    ASSUME NEW U \in SUBSET Words, NEW m, Sane(U, m), NEW b,
           b.code \in Seq(Instr), m.pc < Len(b.code),
           NEW ins, ins = b.code[m.pc + 1], NEW h \in Handlers, NEW peek \in Words
    PROVE  Sane(U, Handle(m, b, ins, h, peek))
  <1> DEFINE n == Handle(m, b, ins, h, peek)
  <1>1. HPArm(m, b, ins, h, peek, n)
    BY HPArms
  <1>2. /\ ins.arg \in Words /\ ins.arg \in Nat /\ DoubleOperand(m, b) \in Nat /\ 0 \in Nat
        /\ Kinds = {"i32", "u32", "f32", "f64", "obj"} /\ peek \in Nat
    BY DoublesAre, WordsAre DEF Sane, Kinds
  <1>3. NewAddress \in Nat
    BY MachineAssumption DEF MachineAssumption
  <1> HIDE DEF n
  <1>4. /\ Sane(U, Push(m, "i32", ins.arg)) /\ Sane(U, Push(m, "f32", ins.arg))
        /\ Sane(U, Push(m, "f64", DoubleOperand(m, b))) /\ Sane(U, Push(m, "obj", 0))
        /\ Sane(U, Push(m, "obj", NewAddress))
    BY <1>2, <1>3, PushIsSane
  <1>5. /\ Sane(U, HandleDup(m)) /\ Sane(U, HandleRet(m))
        /\ Sane(U, [Drop(m, "obj") EXCEPT !.running = FALSE])
    BY DupIsSane, ReturnIsSane
  <1>6. /\ Sane(U, Drop(m, "obj")) /\ Sane(U, Drop2(m, "obj")) /\ Sane(U, Drop(m, "i32"))
        /\ Sane(U, Drop2(m, "i32"))
    BY <1>2, DropIsSane, Drop2IsSane
  <1>7. /\ Sane(U, Goto(m, ins.arg)) /\ Sane(U, LoadField(m, ins.arg)) /\ Sane(U, Faulted(m))
        /\ Sane(U, Next1(m))
        /\ \A rel : Sane(U, BranchIf(m, "i32", rel, ins.arg))
        /\ \A awaited : Sane(U, BranchOnTop(m, awaited, ins.arg))
    BY <1>2, StepIsSane, LoadIsSane, BranchIsSane
  <1>8. /\ h \in BinaryOps => Sane(U, Computed(m, "i32", h))
        /\ h \in UnaryOps => Sane(U, ComputedUnary(m, h))
    BY ComputedIsSane
  <1>9. Sane(U, Push(Drop(m, "i32"), "obj", NewAddress))
    BY <1>2, <1>3, <1>6, PushIsSane
  <1>10. h \in {"Ldlen", "Ldelem", "Stelem"} => Sane(U, HandleArray(m, h, peek))
    <2>1. /\ Sane(U, Push(Drop(m, "obj"), "i32", peek))
          /\ Sane(U, Drop(Drop(m, "i32"), "obj")) /\ Sane(U, Drop(Drop2(m, "i32"), "obj"))
      BY <1>2, <1>6, PushIsSane, DropIsSane
    <2>2. Sane(U, Push(Drop(Drop(m, "i32"), "obj"), "i32", peek))
      BY <1>2, <2>1, PushIsSane
    <2> QED  BY <1>7, <2>1, <2>2 DEF HandleArray
  <1>11. Sane(U, HandlePop(m))
    BY <1>6 DEF HandlePop
  <1>12. Sane(U, n)
    BY <1>1, <1>4, <1>5, <1>6, <1>7, <1>8, <1>9, <1>10, <1>11 DEF HPArm
  <1> QED  BY <1>12 DEF n

\* One round of each loop.
LEMMA LoopsAreSane ==
    ASSUME NEW U \in SUBSET Words, NEW m, Sane(U, m), NEW b, b.code \in Seq(Instr),
           NEW peek \in Words
    PROVE  /\ Closed(U) /\ (InLoop(m, b) /\ b.code[m.pc + 1].op = "Ldlen" => peek \in U)
                => Sane(U, InterpreterStep(m, b, peek))
           /\ peek \in U => Sane(U, ThreadedStep(m, b, peek))
           /\ Sane(U, HPStep(m, b, peek))
  <1> DEFINE ins == b.code[m.pc + 1]
             h == HandlerTable[LowByte(ins.op)]
  <1>1. CASE ~InLoop(m, b)
    BY <1>1 DEF InterpreterStep, ThreadedStep, HPStep
  <1>2. CASE InLoop(m, b)
    <2>1. m.pc < Len(b.code) /\ m \in Machine
      BY <1>2 DEF InLoop, Sane
    <2>2. ins \in Instr /\ ins.op \in DOMAIN OpCode
      BY <2>1, DoublesAre
    <2>3. h \in Handlers
      BY <2>2, HandlersAre
    <2>4. \A n : Sane(U, n) => Sane(U, Next1(n)) /\ Sane(U, Faulted(n))
      <3>1. 0 \in Nat
        OBVIOUS
      <3> QED  BY <3>1, StepIsSane
    <2>5. ASSUME Closed(U), ins.op = "Ldlen" => peek \in U
          PROVE  Sane(U, InterpreterStep(m, b, peek))
      <3>1. Sane(U, ExecuteInstruction(m, b, ins, peek))
        BY <2>1, <2>5, ClassicIsSane
      <3> QED  BY <2>4, <3>1 DEF InterpreterStep
    <2>6. ASSUME peek \in U
          PROVE  Sane(U, ThreadedStep(m, b, peek))
      <3>1. Sane(U, Dispatch(m, ins, peek))
        BY <2>2, <2>6, ThreadedIsSane
      <3> QED  BY <2>4, <3>1 DEF ThreadedStep
    <2>7. Sane(U, HPStep(m, b, peek))
      <3>1. Sane(U, Handle(m, b, ins, h, peek))
        BY <2>1, <2>3, HPIsSane
      <3> DEFINE n == Handle(m, b, ins, h, peek)
      <3>2. /\ Sane(U, n) /\ Sane(U, Faulted(n)) /\ Sane(U, Next1(n))
            /\ Sane(U, Faulted(m))
        BY <2>4, <3>1
      <3>3. HPStep(m, b, peek) \in {m, Faulted(m), n, Faulted(n), Next1(n)}
        BY DEF HPStep
      <3> HIDE DEF n
      <3> QED  BY <3>2, <3>3
    <2> QED  BY <1>2, <2>5, <2>6, <2>7
  <1> QED  BY <1>1, <1>2

-------------------------------------------------------------------------------
(* Execute *)

\* What Execute makes of a machine.
LEMMA Executed ==
    ASSUME NEW m \in Machine, NEW b, b.locals \in Nat, NEW args \in Seq(Nat)
    PROVE  LET n == Execute(m, b, args)
           IN  /\ n \in Machine /\ n.pc = 0 /\ n.running /\ n.fault = m.fault
               /\ n.ret = m.ret /\ n.retobj = m.retobj
               /\ n.stack = [k \in Kinds |-> <<>>]
               /\ n.locals \in Seq(Nat) /\ Len(n.locals) = b.locals
               /\ \A i \in 1 .. b.locals :
                    n.locals[i] = IF i <= Len(args) THEN args[i]
                                  ELSE IF i <= Len(m.locals) THEN m.locals[i] ELSE 0
               /\ ThreadedExecute(m, b, args) = n
  <1> DEFINE L == b.locals
             r == Resized(m.locals, L)
             ls == [i \in 1 .. L |-> IF i <= Len(args) THEN args[i] ELSE r[i]]
             s == [k \in Kinds |-> <<>>]
             v(i) == IF i <= Len(m.locals) THEN m.locals[i] ELSE 0
  <1>1. L \in Nat /\ Len(args) \in Nat /\ m.locals \in Seq(Nat) /\ Len(m.locals) \in Nat
    <2>1. m.locals \in Seq(Nat)
      BY DEF Machine
    <2> QED  BY <2>1
  <1>2. r = [i \in 1 .. L |-> v(i)]
    BY DEF Resized
  <1>3. \A i \in 1 .. L : v(i) \in Nat /\ r[i] = v(i)
    BY <1>1, <1>2
  <1> HIDE DEF r, v
  <1>4. /\ ls \in Seq(Nat) /\ Len(ls) = L
        /\ \A i \in 1 .. L : ls[i] = IF i <= Len(args) THEN args[i] ELSE v(i)
    <2>1. \A i \in 1 .. L : (IF i <= Len(args) THEN args[i] ELSE r[i]) \in Nat
      BY <1>1, <1>3
    <2>2. ls \in [1 .. L -> Nat] /\ DOMAIN ls = 1 .. L
      BY <2>1
    <2>3. \A i \in 1 .. L : ls[i] = IF i <= Len(args) THEN args[i] ELSE v(i)
      BY <1>3
    <2>4. \A n \in Nat : \A f \in [1 .. n -> Nat] : f \in Seq(Nat) /\ Len(f) = n
      OBVIOUS
    <2> HIDE DEF ls, L
    <2>5. ls \in Seq(Nat) /\ Len(ls) = L
      BY <1>1, <2>2, <2>4
    <2> QED  BY <2>3, <2>5 DEF L
  <1>5. ls = [i \in 1 .. L |-> IF i <= Len(args) THEN args[i] ELSE v(i)]
    BY <1>3
  <1>6. s \in [Kinds -> Seq(Nat)]
    OBVIOUS
  <1>7. Execute(m, b, args) = [m EXCEPT !.pc = 0, !.running = TRUE, !.stack = s, !.locals = ls]
    BY DEF Execute, r
  <1>8. ThreadedExecute(m, b, args)
            = [m EXCEPT !.pc = 0, !.running = TRUE, !.stack = s, !.locals = ls]
    BY <1>5 DEF ThreadedExecute, v
  <1> HIDE DEF ls, s
  <1> DEFINE n == [m EXCEPT !.pc = 0, !.running = TRUE, !.stack = s, !.locals = ls]
  <1>9. /\ n \in Machine /\ n.pc = 0 /\ n.running /\ n.fault = m.fault
        /\ n.ret = m.ret /\ n.retobj = m.retobj /\ n.stack = s /\ n.locals = ls
    BY <1>4, <1>6 DEF Machine
  <1> HIDE DEF n
  <1>10. Execute(m, b, args) = n /\ ThreadedExecute(m, b, args) = n
    BY <1>7, <1>8 DEF n
  <1> QED  BY <1>4, <1>9, <1>10 DEF s, v

\* Executing, or being constructed, leaves nothing on the stacks.
LEMMA ExecuteIsSane ==
    ASSUME NEW U \in SUBSET Words, NEW m \in Machine, NEW b, b.locals \in Nat,
           NEW args \in Seq(Nat)
    PROVE  /\ Sane(U, Execute(m, b, args)) /\ Sane(U, ThreadedExecute(m, b, args))
           /\ Sane(U, HPExecute(m)) /\ Sane(U, NewMachine)
  <1> DEFINE s == [k \in Kinds |-> <<>>]
  <1>1. /\ s \in [Kinds -> Seq(Nat)]
        /\ \A S : s["i32"] \in Seq(S) /\ s["u32"] \in Seq(S)
    BY DEF Kinds
  <1>2. /\ Execute(m, b, args) \in Machine /\ Execute(m, b, args).stack = s
        /\ ThreadedExecute(m, b, args) = Execute(m, b, args)
    BY Executed
  <1>3. HPExecute(m) = [m EXCEPT !.pc = 0, !.running = TRUE, !.stack = s]
    BY DEF HPExecute
  <1> HIDE DEF s
  <1>4. HPExecute(m) \in Machine /\ HPExecute(m).stack = s
    <2>1. s \in [Kinds -> Seq(Nat)]
      BY <1>1
    <2> DEFINE n == [m EXCEPT !.pc = 0, !.running = TRUE, !.stack = s]
    <2>2. n \in Machine /\ n.stack = s
      BY <2>1 DEF Machine
    <2> HIDE DEF n
    <2> QED  BY <1>3, <2>2 DEF n
  <1>5. NewMachine \in Machine /\ NewMachine.stack = s
    <2>1. NewMachine = [pc |-> 0, running |-> FALSE, fault |-> FALSE, stack |-> s,
                        locals |-> <<>>, ret |-> 0, retobj |-> 0]
      BY DEF NewMachine, s
    <2>2. 0 \in Words /\ <<>> \in Seq(Nat)
      BY WordsAre
    <2> QED  BY <1>1, <2>1, <2>2 DEF Machine
  <1> QED  BY <1>1, <1>2, <1>4, <1>5 DEF Sane

-------------------------------------------------------------------------------
(* The invariants *)

\* The machines are sane, and the high-performance one has no unsigned stack.
TypesInv ==
    /\ Sane(Words, sw) /\ Sane(Words, th) /\ Sane({}, hp) /\ Sane(Words, fresh)
    /\ body.code \in Seq(Instr) /\ body.locals \in Nat
    /\ runs \in 0 .. MaxRuns /\ written \subseteq Nat
    /\ alikeTh \in BOOLEAN /\ alikeHp \in BOOLEAN /\ foreign \in BOOLEAN

\* The unsigned stack of the classic interpreter has only zeros, unless it has
\* read memory.
ZerosInv == ~foreign => Sane({0}, sw)

\* The methods and arguments given are well formed.
LEMMA ProgramsAre ==
    /\ \A b \in Bodies : b.code \in Seq(Instr) /\ b.locals \in Nat
    /\ ArgLists \subseteq Seq(Nat) /\ Peeks \subseteq Words /\ MaxRuns \in Nat
  BY ProgramsAssumption DEF ProgramsAssumption, Instr

LEMMA InitIsSane == Init => TypesInv /\ ZerosInv
  <1> SUFFICES ASSUME Init
               PROVE  TypesInv /\ ZerosInv
    OBVIOUS
  <1>1. NewMachine \in Machine
    <2>1. 0 \in Words /\ [k \in Kinds |-> <<>>] \in [Kinds -> Seq(Nat)] /\ <<>> \in Seq(Nat)
      BY WordsAre
    <2> QED  BY <2>1 DEF NewMachine, Machine
  <1>2. \A U \in SUBSET Words : Sane(U, NewMachine)
    <2> DEFINE b == [code |-> <<>>, locals |-> 0]
    <2>1. b.locals \in Nat /\ <<>> \in Seq(Nat)
      OBVIOUS
    <2> QED  BY <1>1, <2>1, ExecuteIsSane
  <1>3. {0} \in SUBSET Words /\ {} \in SUBSET Words /\ Words \in SUBSET Words
    BY WordsAre
  <1>4. body.code \in Seq(Instr) /\ body.locals \in Nat
    BY DEF Init
  <1>5. Sane(Words, NewMachine) /\ Sane({}, NewMachine) /\ Sane({0}, NewMachine)
    BY <1>2, <1>3
  <1>6. 0 \in 0 .. MaxRuns
    BY ProgramsAre
  <1>7. TypesInv
    BY <1>4, <1>5, <1>6 DEF Init, TypesInv
  <1>8. ZerosInv
    BY <1>5 DEF Init, ZerosInv
  <1> QED  BY <1>7, <1>8

\* The next method.
LEMMA ExecuteKeeps ==
    ASSUME TypesInv, NEW b \in Bodies, NEW args \in ArgLists, ExecuteAll(b, args)
    PROVE  TypesInv' /\ ZerosInv'
  <1>1. /\ b.code \in Seq(Instr) /\ b.locals \in Nat /\ args \in Seq(Nat)
        /\ Len(args) \in Nat
    BY ProgramsAre
  <1>2. {0} \in SUBSET Words /\ {} \in SUBSET Words /\ Words \in SUBSET Words
    BY WordsAre
  <1>3. /\ sw \in Machine /\ th \in Machine /\ hp \in Machine /\ fresh \in Machine
        /\ sw.locals \in Seq(Nat)
    BY <1>2, SaneIs DEF TypesInv
  <1>4. \A U \in SUBSET Words : Sane(U, NewMachine)
    BY <1>1, <1>3, ExecuteIsSane
  <1>5. NewMachine \in Machine
    BY <1>2, <1>4 DEF Sane
  <1>6. /\ Sane(Words, sw') /\ Sane({0}, sw') /\ Sane(Words, th') /\ Sane({}, hp')
        /\ Sane(Words, fresh')
    BY <1>1, <1>2, <1>3, <1>5, ExecuteIsSane DEF ExecuteAll
  <1>7. runs' \in 0 .. MaxRuns
    BY ProgramsAre DEF ExecuteAll, TypesInv
  <1>8. written' \subseteq Nat
    <2>1. Len(sw.locals) \in Nat
      BY <1>3
    <2>2. written' = (1 .. Len(args)) \cup (Len(sw.locals) + 1 .. b.locals)
      BY DEF ExecuteAll
    <2> QED  BY <1>1, <2>1, <2>2
  <1> QED  BY <1>1, <1>6, <1>7, <1>8 DEF ExecuteAll, TypesInv, ZerosInv

\* The instruction that the classic interpreter is at.
Current == IF InLoop(sw, body) THEN body.code[sw.pc + 1] ELSE [op |-> "Nop", arg |-> 0]

\* One instruction.
LEMMA StepKeeps ==
    ASSUME TypesInv, ZerosInv, StepAll
    PROVE  TypesInv' /\ ZerosInv'
  <1>1. PICK p \in [{"sw", "th", "hp", "fresh"} -> Peeks] :
                /\ sw' = InterpreterStep(sw, body, p["sw"])
                /\ th' = ThreadedStep(th, body, p["th"])
                /\ hp' = HPStep(hp, body, p["hp"])
                /\ fresh' = InterpreterStep(fresh, body, p["fresh"])
    BY DEF StepAll
  <1>2. p["sw"] \in Words /\ p["th"] \in Words /\ p["hp"] \in Words /\ p["fresh"] \in Words
    BY ProgramsAre
  <1>3. /\ {0} \in SUBSET Words /\ {} \in SUBSET Words /\ Words \in SUBSET Words
        /\ Closed(Words) /\ Closed({0})
    BY WordsAre, ClosedSets
  <1>4. /\ Sane(Words, sw') /\ Sane(Words, th') /\ Sane({}, hp') /\ Sane(Words, fresh')
    BY <1>1, <1>2, <1>3, LoopsAreSane DEF TypesInv
  <1>5. Current.arg \in Nat
    <2>1. CASE InLoop(sw, body)
      <3>1. sw \in Machine /\ sw.pc < Len(body.code) /\ body.code \in Seq(Instr)
        BY <1>3, <2>1, SaneIs DEF InLoop, TypesInv
      <3> QED  BY <2>1, <3>1, DoublesAre, WordsAre DEF Current
    <2>2. CASE ~InLoop(sw, body)
      BY <2>2 DEF Current
    <2> QED  BY <2>1, <2>2
  <1>6. /\ alikeTh' = (alikeTh /\ AlikeThreaded(sw, Current))
        /\ alikeHp' = (alikeHp /\ (InLoop(sw, body) => AlikeHP(sw, Current)))
        /\ written' = IF Stores(Current.op) THEN written \cup {LocalOf(Current)} ELSE written
        /\ foreign' = (foreign \/ ReadsForeign(sw, Current))
        /\ UNCHANGED <<body, runs>>
    BY DEF StepAll, Current
  <1>7. written' \subseteq Nat
    <2>1. LocalOf(Current) \in Nat
      BY <1>5, LocalsAreCounted
    <2> QED  BY <1>6, <2>1 DEF TypesInv
  <1>8. alikeTh' \in BOOLEAN /\ alikeHp' \in BOOLEAN /\ foreign' \in BOOLEAN
    BY <1>6
  <1>9. TypesInv'
    BY <1>4, <1>6, <1>7, <1>8 DEF TypesInv
  <1>10. ASSUME ~foreign'
         PROVE  Sane({0}, sw')
    <2>1. ~foreign /\ ~ReadsForeign(sw, Current)
      BY <1>6, <1>10
    <2>2. InLoop(sw, body) => body.code[sw.pc + 1].op # "Ldlen"
      BY <2>1 DEF ReadsForeign, ReadsMemory, Current
    <2> QED  BY <1>1, <1>2, <1>3, <2>1, <2>2, LoopsAreSane DEF TypesInv, ZerosInv
  <1> QED  BY <1>9, <1>10 DEF ZerosInv

LEMMA SaneAlways == Spec => [](TypesInv /\ ZerosInv)
  <1>1. TypesInv /\ ZerosInv /\ [Next]_vars => (TypesInv /\ ZerosInv)'
    <2> SUFFICES ASSUME TypesInv, ZerosInv, [Next]_vars
                 PROVE  TypesInv' /\ ZerosInv'
      OBVIOUS
    <2>1. CASE StepAll
      BY <2>1, StepKeeps
    <2>2. ASSUME NEW b \in Bodies, NEW args \in ArgLists, ExecuteAll(b, args)
          PROVE  TypesInv' /\ ZerosInv'
      BY <2>2, ExecuteKeeps
    <2>3. CASE UNCHANGED vars
      BY <2>3 DEF vars, TypesInv, ZerosInv
    <2> QED  BY <2>1, <2>2, <2>3 DEF Next
  <1> QED  BY <1>1, InitIsSane, PTL DEF Spec

\* The machines stay machines: whatever the methods do, no stack, local, result
\* or pc_ leaves its type, and no instruction is outside the tables.
THEOREM MachinesStay == Spec => []TypeOK
  <1>1. TypesInv => TypeOK
    <2> SUFFICES ASSUME TypesInv
                 PROVE  TypeOK
      OBVIOUS
    <2>1. {sw, th, hp, fresh} \subseteq Machine
      BY DEF TypesInv, Sane
    <2> QED  BY <2>1 DEF TypesInv, TypeOK
  <1> QED  BY <1>1, SaneAlways, PTL

\* Until the length of an array is read, the unsigned stack has only zeros.
THEOREM UnsignedStaysZero == Spec => []UnsignedSeesZeros
  <1>1. ZerosInv => UnsignedSeesZeros
    <2> SUFFICES ASSUME ZerosInv, ~foreign, NEW i \in DOMAIN sw.stack["u32"]
                 PROVE  sw.stack["u32"][i] = 0
      BY DEF UnsignedSeesZeros
    <2>1. sw.stack["u32"] \in Seq({0})
      BY DEF ZerosInv, Sane
    <2> QED  BY <2>1
  <1> QED  BY <1>1, SaneAlways, PTL

-------------------------------------------------------------------------------
(* Where the interpreters agree *)

\* The opcodes by name, where the proofs tell them apart.
LEMMA NamesAre ==
    /\ DOMAIN ShortConstant = {"Ldc_I4_M1", "Ldc_I4_0", "Ldc_I4_1", "Ldc_I4_2", "Ldc_I4_3",
                               "Ldc_I4_4", "Ldc_I4_5", "Ldc_I4_6", "Ldc_I4_7", "Ldc_I4_8"}
    /\ LocalOps = {"LDloc_0", "LDloc_1", "LDloc_2", "LDloc_3", "STloc_0", "STloc_1",
                   "STloc_2", "STloc_3", "LDloc_S", "LDloc", "STloc_S", "STloc"}
    /\ DOMAIN SignedBranch = {"Beq", "Bge", "Bgt", "Ble", "Blt",
                              "Beq_S", "Bge_S", "Bgt_S", "Ble_S", "Blt_S"}
    /\ DOMAIN UnsignedBranch = {"Bne_Un", "Bge_Un", "Bgt_Un", "Ble_Un", "Blt_Un",
                                "Bne_Un_S", "Bge_Un_S", "Bgt_Un_S", "Ble_Un_S", "Blt_Un_S"}
    /\ DOMAIN Relation = {"Beq", "Bge", "Bgt", "Ble", "Blt"}
    /\ \A op \in DOMAIN Relation : SignedBranch[op] = Relation[op]
  BY DEF ShortConstant, LocalOps, ShortLoad, ShortStore, SignedBranch, UnsignedBranch, Relation

\* The arms of the classic switch exclude each other.
LEMMA ClassicDoes ==
    ASSUME NEW m, NEW b, NEW ins, NEW peek, NEW n, n = ExecuteInstruction(m, b, ins, peek)
    PROVE  /\ ins.op \in DOMAIN ShortConstant
                  => n = Push(m, "i32", ShortConstant[ins.op] % WordMod)
           /\ ins.op \in {"Ldc_I4", "Ldc_I4_S"} => n = Push(m, "i32", ins.arg)
           /\ ins.op = "Ldc_R4" => n = Push(m, "f32", ins.arg)
           /\ ins.op = "Ldc_R8" => n = Push(m, "f64", DoubleOperand(m, b))
           /\ ins.op \in LocalOps => n = LocalAccess(m, ins)
           /\ ins.op = "Dup" => n = DupIntFirst(m)
           /\ ins.op \in {"Pop", "Box", "Stsfld"} => n = Drop(m, "obj")
           /\ ins.op \in BinaryOps => n = Computed(m, "i32", ins.op)
           /\ ins.op \in UnsignedOps => n = Computed(m, "u32", ins.op)
           /\ ins.op \in UnaryOps => n = ComputedUnary(m, ins.op)
           /\ ins.op \in {"Br", "Br_S"} => n = Goto(m, ins.arg)
           /\ ins.op \in {"Brfalse", "Brfalse_S"} => n = BranchOnTop(m, "zero", ins.arg)
           /\ ins.op \in {"Brtrue", "Brtrue_S"} => n = BranchOnTop(m, "nonzero", ins.arg)
           /\ ins.op \in DOMAIN SignedBranch
                  => n = BranchIf(m, "i32", SignedBranch[ins.op], ins.arg)
           /\ ins.op \in DOMAIN UnsignedBranch
                  => n = BranchIf(m, "u32", UnsignedBranch[ins.op], ins.arg)
           /\ ins.op = "Ret" => n = Returned(m)
           /\ ins.op \in {"LDnull", "Ldsfld", "Newobj"} => n = Push(m, "obj", 0)
           /\ ins.op \in ArrayOps => n = ArrayInstruction(m, ins.op, peek)
           /\ ins.op = "Ldfld" => n = LoadField(m, ins.arg)
           /\ ins.op = "Stfld" => n = Drop2(m, "obj")
           /\ ins.op = "Throw" => n = [Drop(m, "obj") EXCEPT !.running = FALSE]
           /\ ins.op \notin Listed => n = m
  <1>1. ClassicArm(m, b, ins, peek, n)
    BY ClassicArms
  <1> USE NamesAre DEF ClassicArm, BinaryOps, UnaryOps, UnsignedOps, ArrayOps, Listed
  <1>2. ins.op \in DOMAIN ShortConstant => n = Push(m, "i32", ShortConstant[ins.op] % WordMod)
    BY <1>1
  <1>3. ins.op \in {"Ldc_I4", "Ldc_I4_S"} => n = Push(m, "i32", ins.arg)
    BY <1>1
  <1>4. ins.op = "Ldc_R4" => n = Push(m, "f32", ins.arg)
    BY <1>1
  <1>5. ins.op = "Ldc_R8" => n = Push(m, "f64", DoubleOperand(m, b))
    BY <1>1
  <1>6. ins.op \in LocalOps => n = LocalAccess(m, ins)
    BY <1>1
  <1>7. ins.op = "Dup" => n = DupIntFirst(m)
    BY <1>1
  <1>8. ins.op \in {"Pop", "Box", "Stsfld"} => n = Drop(m, "obj")
    BY <1>1
  <1>9. ins.op \in BinaryOps => n = Computed(m, "i32", ins.op)
    BY <1>1
  <1>10. ins.op \in UnsignedOps => n = Computed(m, "u32", ins.op)
    BY <1>1
  <1>11. ins.op \in UnaryOps => n = ComputedUnary(m, ins.op)
    BY <1>1
  <1>12. ins.op \in {"Br", "Br_S"} => n = Goto(m, ins.arg)
    BY <1>1
  <1>13. ins.op \in {"Brfalse", "Brfalse_S"} => n = BranchOnTop(m, "zero", ins.arg)
    BY <1>1
  <1>14. ins.op \in {"Brtrue", "Brtrue_S"} => n = BranchOnTop(m, "nonzero", ins.arg)
    BY <1>1
  <1>15. ins.op \in DOMAIN SignedBranch => n = BranchIf(m, "i32", SignedBranch[ins.op], ins.arg)
    BY <1>1
  <1>16. ins.op \in DOMAIN UnsignedBranch
            => n = BranchIf(m, "u32", UnsignedBranch[ins.op], ins.arg)
    BY <1>1
  <1>17. ins.op = "Ret" => n = Returned(m)
    BY <1>1
  <1>18. ins.op \in {"LDnull", "Ldsfld", "Newobj"} => n = Push(m, "obj", 0)
    BY <1>1
  <1>19. ins.op \in ArrayOps => n = ArrayInstruction(m, ins.op, peek)
    BY <1>1
  <1>20. ins.op = "Ldfld" => n = LoadField(m, ins.arg)
    BY <1>1
  <1>21. ins.op = "Stfld" => n = Drop2(m, "obj")
    BY <1>1
  <1>22. ins.op = "Throw" => n = [Drop(m, "obj") EXCEPT !.running = FALSE]
    BY <1>1
  <1>23. ins.op \notin Listed => n = m
    BY <1>1
  <1> QED  BY <1>2, <1>3, <1>4, <1>5, <1>6, <1>7, <1>8, <1>9, <1>10, <1>11, <1>12, <1>13,
           <1>14, <1>15, <1>16, <1>17, <1>18, <1>19, <1>20, <1>21, <1>22, <1>23

\* Two machines with the same control and the same stacks of the kinds K.
Alike(K, m, n) ==
    /\ Sane(Words, m) /\ Sane(Words, n)
    /\ n.pc = m.pc /\ n.running = m.running /\ n.fault = m.fault
    /\ \A k \in K : n.stack[k] = m.stack[k]

\* They become m2 and n2, which are alike too, with the locals and the result
\* that each had.
Follows(K, m, n, m2, n2) ==
    /\ Alike(K, m2, n2)
    /\ m2.locals = m.locals /\ n2.locals = n.locals /\ m2.ret = m.ret /\ n2.ret = n.ret

LEMMA Onwards ==
    ASSUME NEW K, NEW m, NEW n, NEW m2, NEW n2, NEW m3, NEW n3,
           Follows(K, m, n, m2, n2), Follows(K, m2, n2, m3, n3)
    PROVE  Follows(K, m, n, m3, n3)
  BY DEF Follows

LEMMA AlikeIs ==
    ASSUME NEW K, NEW m, NEW n, Alike(K, m, n)
    PROVE  /\ m \in Machine /\ n \in Machine /\ Words \in SUBSET Words /\ Words \subseteq Nat
           /\ 0 \in Nat /\ Follows(K, m, n, m, n)
  BY WordsAre DEF Alike, Follows, Sane

LEMMA AlikePush ==
    ASSUME NEW K \in SUBSET Kinds, NEW m, NEW n, Alike(K, m, n), NEW k \in Kinds, NEW v \in Nat,
           k \in {"i32", "u32"} => v \in Words
    PROVE  Follows(K, m, n, Push(m, k, v), Push(n, k, v))
  <1>1. m \in Machine /\ n \in Machine /\ Words \in SUBSET Words
    BY AlikeIs
  <1>2. Sane(Words, Push(m, k, v)) /\ Sane(Words, Push(n, k, v))
    BY <1>1, PushIsSane DEF Alike
  <1> DEFINE a == Push(m, k, v)
             c == Push(n, k, v)
  <1>3. /\ SameBut(k, m, a) /\ a.stack[k] = Append(m.stack[k], v)
        /\ SameBut(k, n, c) /\ c.stack[k] = Append(n.stack[k], v)
    BY <1>1, Pushed
  <1> HIDE DEF a, c
  <1>4. \A j \in K : c.stack[j] = a.stack[j]
    BY <1>3 DEF SameBut, Alike
  <1> QED  BY <1>2, <1>3, <1>4 DEF Follows, Alike, SameBut, a, c

LEMMA AlikeDrop ==
    ASSUME NEW K \in SUBSET Kinds, NEW m, NEW n, Alike(K, m, n), NEW k \in Kinds
    PROVE  /\ Follows(K, m, n, Drop(m, k), Drop(n, k))
           /\ k \in K => Top(n, k) = Top(m, k)
           /\ Top(m, k) \in Nat /\ (k \in {"i32", "u32"} => Top(m, k) \in Words)
  <1>1. m \in Machine /\ n \in Machine /\ Words \in SUBSET Words
    BY AlikeIs
  <1>2. /\ Sane(Words, Drop(m, k)) /\ Sane(Words, Drop(n, k))
        /\ Top(m, k) \in Nat /\ (k \in {"i32", "u32"} => Top(m, k) \in Words)
    BY <1>1, DropIsSane DEF Alike
  <1> DEFINE a == Drop(m, k)
             c == Drop(n, k)
  <1>3. /\ SameBut(k, m, a) /\ a.stack[k] = Shorter(m.stack[k])
        /\ SameBut(k, n, c) /\ c.stack[k] = Shorter(n.stack[k])
        /\ Top(m, k) = LastOr0(m.stack[k]) /\ Top(n, k) = LastOr0(n.stack[k])
    BY <1>1, Dropped
  <1> HIDE DEF a, c
  <1>4. \A j \in K : c.stack[j] = a.stack[j]
    BY <1>3 DEF SameBut, Alike
  <1>5. k \in K => Top(n, k) = Top(m, k)
    BY <1>3 DEF Alike
  <1> QED  BY <1>2, <1>3, <1>4, <1>5 DEF Follows, Alike, SameBut, a, c

LEMMA AlikeStep ==
    ASSUME NEW K, NEW m, NEW n, Alike(K, m, n), NEW target \in Nat
    PROVE  /\ Follows(K, m, n, Goto(m, target), Goto(n, target))
           /\ Follows(K, m, n, Next1(m), Next1(n))
           /\ Follows(K, m, n, Faulted(m), Faulted(n))
  <1>1. m \in Machine /\ n \in Machine /\ Words \in SUBSET Words
    BY AlikeIs
  <1>2. \A x \in {m, n} : Sane(Words, Goto(x, target)) /\ Sane(Words, Next1(x))
                            /\ Sane(Words, Faulted(x))
    BY <1>1, StepIsSane DEF Alike
  <1>3. Faulted(m).running = Faulted(n).running /\ Faulted(m).fault = Faulted(n).fault
    <2>1. \A x \in Machine : Faulted(x).running = FALSE /\ Faulted(x).fault = TRUE
      BY DEF Faulted, Machine
    <2> QED  BY <1>1, <2>1
  <1>4. Follows(K, m, n, Goto(m, target), Goto(n, target))
    BY <1>1, <1>2, Stepped DEF Follows, Alike
  <1>5. Follows(K, m, n, Next1(m), Next1(n))
    BY <1>1, <1>2, Stepped DEF Follows, Alike
  <1>6. Follows(K, m, n, Faulted(m), Faulted(n))
    BY <1>1, <1>2, <1>3, Stepped DEF Follows, Alike
  <1> QED  BY <1>4, <1>5, <1>6

\* The loop's flag is cleared.
LEMMA AlikeStop ==
    ASSUME NEW K, NEW m, NEW n, Alike(K, m, n)
    PROVE  Follows(K, m, n, [m EXCEPT !.running = FALSE], [n EXCEPT !.running = FALSE])
  <1>1. m \in Machine /\ n \in Machine /\ Words \in SUBSET Words /\ 0 \in Words
    BY AlikeIs, WordsAre
  <1>2. Sane(Words, [m EXCEPT !.running = FALSE]) /\ Sane(Words, [n EXCEPT !.running = FALSE])
    BY <1>1, StopIsSane DEF Alike
  <1>3. \A x \in Machine :
            /\ [x EXCEPT !.running = FALSE].pc = x.pc
            /\ [x EXCEPT !.running = FALSE].running = FALSE
            /\ [x EXCEPT !.running = FALSE].fault = x.fault
            /\ [x EXCEPT !.running = FALSE].stack = x.stack
            /\ [x EXCEPT !.running = FALSE].locals = x.locals
            /\ [x EXCEPT !.running = FALSE].ret = x.ret
    BY DEF Machine
  <1> QED  BY <1>1, <1>2, <1>3 DEF Follows, Alike

LEMMA AlikeDrop2 ==
    ASSUME NEW K \in SUBSET Kinds, NEW m, NEW n, Alike(K, m, n), NEW k \in Kinds
    PROVE  /\ Follows(K, m, n, Drop2(m, k), Drop2(n, k))
           /\ k \in K => Below(n, k) = Below(m, k)
           /\ k \in {"i32", "u32"} => Below(m, k) \in Words
  <1>1. Follows(K, m, n, Drop(m, k), Drop(n, k))
    BY AlikeDrop
  <1>2. Alike(K, Drop(m, k), Drop(n, k))
    BY <1>1 DEF Follows
  <1>3. /\ Follows(K, Drop(m, k), Drop(n, k), Drop2(m, k), Drop2(n, k))
        /\ k \in K => Below(n, k) = Below(m, k)
        /\ k \in {"i32", "u32"} => Below(m, k) \in Words
    BY <1>2, AlikeDrop DEF Drop2, Below
  <1> QED  BY <1>1, <1>3, Onwards

LEMMA AlikeComputed ==
    ASSUME NEW K \in SUBSET Kinds, NEW m, NEW n, Alike(K, m, n)
    PROVE  /\ "i32" \in K => \A op \in BinaryOps :
                    Follows(K, m, n, Computed(m, "i32", op), Computed(n, "i32", op))
           /\ "u32" \in K => \A op \in UnsignedOps :
                    Follows(K, m, n, Computed(m, "u32", op), Computed(n, "u32", op))
           /\ "i32" \in K => \A op \in UnaryOps :
                    Follows(K, m, n, ComputedUnary(m, op), ComputedUnary(n, op))
  <1>1. 0 \in Words /\ 0 \in Nat /\ Words \subseteq Nat /\ "i32" \in Kinds /\ "u32" \in Kinds
    BY WordsAre DEF Kinds
  <1>2. Follows(K, m, n, Faulted(m), Faulted(n))
    BY <1>1, AlikeStep
  <1>3. ASSUME NEW k \in {"i32", "u32"}, k \in K, NEW op \in BinaryOps \cup UnsignedOps
        PROVE  Follows(K, m, n, Computed(m, k, op), Computed(n, k, op))
    <2> DEFINE r == Arith[op][<<Below(m, k), Top(m, k)>>]
               s == Arith[op][<<Below(n, k), Top(n, k)>>]
    <2>1. /\ Top(m, k) \in Words /\ Below(m, k) \in Words /\ r = s
          /\ Follows(K, m, n, Drop2(m, k), Drop2(n, k))
      BY <1>1, <1>3, AlikeDrop, AlikeDrop2
    <2>2. Arith[op] \in [Words \X Words -> Words \cup {Trap}]
      BY MachineAssumption DEF MachineAssumption
    <2>3. r \in Words \cup {Trap}
      BY <2>1, <2>2
    <2>4. /\ Computed(m, k, op) = IF r = Trap THEN Faulted(m) ELSE Push(Drop2(m, k), k, r)
          /\ Computed(n, k, op) = IF r = Trap THEN Faulted(n) ELSE Push(Drop2(n, k), k, r)
      BY <2>1 DEF Computed
    <2> HIDE DEF r, s
    <2>5. ASSUME r # Trap
          PROVE  Follows(K, m, n, Push(Drop2(m, k), k, r), Push(Drop2(n, k), k, r))
      <3>1. Alike(K, Drop2(m, k), Drop2(n, k)) /\ r \in Words /\ r \in Nat /\ k \in Kinds
        BY <1>1, <2>1, <2>3, <2>5 DEF Follows
      <3>2. Follows(K, Drop2(m, k), Drop2(n, k), Push(Drop2(m, k), k, r), Push(Drop2(n, k), k, r))
        BY <3>1, AlikePush
      <3> QED  BY <2>1, <3>2, Onwards
    <2> QED  BY <1>2, <2>4, <2>5
  <1>4. ASSUME "i32" \in K, NEW op \in UnaryOps
        PROVE  Follows(K, m, n, ComputedUnary(m, op), ComputedUnary(n, op))
    <2> DEFINE r == Arith[op][<<Top(m, "i32"), 0>>]
    <2>1. /\ Top(m, "i32") \in Words /\ Top(n, "i32") = Top(m, "i32")
          /\ Follows(K, m, n, Drop(m, "i32"), Drop(n, "i32"))
      BY <1>1, <1>4, AlikeDrop
    <2>2. Arith[op] \in [Words \X Words -> Words]
      BY MachineAssumption DEF MachineAssumption
    <2>3. r \in Words /\ r \in Nat
      BY <1>1, <2>1, <2>2
    <2>4. /\ ComputedUnary(m, op) = Push(Drop(m, "i32"), "i32", r)
          /\ ComputedUnary(n, op) = Push(Drop(n, "i32"), "i32", r)
      BY <2>1 DEF ComputedUnary
    <2> HIDE DEF r
    <2>5. Alike(K, Drop(m, "i32"), Drop(n, "i32"))
      BY <2>1 DEF Follows
    <2>6. Follows(K, Drop(m, "i32"), Drop(n, "i32"),
                  Push(Drop(m, "i32"), "i32", r), Push(Drop(n, "i32"), "i32", r))
      BY <1>1, <2>3, <2>5, AlikePush
    <2> QED  BY <2>1, <2>4, <2>6, Onwards
  <1> QED  BY <1>3, <1>4

LEMMA AlikeBranch ==
    ASSUME NEW K \in SUBSET Kinds, NEW m, NEW n, Alike(K, m, n), NEW target \in Nat
    PROVE  /\ \A k \in K : \A rel :
                Follows(K, m, n, BranchIf(m, k, rel, target), BranchIf(n, k, rel, target))
           /\ "i32" \in K => \A awaited :
                Follows(K, m, n, BranchOnTop(m, awaited, target), BranchOnTop(n, awaited, target))
  <1>1. ASSUME NEW k \in K, NEW rel
        PROVE  Follows(K, m, n, BranchIf(m, k, rel, target), BranchIf(n, k, rel, target))
    <2>1. /\ Top(n, k) = Top(m, k) /\ Below(n, k) = Below(m, k)
          /\ Follows(K, m, n, Drop2(m, k), Drop2(n, k))
      BY AlikeDrop, AlikeDrop2
    <2>2. Alike(K, Drop2(m, k), Drop2(n, k))
      BY <2>1 DEF Follows
    <2>3. Follows(K, m, n, Goto(Drop2(m, k), target), Goto(Drop2(n, k), target))
      BY <2>1, <2>2, AlikeStep, Onwards
    <2> QED  BY <2>1, <2>3 DEF BranchIf
  <1>2. ASSUME "i32" \in K, NEW awaited
        PROVE  Follows(K, m, n, BranchOnTop(m, awaited, target), BranchOnTop(n, awaited, target))
    <2>1. /\ Top(n, "i32") = Top(m, "i32")
          /\ Follows(K, m, n, Drop(m, "i32"), Drop(n, "i32"))
      BY <1>2, AlikeDrop
    <2>2. Alike(K, Drop(m, "i32"), Drop(n, "i32"))
      BY <2>1 DEF Follows
    <2>3. Follows(K, m, n, Goto(Drop(m, "i32"), target), Goto(Drop(n, "i32"), target))
      BY <2>1, <2>2, AlikeStep, Onwards
    <2> QED  BY <2>1, <2>3 DEF BranchOnTop
  <1> QED  BY <1>1, <1>2

LEMMA AlikeLoad ==
    ASSUME NEW K \in SUBSET Kinds, NEW m, NEW n, Alike(K, m, n), "obj" \in K,
           NEW offset \in Nat
    PROVE  Follows(K, m, n, LoadField(m, offset), LoadField(n, offset))
  <1>1. /\ Top(n, "obj") = Top(m, "obj") /\ Top(m, "obj") + offset \in Nat
        /\ Follows(K, m, n, Drop(m, "obj"), Drop(n, "obj"))
    BY AlikeDrop
  <1>2. Alike(K, Drop(m, "obj"), Drop(n, "obj"))
    BY <1>1 DEF Follows
  <1> DEFINE v == Top(m, "obj") + offset
  <1>3. Follows(K, Drop(m, "obj"), Drop(n, "obj"),
                Push(Drop(m, "obj"), "obj", v), Push(Drop(n, "obj"), "obj", v))
    <2> HIDE DEF v
    <2> QED  BY <1>1, <1>2, AlikePush DEF v
  <1>4. Follows(K, m, n, Push(Drop(m, "obj"), "obj", v), Push(Drop(n, "obj"), "obj", v))
    BY <1>1, <1>3, Onwards
  <1> QED  BY <1>1, <1>4 DEF LoadField

-------------------------------------------------------------------------------
(* The threaded interpreter *)

\* Opcodes that nobody registers and whose slot nobody takes either.
Unregistered == {"LDarg_1", "LDarg_3", "LDarg_S", "LDarg", "Calli", "Rethrow", "Jmp"}

\* A registered opcode finds its handler: the low bytes differ.
LEMMA SlotsOfItsOwn ==
    /\ \A op \in Registered : DispatchTable[LowByte(op)] = op
    /\ \A op \in Unregistered : DispatchTable[LowByte(op)] = "Nop"
  <1>1. \A op, q \in Registered : LowByte(op) = LowByte(q) => op = q
    BY DEF OpCode, Registered, BinaryOps, UnaryOps, LowByte
  <1>2. \A op \in Registered \cup Unregistered : LowByte(op) \in 0 .. 255
    <2>1. Registered \cup Unregistered \subseteq DOMAIN OpCode
      BY DEF OpCode, Registered, Unregistered, BinaryOps, UnaryOps
    <2> QED  BY <2>1, SlotsAreBytes
  <1>3. \A op \in Unregistered, q \in Registered : LowByte(op) # LowByte(q)
    BY DEF OpCode, Registered, Unregistered, BinaryOps, UnaryOps, LowByte
  <1>4. \A op \in Registered : DispatchTable[LowByte(op)] = op
    BY <1>1, <1>2 DEF DispatchTable
  <1>5. \A op \in Unregistered : DispatchTable[LowByte(op)] = "Nop"
    BY <1>2, <1>3 DEF DispatchTable
  <1> QED  BY <1>4, <1>5

\* Popping an empty stack changes nothing, and keeping a result is no change.
LEMMA NothingToDrop ==
    ASSUME NEW m \in Machine, NEW k \in Kinds, m.stack[k] = <<>>
    PROVE  /\ Drop(m, k) = m
           /\ [m EXCEPT !.ret = m.ret, !.running = FALSE] = [m EXCEPT !.running = FALSE]
  <1>1. m.stack \in [Kinds -> Seq(Nat)]
    BY DEF Machine
  <1>2. [m.stack EXCEPT ![k] = m.stack[k]] = m.stack
    BY <1>1
  <1>3. Drop(m, k) = [m EXCEPT !.stack = [m.stack EXCEPT ![k] = m.stack[k]]]
    BY DEF Drop
  <1>4. [m EXCEPT !.stack = m.stack] = m
    BY DEF Machine
  <1>5. [m EXCEPT !.ret = m.ret, !.running = FALSE] = [m EXCEPT !.running = FALSE]
    BY DEF Machine
  <1> QED  BY <1>2, <1>3, <1>4, <1>5

\* Both return the same.
LEMMA RetsAgree ==
    ASSUME NEW m \in Machine
    PROVE  ExecRet(m) = Returned(m)
  <1>1. "i32" \in Kinds
    BY DEF Kinds
  <1>2. CASE m.stack["i32"] = <<>>
    <2>1. /\ Drop(m, "i32") = m
          /\ [m EXCEPT !.ret = m.ret, !.running = FALSE] = [m EXCEPT !.running = FALSE]
      BY <1>1, <1>2, NothingToDrop
    <2>2. Returned(m) = [m EXCEPT !.ret = m.ret, !.running = FALSE]
      BY <1>2, <2>1 DEF Returned
    <2> QED  BY <1>2, <2>1, <2>2 DEF ExecRet
  <1>3. CASE m.stack["i32"] # <<>>
    BY <1>3 DEF ExecRet, Returned
  <1> QED  BY <1>2, <1>3

\* One instruction that both read alike.
LEMMA ThreadedDoesTheSame ==
    ASSUME NEW m \in Machine, NEW b, NEW ins \in Instr, AlikeThreaded(m, ins),
           NEW p1, NEW p2
    PROVE  Dispatch(m, ins, p2) = ExecuteInstruction(m, b, ins, p1)
  <1> DEFINE n == ExecuteInstruction(m, b, ins, p1)
             t == Dispatch(m, ins, p2)
             h == DispatchTable[LowByte(ins.op)]
  <1>1. ThreadedArm(m, ins, h, p2, t)
    BY ThreadedArms DEF Instr
  <1>2. /\ ins.op \in Registered => h = ins.op
        /\ ins.op \in Unregistered => h = "Nop"
    BY SlotsOfItsOwn
  <1>3. /\ ins.op = "Dup" \/ ins.op \in Plain \cup BinaryOps \cup UnaryOps
                                          \cup {"Jmp", "Call", "Pop", "Newarr", "Newobj"}
        /\ ins.op = "Dup" => m.stack["i32"] = <<>>
    BY DEF AlikeThreaded, Plain, BinaryOps, UnaryOps
  <1> HIDE DEF t, h
  <1>4. CASE ins.op \in {"Nop", "LDarg_1", "LDarg_3", "LDarg_S", "LDarg", "Calli", "Castclass",
                         "Isinst", "Rethrow", "Jmp", "Call"}
    <2>1. h \in {"Nop", "Call", "Castclass", "Isinst"}
      BY <1>2, <1>4 DEF Registered, Unregistered
    <2>2. t = m
      BY <1>1, <2>1, Zenon DEF ThreadedArm, BinaryOps, UnaryOps
    <2>3. ins.op \notin Listed
      BY <1>4, NamesAre DEF Listed, BinaryOps, UnaryOps, UnsignedOps, ArrayOps
    <2>4. n = m
      BY <2>3, ClassicDoes
    <2> QED  BY <2>2, <2>4 DEF t
  <1> HIDE DEF n
  <1>5. n = ExecuteInstruction(m, b, ins, p1)
    BY DEF n
  <1>6. CASE ins.op \in {"Ldc_I4", "Ldc_R4", "Br", "Brfalse", "Brtrue", "Ldfld", "Stfld"}
    <2>1. h = ins.op
      BY <1>2, <1>6 DEF Registered
    <2>2. /\ ins.op = "Ldc_I4" => t = Push(m, "i32", ins.arg)
          /\ ins.op = "Ldc_R4" => t = Push(m, "f32", ins.arg)
          /\ ins.op = "Br" => t = Goto(m, ins.arg)
          /\ ins.op = "Brfalse" => t = BranchOnTop(m, "zero", ins.arg)
          /\ ins.op = "Brtrue" => t = BranchOnTop(m, "nonzero", ins.arg)
          /\ ins.op = "Ldfld" => t = LoadField(m, ins.arg)
          /\ ins.op = "Stfld" => t = Drop2(m, "obj")
      BY <1>1, <2>1, <1>6 DEF ThreadedArm, BinaryOps, UnaryOps
    <2>3. /\ ins.op = "Ldc_I4" => n = Push(m, "i32", ins.arg)
          /\ ins.op = "Ldc_R4" => n = Push(m, "f32", ins.arg)
          /\ ins.op = "Br" => n = Goto(m, ins.arg)
          /\ ins.op = "Brfalse" => n = BranchOnTop(m, "zero", ins.arg)
          /\ ins.op = "Brtrue" => n = BranchOnTop(m, "nonzero", ins.arg)
          /\ ins.op = "Ldfld" => n = LoadField(m, ins.arg)
          /\ ins.op = "Stfld" => n = Drop2(m, "obj")
      BY <1>5, ClassicDoes
    <2> QED  BY <1>6, <2>2, <2>3 DEF t, n
  <1>7. CASE ins.op \in {"Ldsfld", "Newobj", "Stsfld", "Pop", "Newarr"}
    <2>1. h = ins.op
      BY <1>2, <1>7 DEF Registered
    <2>2. /\ ins.op \in {"Ldsfld", "Newobj"} => t = Push(m, "obj", 0)
          /\ ins.op \in {"Pop", "Stsfld"} => t = Drop(m, "obj")
          /\ ins.op = "Newarr" => t = Push(Drop(m, "u32"), "obj", NewAddress)
      BY <1>1, <2>1, <1>7 DEF ThreadedArm, BinaryOps, UnaryOps
    <2>3. /\ ins.op \in {"Ldsfld", "Newobj"} => n = Push(m, "obj", 0)
          /\ ins.op \in {"Pop", "Stsfld"} => n = Drop(m, "obj")
          /\ ins.op \in ArrayOps => n = ArrayInstruction(m, ins.op, p1)
      BY <1>5, ClassicDoes
    <2>4. ins.op = "Newarr" => n = Push(Drop(m, "u32"), "obj", NewAddress)
      BY <2>3 DEF ArrayOps, ArrayInstruction
    <2> QED  BY <1>7, <2>2, <2>3, <2>4 DEF t, n
  <1>8. CASE ins.op \in BinaryOps \cup UnaryOps
    <2>1. h = ins.op
      BY <1>2, <1>8 DEF Registered
    <2>2. /\ ins.op \in BinaryOps => t = Computed(m, "i32", ins.op)
          /\ ins.op \in UnaryOps => t = ComputedUnary(m, ins.op)
      BY <1>1, <2>1, <1>8 DEF ThreadedArm, BinaryOps, UnaryOps
    <2>3. /\ ins.op \in BinaryOps => n = Computed(m, "i32", ins.op)
          /\ ins.op \in UnaryOps => n = ComputedUnary(m, ins.op)
      BY <1>5, ClassicDoes
    <2> QED  BY <1>8, <2>2, <2>3 DEF t, n
  <1>9. CASE ins.op = "Ret"
    <2>1. h = "Ret"
      BY <1>2, <1>9 DEF Registered
    <2>2. t = ExecRet(m)
      BY <1>1, <2>1 DEF ThreadedArm, BinaryOps, UnaryOps
    <2>3. n = Returned(m)
      BY <1>5, <1>9, ClassicDoes
    <2> QED  BY <2>2, <2>3, RetsAgree DEF t, n
  <1>10. CASE ins.op = "Dup"
    <2>1. h = "Dup" /\ m.stack["i32"] = <<>>
      BY <1>2, <1>3, <1>10 DEF Registered
    <2>2. t = ExecDup(m)
      BY <1>1, <2>1 DEF ThreadedArm, BinaryOps, UnaryOps
    <2>3. n = DupIntFirst(m)
      BY <1>5, <1>10, ClassicDoes
    <2> QED  BY <2>1, <2>2, <2>3 DEF t, n, ExecDup, DupIntFirst
  <1> QED  BY <1>3, <1>4, <1>6, <1>7, <1>8, <1>9, <1>10 DEF Plain

\* The classic and the threaded interpreter are in the same state until an
\* instruction comes that they read differently: the threaded one has every
\* handler that it registers, and all the rest of its table does nothing.
THEOREM ThreadedFollows == Spec => []ThreadedAgrees
  <1>1. Init => ThreadedAgrees
    BY DEF Init, ThreadedAgrees
  <1>2. TypesInv /\ ThreadedAgrees /\ [Next]_vars => ThreadedAgrees'
    <2> SUFFICES ASSUME TypesInv, ThreadedAgrees, [Next]_vars, alikeTh'
                 PROVE  th' = sw'
      BY DEF ThreadedAgrees
    <2>1. CASE StepAll
      <3>1. PICK p \in [{"sw", "th", "hp", "fresh"} -> Peeks] :
                    /\ sw' = InterpreterStep(sw, body, p["sw"])
                    /\ th' = ThreadedStep(th, body, p["th"])
        BY <2>1 DEF StepAll
      <3>2. alikeTh' = (alikeTh /\ AlikeThreaded(sw, Current))
        BY <2>1 DEF StepAll, Current
      <3>3. th = sw /\ AlikeThreaded(sw, Current)
        BY <3>2 DEF ThreadedAgrees
      <3>4. CASE ~InLoop(sw, body)
        BY <3>1, <3>3, <3>4 DEF InterpreterStep, ThreadedStep
      <3>5. CASE InLoop(sw, body)
        <4> DEFINE ins == body.code[sw.pc + 1]
        <4>1. sw \in Machine /\ ins \in Instr /\ Current = ins
          <5>1. sw \in Machine /\ body.code \in Seq(Instr) /\ sw.pc < Len(body.code)
            BY <3>5 DEF TypesInv, Sane, InLoop
          <5> QED  BY <3>5, <5>1, DoublesAre DEF Current
        <4> HIDE DEF ins
        <4>2. AlikeThreaded(sw, ins)
          BY <3>3, <4>1
        <4>3. Dispatch(sw, ins, p["th"]) = ExecuteInstruction(sw, body, ins, p["sw"])
          BY <4>1, <4>2, ThreadedDoesTheSame
        <4> QED  BY <3>1, <3>3, <3>5, <4>3 DEF InterpreterStep, ThreadedStep, ins
      <3> QED  BY <3>4, <3>5
    <2>2. ASSUME NEW b \in Bodies, NEW args \in ArgLists, ExecuteAll(b, args)
          PROVE  th' = sw'
      <3>1. /\ alikeTh' = alikeTh /\ sw' = Execute(sw, b, args)
            /\ th' = ThreadedExecute(th, b, args)
        BY <2>2 DEF ExecuteAll
      <3>2. th = sw
        BY <3>1 DEF ThreadedAgrees
      <3>3. sw \in Machine /\ b.locals \in Nat /\ args \in Seq(Nat)
        BY ProgramsAre DEF TypesInv, Sane
      <3> QED  BY <3>1, <3>2, <3>3, Executed
    <2>3. CASE UNCHANGED vars
      BY <2>3 DEF vars, ThreadedAgrees
    <2> QED  BY <2>1, <2>2, <2>3 DEF Next
  <1> QED  BY <1>1, <1>2, SaneAlways, PTL DEF Spec

-------------------------------------------------------------------------------
(* The high-performance interpreter *)

\* The slots that share a handler or have another opcode's.
SharedSlots == (22 .. 33) \cup {39, 43, 44, 45, 64, 65, 66, 67, 68, 116, 117, 143, 144, 148, 158}

\* Opcodes for which it does nothing.
IdleOps == {"Nop", "Break", "LDarg_0", "LDarg_1", "LDarg_2", "LDarg_3", "LDarg_S", "LDarg", "Calli"}

\* The handler of every opcode at which it can agree with the classic one.
LEMMA HandlersFound ==
    /\ \A op \in OwnSlot : HandlerTable[LowByte(op)] = op
    /\ \A op \in IdleOps : HandlerTable[LowByte(op)] = "Nop"
    /\ \A op \in DOMAIN ShortConstant \cup {"Ldc_I4", "Ldc_I4_S"} :
            HandlerTable[LowByte(op)] = "Ldc_I4"
    /\ HandlerTable[LowByte("Br_S")] = "Br" /\ HandlerTable[LowByte("Brfalse_S")] = "Brfalse"
    /\ HandlerTable[LowByte("Brtrue_S")] = "Brtrue"
    /\ HandlerTable[LowByte("Castclass")] = "Isinst"
    /\ HandlerTable[LowByte("Isinst")] = "Castclass"
  <1>1. \A s \in (0 .. 255) \ SharedSlots :
            HandlerTable[s] = IF \E op \in OwnSlot : OpCode[op] = s
                              THEN CHOOSE op \in OwnSlot : OpCode[op] = s ELSE "Nop"
    BY DEF HandlerTable, SharedSlots
  <1>2. \A op \in OwnSlot : OpCode[op] \in (0 .. 255) \ SharedSlots
    BY DEF OpCode, OwnSlot, SharedSlots, BinaryOps
  <1>3. /\ \A s \in 22 .. 33 : HandlerTable[s] = "Ldc_I4"
        /\ HandlerTable[43] = "Br" /\ HandlerTable[44] = "Brfalse" /\ HandlerTable[45] = "Brtrue"
        /\ HandlerTable[116] = "Isinst" /\ HandlerTable[117] = "Castclass"
    <2>1. ASSUME NEW s \in 22 .. 33
          PROVE  HandlerTable[s] = "Ldc_I4"
      <3>1. s \in 0 .. 255 /\ s \in SharedSlots
        BY DEF SharedSlots
      <3>2. ~ \E op \in OwnSlot : OpCode[op] = s
        BY <1>2, <3>1
      <3>3. s \notin {39, 43, 44, 45, 64, 65, 66, 67, 68, 116, 117, 143, 144, 148, 158}
        OBVIOUS
      <3> QED  BY <3>1, <3>2, <3>3 DEF HandlerTable
    <2>2. HandlerTable[43] = "Br" /\ HandlerTable[44] = "Brfalse" /\ HandlerTable[45] = "Brtrue"
      BY <1>2 DEF HandlerTable, SharedSlots
    <2>3. HandlerTable[116] = "Isinst" /\ HandlerTable[117] = "Castclass"
      BY <1>2 DEF HandlerTable, SharedSlots
    <2> QED  BY <2>1, <2>2, <2>3
  <1>4. \A op, q \in OwnSlot : OpCode[op] = OpCode[q] => op = q
    BY DEF OpCode, OwnSlot, BinaryOps
  <1>5. \A op \in IdleOps : OpCode[op] \in (0 .. 255) \ SharedSlots
    BY DEF OpCode, IdleOps, SharedSlots
  <1>6. \A op \in IdleOps, q \in OwnSlot : OpCode[q] # OpCode[op]
    BY DEF OpCode, OwnSlot, IdleOps, BinaryOps
  <1>7. \A op \in DOMAIN ShortConstant \cup {"Ldc_I4", "Ldc_I4_S"} : OpCode[op] \in 22 .. 33
    BY NamesAre DEF OpCode
  <1>8. /\ OpCode["Br_S"] = 43 /\ OpCode["Brfalse_S"] = 44 /\ OpCode["Brtrue_S"] = 45
        /\ OpCode["Castclass"] = 116 /\ OpCode["Isinst"] = 117
    BY DEF OpCode
  <1>9. \A n \in 0 .. 255 : n % 256 = n
    OBVIOUS
  <1>10. \A op \in OwnSlot : HandlerTable[OpCode[op]] = op
    BY <1>1, <1>2, <1>4
  <1>11. \A op \in IdleOps : HandlerTable[OpCode[op]] = "Nop"
    BY <1>1, <1>5, <1>6
  <1>12. \A op \in DOMAIN ShortConstant \cup {"Ldc_I4", "Ldc_I4_S"} :
            HandlerTable[OpCode[op]] = "Ldc_I4"
    BY <1>3, <1>7
  <1>13. /\ \A op \in OwnSlot \cup IdleOps : LowByte(op) = OpCode[op]
         /\ \A op \in DOMAIN ShortConstant \cup {"Ldc_I4", "Ldc_I4_S"} : LowByte(op) = OpCode[op]
         /\ LowByte("Br_S") = 43 /\ LowByte("Brfalse_S") = 44 /\ LowByte("Brtrue_S") = 45
         /\ LowByte("Castclass") = 116 /\ LowByte("Isinst") = 117
    BY <1>2, <1>5, <1>7, <1>8, <1>9 DEF LowByte
  <1> HIDE DEF LowByte
  <1> QED  BY <1>3, <1>10, <1>11, <1>12, <1>13

\* No stack of n is more than one value deeper than in m.
Shrank(m, n) == n \in Machine /\ \A k \in Kinds : Len(n.stack[k]) <= Len(m.stack[k])
Grew(m, n)   == n \in Machine /\ \A k \in Kinds : Len(n.stack[k]) <= Len(m.stack[k]) + 1

LEMMA Growth ==
    ASSUME NEW m \in Machine, NEW n, Shrank(m, n), NEW k \in Kinds
    PROVE  /\ Shrank(m, Drop(n, k)) /\ Shrank(m, Drop2(n, k)) /\ Grew(m, n)
           /\ \A v \in Nat : Grew(m, Push(n, k, v))
           /\ \A t \in Nat : Shrank(m, Goto(n, t))
           /\ Shrank(m, Next1(n)) /\ Shrank(m, Faulted(n))
           /\ Shrank(m, [n EXCEPT !.running = FALSE])
           /\ \A v \in Words : Shrank(m, [n EXCEPT !.ret = v, !.running = FALSE])
           /\ \A v \in Nat : Shrank(m, [n EXCEPT !.retobj = v, !.running = FALSE])
  <1>1. \A x \in Machine, j \in Kinds : x.stack[j] \in Seq(Nat) /\ Len(x.stack[j]) \in Nat
    <2>1. \A x \in Machine : x.stack \in [Kinds -> Seq(Nat)]
      BY DEF Machine
    <2> QED  BY <2>1
  <1>2. n \in Machine /\ \A j \in Kinds : Len(n.stack[j]) <= Len(m.stack[j])
    BY DEF Shrank
  <1>3. \A s \in Seq(Nat) : Len(Shorter(s)) \in Nat /\ Len(Shorter(s)) <= Len(s)
    BY DEF Shorter
  <1>4. ASSUME NEW x, Shrank(m, x)
        PROVE  Shrank(m, Drop(x, k))
    <2>1. x \in Machine /\ \A j \in Kinds : Len(x.stack[j]) <= Len(m.stack[j])
      BY <1>4 DEF Shrank
    <2>2. /\ Drop(x, k) \in Machine /\ SameBut(k, x, Drop(x, k))
          /\ Drop(x, k).stack[k] = Shorter(x.stack[k])
      BY <2>1, Dropped
    <2> DEFINE d == Drop(x, k)
    <2> HIDE DEF d
    <2>3. \A j \in Kinds : Len(d.stack[j]) <= Len(m.stack[j])
      <3> SUFFICES ASSUME NEW j \in Kinds
                   PROVE  Len(d.stack[j]) <= Len(m.stack[j])
        OBVIOUS
      <3>1. d.stack[j] = x.stack[j] \/ d.stack[j] = Shorter(x.stack[j])
        BY <2>2 DEF SameBut, d
      <3>2. /\ x.stack[j] \in Seq(Nat) /\ Len(x.stack[j]) \in Nat /\ Len(m.stack[j]) \in Nat
            /\ Len(x.stack[j]) <= Len(m.stack[j])
        BY <1>1, <2>1
      <3>3. Len(Shorter(x.stack[j])) \in Nat /\ Len(Shorter(x.stack[j])) <= Len(x.stack[j])
        BY <1>3, <3>2
      <3> QED  BY <3>1, <3>2, <3>3
    <2> QED  BY <2>2, <2>3 DEF Shrank, d
  <1>5. Shrank(m, Drop(n, k)) /\ Shrank(m, Drop2(n, k))
    BY <1>4 DEF Drop2
  <1>6. Grew(m, n)
    BY <1>1, <1>2 DEF Grew
  <1>7. ASSUME NEW v \in Nat
        PROVE  Grew(m, Push(n, k, v))
    <2> DEFINE p == Push(n, k, v)
    <2>1. p \in Machine /\ SameBut(k, n, p) /\ p.stack[k] = Append(n.stack[k], v)
      BY <1>2, Pushed
    <2> HIDE DEF p
    <2>2. \A s \in Seq(Nat) : Len(Append(s, v)) = Len(s) + 1
      OBVIOUS
    <2>3. \A j \in Kinds : Len(p.stack[j]) <= Len(m.stack[j]) + 1
      <3> SUFFICES ASSUME NEW j \in Kinds
                   PROVE  Len(p.stack[j]) <= Len(m.stack[j]) + 1
        OBVIOUS
      <3>1. p.stack[j] = n.stack[j] \/ p.stack[j] = Append(n.stack[j], v)
        BY <2>1 DEF SameBut
      <3>2. /\ n.stack[j] \in Seq(Nat) /\ Len(n.stack[j]) \in Nat /\ Len(m.stack[j]) \in Nat
            /\ Len(n.stack[j]) <= Len(m.stack[j])
        BY <1>1, <1>2
      <3>3. Len(Append(n.stack[j], v)) = Len(n.stack[j]) + 1
        BY <2>2, <3>2
      <3> QED  BY <3>1, <3>2, <3>3
    <2> QED  BY <2>1, <2>3 DEF Grew, p
  <1>8. /\ \A t \in Nat : Shrank(m, Goto(n, t))
        /\ Shrank(m, Next1(n)) /\ Shrank(m, Faulted(n))
    <2>1. 0 \in Nat
      OBVIOUS
    <2> QED  BY <1>2, <2>1, Stepped DEF Shrank
  <1>9. /\ Shrank(m, [n EXCEPT !.running = FALSE])
        /\ \A v \in Words : Shrank(m, [n EXCEPT !.ret = v, !.running = FALSE])
        /\ \A v \in Nat : Shrank(m, [n EXCEPT !.retobj = v, !.running = FALSE])
    <2>1. /\ [n EXCEPT !.running = FALSE] \in Machine
          /\ [n EXCEPT !.running = FALSE].stack = n.stack
      BY <1>2 DEF Machine
    <2>2. ASSUME NEW v \in Words
          PROVE  /\ [n EXCEPT !.ret = v, !.running = FALSE] \in Machine
                 /\ [n EXCEPT !.ret = v, !.running = FALSE].stack = n.stack
      BY <1>2 DEF Machine
    <2>3. ASSUME NEW v \in Nat
          PROVE  /\ [n EXCEPT !.retobj = v, !.running = FALSE] \in Machine
                 /\ [n EXCEPT !.retobj = v, !.running = FALSE].stack = n.stack
      BY <1>2 DEF Machine
    <2> QED  BY <1>2, <2>1, <2>2, <2>3 DEF Shrank
  <1> QED  BY <1>5, <1>6, <1>7, <1>8, <1>9

\* No handler makes a stack more than one value deeper.
LEMMA HandlersGrow ==
    ASSUME NEW m, Sane(Words, m), NEW b, b.code \in Seq(Instr), m.pc < Len(b.code),
           NEW ins, ins = b.code[m.pc + 1], NEW h \in Handlers, NEW peek \in Words
    PROVE  Grew(m, Handle(m, b, ins, h, peek))
  <1> DEFINE n == Handle(m, b, ins, h, peek)
  <1>1. HPArm(m, b, ins, h, peek, n)
    BY HPArms
  <1>2. /\ m \in Machine /\ ins.arg \in Nat /\ DoubleOperand(m, b) \in Nat /\ 0 \in Nat
        /\ Kinds = {"i32", "u32", "f32", "f64", "obj"} /\ peek \in Nat
    BY DoublesAre, WordsAre DEF Sane, Kinds
  <1>3. NewAddress \in Nat
    BY MachineAssumption DEF MachineAssumption
  <1>4. /\ Words \in SUBSET Words /\ Top(m, "i32") \in Words /\ Top(m, "i32") \in Nat
        /\ Top(m, "obj") \in Nat
    BY <1>2, DropIsSane, WordsAre
  <1> HIDE DEF n
  <1>5. Shrank(m, m)
    <2>1. \A k \in Kinds : Len(m.stack[k]) <= Len(m.stack[k])
      <3>1. m.stack \in [Kinds -> Seq(Nat)]
        BY <1>2 DEF Machine
      <3>2. \A k \in Kinds : Len(m.stack[k]) \in Nat
        BY <3>1
      <3> QED  BY <3>2
    <2> QED  BY <1>2, <2>1 DEF Shrank
  <1>6. \A x, k : Shrank(m, x) /\ k \in Kinds =>
            /\ Shrank(m, Drop(x, k)) /\ Shrank(m, Drop2(x, k)) /\ Grew(m, x)
            /\ \A v \in Nat : Grew(m, Push(x, k, v))
            /\ \A t \in Nat : Shrank(m, Goto(x, t))
            /\ Shrank(m, Next1(x)) /\ Shrank(m, Faulted(x))
            /\ Shrank(m, [x EXCEPT !.running = FALSE])
            /\ \A v \in Words : Shrank(m, [x EXCEPT !.ret = v, !.running = FALSE])
            /\ \A v \in Nat : Shrank(m, [x EXCEPT !.retobj = v, !.running = FALSE])
    BY <1>2, Growth
  <1>7. "i32" \in Kinds /\ "f32" \in Kinds /\ "f64" \in Kinds /\ "obj" \in Kinds
    BY <1>2
  <1>8. \A x, k : Shrank(m, x) /\ k \in Kinds => \A v \in Nat : Grew(m, Push(x, k, v))
    BY <1>6
  <1>9. \A x : Shrank(m, x) => Grew(m, x)
    BY <1>6, <1>7
  <1>10. \A x, k : Shrank(m, x) /\ k \in Kinds => Shrank(m, Drop(x, k)) /\ Shrank(m, Drop2(x, k))
    BY <1>6
  <1>11. \A x : Shrank(m, x) =>
            /\ \A t \in Nat : Shrank(m, Goto(x, t))
            /\ Shrank(m, Next1(x)) /\ Shrank(m, Faulted(x))
            /\ Shrank(m, [x EXCEPT !.running = FALSE])
    BY <1>6, <1>7
  <1>12. \A x : Shrank(m, x) =>
            /\ \A v \in Words : Shrank(m, [x EXCEPT !.ret = v, !.running = FALSE])
            /\ \A v \in Nat : Shrank(m, [x EXCEPT !.retobj = v, !.running = FALSE])
    BY <1>6, <1>7
  <1>13. /\ Grew(m, Push(m, "i32", ins.arg)) /\ Grew(m, Push(m, "f32", ins.arg))
         /\ Grew(m, Push(m, "f64", DoubleOperand(m, b))) /\ Grew(m, Push(m, "obj", 0))
         /\ Grew(m, Push(m, "obj", NewAddress)) /\ Grew(m, HandleDup(m))
         /\ Grew(m, Push(Drop(m, "i32"), "obj", NewAddress))
    BY <1>2, <1>3, <1>4, <1>5, <1>7, <1>8, <1>9, <1>10 DEF HandleDup
  <1>14. /\ Shrank(m, Drop(m, "i32")) /\ Shrank(m, Drop2(m, "i32"))
         /\ Shrank(m, Drop(m, "obj")) /\ Shrank(m, Drop2(m, "obj"))
         /\ Shrank(m, Drop(Drop(m, "i32"), "obj")) /\ Shrank(m, Drop(Drop2(m, "i32"), "obj"))
    BY <1>5, <1>7, <1>10
  <1>15. Grew(m, HandleRet(m)) /\ Grew(m, [Drop(m, "obj") EXCEPT !.running = FALSE])
    BY <1>4, <1>5, <1>9, <1>11, <1>12, <1>14 DEF HandleRet
  <1>16. /\ Grew(m, Goto(m, ins.arg)) /\ Grew(m, Next1(m)) /\ Grew(m, Faulted(m))
         /\ \A rel : Grew(m, BranchIf(m, "i32", rel, ins.arg))
         /\ \A awaited : Grew(m, BranchOnTop(m, awaited, ins.arg))
    BY <1>2, <1>5, <1>9, <1>11, <1>14 DEF BranchIf, BranchOnTop
  <1>17. Grew(m, LoadField(m, ins.arg)) /\ Grew(m, HandlePop(m)) /\ Grew(m, m)
         /\ Grew(m, Drop(m, "obj")) /\ Grew(m, Drop2(m, "obj"))
    <2>1. Top(m, "obj") + ins.arg \in Nat
      BY <1>2, <1>4
    <2> QED  BY <1>5, <1>7, <1>8, <1>9, <1>14, <2>1 DEF LoadField, HandlePop
  <1>18. h \in {"Ldlen", "Ldelem", "Stelem"} => Grew(m, HandleArray(m, h, peek))
    BY <1>2, <1>7, <1>8, <1>9, <1>14, <1>16 DEF HandleArray
  <1>19. h \in BinaryOps => Grew(m, Computed(m, "i32", h))
    <2> SUFFICES ASSUME h \in BinaryOps
                 PROVE  Grew(m, Computed(m, "i32", h))
      OBVIOUS
    <2> DEFINE r == Arith[h][<<Below(m, "i32"), Top(m, "i32")>>]
    <2>1. Below(m, "i32") \in Words /\ Top(m, "i32") \in Words
      BY <1>4, <1>7, Drop2IsSane
    <2>2. Arith[h] \in [Words \X Words -> Words \cup {Trap}] /\ Words \subseteq Nat
      BY MachineAssumption, WordsAre DEF MachineAssumption
    <2>3. r \in Nat \/ r = Trap
      BY <2>1, <2>2
    <2> HIDE DEF r
    <2>4. r \in Nat => Grew(m, Push(Drop2(m, "i32"), "i32", r))
      BY <1>7, <1>8, <1>14
    <2> QED  BY <1>16, <2>3, <2>4 DEF Computed, r
  <1>20. h \in UnaryOps => Grew(m, ComputedUnary(m, h))
    <2> SUFFICES ASSUME h \in UnaryOps
                 PROVE  Grew(m, ComputedUnary(m, h))
      OBVIOUS
    <2> DEFINE r == Arith[h][<<Top(m, "i32"), 0>>]
    <2>1. Arith[h] \in [Words \X Words -> Words] /\ Words \subseteq Nat /\ 0 \in Words
      BY MachineAssumption, WordsAre DEF MachineAssumption
    <2>2. r \in Nat
      BY <1>4, <2>1
    <2> HIDE DEF r
    <2>3. Grew(m, Push(Drop(m, "i32"), "i32", r))
      BY <1>7, <1>8, <1>14, <2>2
    <2> QED  BY <2>3 DEF ComputedUnary, r
  <1>21. Grew(m, n)
    BY <1>1, <1>13, <1>15, <1>16, <1>17, <1>18, <1>19, <1>20 DEF HPArm
  <1> QED  BY <1>21 DEF n

\* Popping a value and pushing it again changes nothing.
LEMMA PutBack ==
    ASSUME NEW m \in Machine, NEW k \in Kinds, m.stack[k] # <<>>
    PROVE  Push(Drop(m, k), k, Top(m, k)) = m
  <1> DEFINE s == m.stack[k]
             d == Drop(m, k)
             p == Push(d, k, Top(m, k))
  <1>1. m.stack \in [Kinds -> Seq(Nat)]
    BY DEF Machine
  <1>2. s \in Seq(Nat) /\ s # <<>>
    BY <1>1
  <1>3. Append(Shorter(s), LastOr0(s)) = s
    <2> HIDE DEF s
    <2>1. Len(s) \in Nat /\ Len(s) > 0
      BY <1>2
    <2>2. /\ SubSeq(s, 1, Len(s) - 1) \in Seq(Nat) /\ Len(SubSeq(s, 1, Len(s) - 1)) = Len(s) - 1
          /\ \A i \in 1 .. Len(s) - 1 : SubSeq(s, 1, Len(s) - 1)[i] = s[i]
          /\ s[Len(s)] \in Nat
      <3> DEFINE l == Len(s) - 1
      <3>1. l \in Nat /\ l <= Len(s) /\ Len(s) \in 1 .. Len(s)
        BY <2>1
      <3>2. s[Len(s)] \in Nat
        BY <1>2, <3>1
      <3>3. \A i \in 1 .. l : s[i] \in Nat
        BY <1>2, <3>1
      <3> HIDE DEF l
      <3>4. SubSeq(s, 1, l) = [i \in 1 .. l |-> s[i]]
        BY <1>2, <3>1
      <3>5. SubSeq(s, 1, l) \in Seq(Nat) /\ Len(SubSeq(s, 1, l)) = l
        BY <1>2, <3>1, <3>3, <3>4
      <3> QED  BY <3>2, <3>4, <3>5 DEF l
    <2> DEFINE q == SubSeq(s, 1, Len(s) - 1)
    <2> HIDE DEF q
    <2>3. /\ q \in Seq(Nat) /\ Len(q) = Len(s) - 1 /\ s[Len(s)] \in Nat
          /\ \A i \in 1 .. Len(s) - 1 : q[i] = s[i]
      BY <2>2 DEF q
    <2>4. /\ Append(q, s[Len(s)]) \in Seq(Nat) /\ Len(Append(q, s[Len(s)])) = Len(s)
          /\ \A i \in 1 .. Len(s) : Append(q, s[Len(s)])[i] = s[i]
      BY <2>1, <2>3
    <2> DEFINE a == Append(q, s[Len(s)])
    <2> HIDE DEF a
    <2>5. /\ a \in Seq(Nat) /\ Len(a) = Len(s) /\ \A i \in 1 .. Len(s) : a[i] = s[i]
      BY <2>4 DEF a
    <2>6. a = s
      <3>1. a \in [1 .. Len(s) -> Nat] /\ s \in [1 .. Len(s) -> Nat]
        BY <1>2, <2>5
      <3> QED  BY <2>5, <3>1
    <2> QED  BY <1>2, <2>6 DEF Shorter, LastOr0, a, q
  <1>4. /\ d \in Machine /\ SameBut(k, m, d) /\ d.stack[k] = Shorter(s)
        /\ Top(m, k) = LastOr0(s) /\ Top(m, k) \in Nat
    BY Dropped
  <1> HIDE DEF d
  <1>5. p \in Machine /\ SameBut(k, d, p) /\ p.stack[k] = Append(d.stack[k], Top(m, k))
    BY <1>4, Pushed
  <1> HIDE DEF p
  <1>6. /\ p.pc = m.pc /\ p.running = m.running /\ p.fault = m.fault
        /\ p.locals = m.locals /\ p.ret = m.ret /\ p.retobj = m.retobj
        /\ \A j \in Kinds : p.stack[j] = m.stack[j]
    BY <1>3, <1>4, <1>5 DEF SameBut
  <1>7. p.stack = m.stack
    <2>1. p.stack \in [Kinds -> Seq(Nat)]
      BY <1>5 DEF Machine
    <2> QED  BY <1>1, <1>6, <2>1
  <1>8. p = m
    <2>1. \A x \in Machine :
            x = [pc |-> x.pc, running |-> x.running, fault |-> x.fault, stack |-> x.stack,
                 locals |-> x.locals, ret |-> x.ret, retobj |-> x.retobj]
      BY DEF Machine
    <2> QED  BY <1>5, <1>6, <1>7, <2>1, Zenon
  <1> QED  BY <1>8 DEF p, d

\* The stacks that both have.
Shared == Kinds \ {"u32"}

\* The same control, the same shared stacks and the same result.
HPAlike(m, n) == Alike(Shared, m, n) /\ n.ret = m.ret

LEMMA SharedAre == Shared \in SUBSET Kinds /\ Shared = {"i32", "f32", "f64", "obj"}
  BY DEF Shared, Kinds

LEMMA StillAlike ==
    ASSUME NEW m, NEW n, HPAlike(m, n), NEW m2, NEW n2, Follows(Shared, m, n, m2, n2)
    PROVE  HPAlike(m2, n2)
  BY DEF HPAlike, Follows

\* Dup, Pop and Ret, when the stacks are such that both do the same.
LEMMA ChoicesAgree ==
    ASSUME NEW m, NEW n, HPAlike(m, n)
    PROVE  /\ Depth(m, "i32") + Depth(m, "obj") > 0 => HPAlike(DupIntFirst(m), HandleDup(n))
           /\ Depth(m, "i32") = 0 => HPAlike(Drop(m, "obj"), HandlePop(n))
           /\ Depth(m, "i32") > 0 \/ Depth(m, "obj") = 0 => HPAlike(Returned(m), HandleRet(n))
  <1>1. /\ m \in Machine /\ n \in Machine /\ Words \in SUBSET Words /\ Words \subseteq Nat
        /\ 0 \in Nat /\ Alike(Shared, m, n)
    BY AlikeIs DEF HPAlike
  <1>2. /\ "i32" \in Kinds /\ "obj" \in Kinds /\ "i32" \in Shared /\ "obj" \in Shared
        /\ Shared \in SUBSET Kinds
    BY SharedAre DEF Kinds
  <1>3. n.stack["i32"] = m.stack["i32"] /\ n.stack["obj"] = m.stack["obj"]
    BY <1>1, <1>2 DEF Alike
  <1>4. /\ Depth(m, "i32") \in Nat /\ Depth(m, "obj") \in Nat
        /\ Depth(m, "i32") = 0 <=> m.stack["i32"] = <<>>
        /\ Depth(m, "obj") = 0 <=> m.stack["obj"] = <<>>
    <2>1. m.stack["i32"] \in Seq(Nat) /\ m.stack["obj"] \in Seq(Nat)
      BY <1>1, <1>2 DEF Machine
    <2> QED  BY <2>1 DEF Depth
  <1>5. /\ Follows(Shared, m, n, Drop(m, "i32"), Drop(n, "i32"))
        /\ Follows(Shared, m, n, Drop(m, "obj"), Drop(n, "obj"))
        /\ Top(n, "i32") = Top(m, "i32") /\ Top(n, "obj") = Top(m, "obj")
        /\ Top(m, "i32") \in Words /\ Top(m, "i32") \in Nat /\ Top(m, "obj") \in Nat
    BY <1>1, <1>2, AlikeDrop
  <1>6. ASSUME Depth(m, "i32") + Depth(m, "obj") > 0
        PROVE  HPAlike(DupIntFirst(m), HandleDup(n))
    <2>1. CASE m.stack["i32"] # <<>>
      <3>1. Follows(Shared, m, n, Push(m, "i32", Top(m, "i32")), Push(n, "i32", Top(m, "i32")))
        BY <1>1, <1>2, <1>5, AlikePush
      <3> QED  BY <1>3, <1>5, <2>1, <3>1, StillAlike DEF DupIntFirst, HandleDup
    <2>2. CASE m.stack["i32"] = <<>>
      <3>1. m.stack["obj"] # <<>>
        BY <1>4, <1>6, <2>2
      <3>2. Push(Drop(m, "obj"), "obj", Top(m, "obj")) = m
        BY <1>1, <1>2, <3>1, PutBack
      <3>3. Follows(Shared, m, n, Push(m, "obj", Top(m, "obj")), Push(n, "obj", Top(m, "obj")))
        <4>1. "obj" \notin {"i32", "u32"}
          OBVIOUS
        <4> QED  BY <1>1, <1>2, <1>5, <4>1, AlikePush
      <3>4. DupIntFirst(m) = Push(m, "obj", Top(m, "obj"))
        BY <2>2, <3>2 DEF DupIntFirst
      <3>5. HandleDup(n) = Push(n, "obj", Top(m, "obj"))
        BY <1>3, <1>5, <2>2, <3>1 DEF HandleDup
      <3> QED  BY <3>3, <3>4, <3>5, StillAlike
    <2> QED  BY <2>1, <2>2
  <1>7. ASSUME Depth(m, "i32") = 0
        PROVE  HPAlike(Drop(m, "obj"), HandlePop(n))
    BY <1>3, <1>4, <1>5, <1>7, StillAlike DEF HandlePop
  <1>8. ASSUME Depth(m, "i32") > 0 \/ Depth(m, "obj") = 0
        PROVE  HPAlike(Returned(m), HandleRet(n))
    <2>1. CASE m.stack["i32"] # <<>>
      <3> DEFINE v == Top(m, "i32")
                 dm == Drop(m, "i32")
                 dn == Drop(n, "i32")
                 rm == [dm EXCEPT !.ret = v, !.running = FALSE]
                 rn == [dn EXCEPT !.ret = v, !.running = FALSE]
      <3>1. Returned(m) = rm /\ HandleRet(n) = rn
        BY <1>3, <1>5, <2>1 DEF Returned, HandleRet
      <3>2. Alike(Shared, dm, dn) /\ v \in Words
        BY <1>5 DEF Follows
      <3> HIDE DEF dm, dn, v
      <3>3. dm \in Machine /\ dn \in Machine
        BY <3>2, AlikeIs
      <3>4. /\ rm.pc = dm.pc /\ rm.running = FALSE /\ rm.fault = dm.fault /\ rm.ret = v
            /\ rm.stack = dm.stack
            /\ rn.pc = dn.pc /\ rn.running = FALSE /\ rn.fault = dn.fault /\ rn.ret = v
            /\ rn.stack = dn.stack
        BY <3>3 DEF Machine
      <3>5. Sane(Words, rm) /\ Sane(Words, rn)
        BY <1>1, <3>2, StopIsSane DEF Alike
      <3> HIDE DEF rm, rn
      <3>6. HPAlike(rm, rn)
        BY <3>2, <3>4, <3>5 DEF HPAlike, Alike
      <3> QED  BY <3>1, <3>6
    <2>2. CASE m.stack["i32"] = <<>>
      <3>1. /\ Drop(m, "i32") = m
            /\ [m EXCEPT !.ret = m.ret, !.running = FALSE] = [m EXCEPT !.running = FALSE]
        BY <1>1, <1>2, <2>2, NothingToDrop
      <3>2. Returned(m) = [m EXCEPT !.running = FALSE]
        BY <2>2, <3>1 DEF Returned
      <3>3. HandleRet(n) = [n EXCEPT !.running = FALSE]
        BY <1>3, <1>4, <1>8, <2>2 DEF HandleRet
      <3>4. Follows(Shared, m, n, [m EXCEPT !.running = FALSE], [n EXCEPT !.running = FALSE])
        BY <1>1, AlikeStop
      <3> QED  BY <3>2, <3>3, <3>4, StillAlike
    <2> QED  BY <2>1, <2>2
  <1> QED  BY <1>6, <1>7, <1>8

\* One instruction that both read alike.
LEMMA HPDoesTheSame ==
    ASSUME NEW m, NEW n, HPAlike(m, n), NEW b, b.code \in Seq(Instr), m.pc < Len(b.code),
           NEW ins, ins = b.code[m.pc + 1], AlikeHP(m, ins), NEW p1, NEW p2
    PROVE  HPAlike(ExecuteInstruction(m, b, ins, p1),
                   Handle(n, b, ins, HandlerTable[LowByte(ins.op)], p2))
  <1> DEFINE h == HandlerTable[LowByte(ins.op)]
             a == ExecuteInstruction(m, b, ins, p1)
             c == Handle(n, b, ins, h, p2)
             op == ins.op
  <1>1. /\ m \in Machine /\ n \in Machine /\ Words \in SUBSET Words /\ Words \subseteq Nat
        /\ 0 \in Nat /\ 0 \in Words /\ Alike(Shared, m, n) /\ m.pc = n.pc
    BY AlikeIs, WordsAre DEF HPAlike, Alike
  <1>2. /\ Shared \in SUBSET Kinds /\ Shared = {"i32", "f32", "f64", "obj"}
        /\ "i32" \in Kinds /\ "f32" \in Kinds /\ "f64" \in Kinds /\ "obj" \in Kinds
    BY SharedAre DEF Kinds
  <1>3. ins.arg \in Words /\ ins.arg \in Nat /\ op \in DOMAIN OpCode /\ DoubleOperand(m, b) \in Nat
    BY <1>1, DoublesAre
  <1>4. HPArm(n, b, ins, h, p2, c)
    BY <1>3, HandlersAre, HPArms
  <1>5. DoubleOperand(n, b) = DoubleOperand(m, b)
    BY <1>1 DEF DoubleOperand
  <1>6. \/ op \in (Plain \ {"Ret", "Rethrow"}) \cup UnaryOps
                    \cup (BinaryOps \ {"Ceq", "Cgt", "Clt"})
        \/ op \in {"Break", "LDarg_0", "LDarg_2", "Ldc_I4_S", "Ldc_R8",
                   "Br_S", "Brfalse_S", "Brtrue_S", "Beq", "Bge", "Bgt", "Ble", "Blt", "Throw"}
        \/ op \in DOMAIN ShortConstant /\ ShortConstant[op] % WordMod = ins.arg
        \/ op = "Dup" /\ Depth(m, "i32") + Depth(m, "obj") > 0
        \/ op = "Pop" /\ Depth(m, "i32") = 0
        \/ op = "Ret" /\ (Depth(m, "i32") > 0 \/ Depth(m, "obj") = 0)
    BY DEF AlikeHP
  <1>7. /\ op \in OwnSlot => h = op
        /\ op \in IdleOps => h = "Nop"
        /\ op \in DOMAIN ShortConstant \cup {"Ldc_I4", "Ldc_I4_S"} => h = "Ldc_I4"
        /\ op = "Br_S" => h = "Br"
        /\ op = "Brfalse_S" => h = "Brfalse"
        /\ op = "Brtrue_S" => h = "Brtrue"
        /\ op = "Castclass" => h = "Isinst"
        /\ op = "Isinst" => h = "Castclass"
    BY HandlersFound
  <1>8. a = ExecuteInstruction(m, b, ins, p1)
    OBVIOUS
  <1> SUFFICES HPAlike(a, c)
    OBVIOUS
  <1> HIDE DEF h, a, c
  <1>9. /\ \A v \in Words : HPAlike(Push(m, "i32", v), Push(n, "i32", v))
        /\ \A v \in Nat : /\ HPAlike(Push(m, "f32", v), Push(n, "f32", v))
                          /\ HPAlike(Push(m, "f64", v), Push(n, "f64", v))
                          /\ HPAlike(Push(m, "obj", v), Push(n, "obj", v))
    <2>1. ASSUME NEW k \in Shared, NEW v \in Nat, k = "i32" => v \in Words
          PROVE  HPAlike(Push(m, k, v), Push(n, k, v))
      <3>1. k \in Kinds /\ (k \in {"i32", "u32"} => v \in Words)
        BY <1>2, <2>1
      <3>2. Follows(Shared, m, n, Push(m, k, v), Push(n, k, v))
        BY <1>1, <1>2, <3>1, AlikePush
      <3> QED  BY <3>2, StillAlike
    <2> QED  BY <1>1, <1>2, <2>1
  <1>10. CASE op \in IdleOps \cup {"Castclass", "Isinst"}
    <2>1. h \in {"Nop", "Isinst", "Castclass"}
      BY <1>7, <1>10
    <2>2. c = n
      BY <1>4, <2>1, NamesAre DEF HPArm, BinaryOps, UnaryOps
    <2>3. op \notin Listed
      BY <1>10, NamesAre DEF Listed, IdleOps, BinaryOps, UnaryOps, UnsignedOps, ArrayOps
    <2>4. a = m
      BY <1>8, <2>3, ClassicDoes
    <2> QED  BY <2>2, <2>4
  <1>11. CASE op \in DOMAIN ShortConstant \cup {"Ldc_I4", "Ldc_I4_S"}
    <2>1. h = "Ldc_I4"
      BY <1>7, <1>11
    <2>2. c = Push(n, "i32", ins.arg)
      BY <1>4, <2>1, NamesAre DEF HPArm, BinaryOps, UnaryOps
    <2>3. op \in DOMAIN ShortConstant => ShortConstant[op] % WordMod = ins.arg
      BY <1>6, NamesAre DEF Plain, BinaryOps, UnaryOps
    <2>4. a = Push(m, "i32", ins.arg)
      BY <1>8, <1>11, <2>3, ClassicDoes
    <2> QED  BY <1>3, <1>9, <2>2, <2>4
  <1>12. CASE op \in {"Ldc_R4", "Ldc_R8", "Ldsfld"}
    <2>1. h = op
      BY <1>7, <1>12 DEF OwnSlot
    <2>2. /\ op = "Ldc_R4" => c = Push(n, "f32", ins.arg)
          /\ op = "Ldc_R8" => c = Push(n, "f64", DoubleOperand(m, b))
          /\ op = "Ldsfld" => c = Push(n, "obj", 0)
      BY <1>4, <1>5, <1>12, <2>1, NamesAre DEF HPArm, BinaryOps, UnaryOps
    <2>3. /\ op = "Ldc_R4" => a = Push(m, "f32", ins.arg)
          /\ op = "Ldc_R8" => a = Push(m, "f64", DoubleOperand(m, b))
          /\ op = "Ldsfld" => a = Push(m, "obj", 0)
      BY <1>8, ClassicDoes
    <2> QED  BY <1>1, <1>3, <1>9, <1>12, <2>2, <2>3
  <1>13. CASE op \in BinaryOps \cup UnaryOps
    <2>1. h = op
      BY <1>6, <1>7, <1>13, NamesAre DEF OwnSlot, Plain, BinaryOps, UnaryOps
    <2>2. /\ op \in BinaryOps => c = Computed(n, "i32", op)
          /\ op \in UnaryOps => c = ComputedUnary(n, op)
      BY <1>4, <1>13, <2>1, NamesAre DEF HPArm, BinaryOps, UnaryOps
    <2>3. /\ op \in BinaryOps => a = Computed(m, "i32", op)
          /\ op \in UnaryOps => a = ComputedUnary(m, op)
      BY <1>8, ClassicDoes
    <2>4. /\ \A q \in BinaryOps : Follows(Shared, m, n, Computed(m, "i32", q), Computed(n, "i32", q))
          /\ \A q \in UnaryOps : Follows(Shared, m, n, ComputedUnary(m, q), ComputedUnary(n, q))
      BY <1>1, <1>2, AlikeComputed
    <2> QED  BY <1>13, <2>2, <2>3, <2>4, StillAlike
  <1>14. CASE op \in {"Br", "Br_S", "Brfalse", "Brfalse_S", "Brtrue", "Brtrue_S"}
    <2>1. /\ op \in {"Br", "Br_S"} => h = "Br"
          /\ op \in {"Brfalse", "Brfalse_S"} => h = "Brfalse"
          /\ op \in {"Brtrue", "Brtrue_S"} => h = "Brtrue"
      BY <1>7, <1>14 DEF OwnSlot
    <2>2. /\ op \in {"Br", "Br_S"} => c = Goto(n, ins.arg)
          /\ op \in {"Brfalse", "Brfalse_S"} => c = BranchOnTop(n, "zero", ins.arg)
          /\ op \in {"Brtrue", "Brtrue_S"} => c = BranchOnTop(n, "nonzero", ins.arg)
      BY <1>4, <2>1, NamesAre DEF HPArm, BinaryOps, UnaryOps
    <2>3. /\ op \in {"Br", "Br_S"} => a = Goto(m, ins.arg)
          /\ op \in {"Brfalse", "Brfalse_S"} => a = BranchOnTop(m, "zero", ins.arg)
          /\ op \in {"Brtrue", "Brtrue_S"} => a = BranchOnTop(m, "nonzero", ins.arg)
      BY <1>8, ClassicDoes
    <2>4. /\ Follows(Shared, m, n, Goto(m, ins.arg), Goto(n, ins.arg))
          /\ \A awaited : Follows(Shared, m, n, BranchOnTop(m, awaited, ins.arg),
                                                BranchOnTop(n, awaited, ins.arg))
      BY <1>1, <1>2, <1>3, AlikeStep, AlikeBranch
    <2> QED  BY <1>14, <2>2, <2>3, <2>4, StillAlike
  <1>15. CASE op \in DOMAIN Relation
    <2>1. h = op
      BY <1>7, <1>15, NamesAre DEF OwnSlot
    <2>2. c = BranchIf(n, "i32", Relation[op], ins.arg)
      BY <1>4, <1>15, <2>1, NamesAre DEF HPArm, BinaryOps, UnaryOps
    <2>3. op \in DOMAIN SignedBranch /\ SignedBranch[op] = Relation[op]
      BY <1>15, NamesAre
    <2>4. a = BranchIf(m, "i32", Relation[op], ins.arg)
      BY <1>8, <2>3, ClassicDoes
    <2>5. \A rel : Follows(Shared, m, n, BranchIf(m, "i32", rel, ins.arg),
                                         BranchIf(n, "i32", rel, ins.arg))
      BY <1>1, <1>2, <1>3, AlikeBranch
    <2> QED  BY <2>2, <2>4, <2>5, StillAlike
  <1>16. CASE op \in {"Ldfld", "Stfld", "Stsfld"}
    <2>1. h = op
      BY <1>7, <1>16 DEF OwnSlot
    <2>2. /\ op = "Ldfld" => c = LoadField(n, ins.arg)
          /\ op = "Stfld" => c = Drop2(n, "obj")
          /\ op = "Stsfld" => c = Drop(n, "obj")
      BY <1>4, <1>16, <2>1, NamesAre DEF HPArm, BinaryOps, UnaryOps
    <2>3. /\ op = "Ldfld" => a = LoadField(m, ins.arg)
          /\ op = "Stfld" => a = Drop2(m, "obj")
          /\ op = "Stsfld" => a = Drop(m, "obj")
      BY <1>8, ClassicDoes
    <2>4. /\ Follows(Shared, m, n, LoadField(m, ins.arg), LoadField(n, ins.arg))
          /\ Follows(Shared, m, n, Drop2(m, "obj"), Drop2(n, "obj"))
          /\ Follows(Shared, m, n, Drop(m, "obj"), Drop(n, "obj"))
      BY <1>1, <1>2, <1>3, AlikeLoad, AlikeDrop, AlikeDrop2
    <2> QED  BY <1>16, <2>2, <2>3, <2>4, StillAlike
  <1>17. CASE op \in {"Dup", "Pop", "Ret"}
    <2>1. h = op
      BY <1>7, <1>17 DEF OwnSlot
    <2>2. /\ op = "Dup" => c = HandleDup(n)
          /\ op = "Pop" => c = HandlePop(n)
          /\ op = "Ret" => c = HandleRet(n)
      BY <1>4, <1>17, <2>1, NamesAre DEF HPArm, BinaryOps, UnaryOps
    <2>3. /\ op = "Dup" => a = DupIntFirst(m)
          /\ op = "Pop" => a = Drop(m, "obj")
          /\ op = "Ret" => a = Returned(m)
      BY <1>8, ClassicDoes
    <2>4. /\ op = "Dup" => Depth(m, "i32") + Depth(m, "obj") > 0
          /\ op = "Pop" => Depth(m, "i32") = 0
          /\ op = "Ret" => Depth(m, "i32") > 0 \/ Depth(m, "obj") = 0
      BY <1>6, NamesAre DEF Plain, BinaryOps, UnaryOps
    <2> QED  BY <1>17, <2>2, <2>3, <2>4, ChoicesAgree
  <1>18. CASE op = "Throw"
    <2>1. h = "Throw"
      BY <1>7, <1>18 DEF OwnSlot
    <2>2. c = [Drop(n, "obj") EXCEPT !.running = FALSE]
      BY <1>4, <2>1, NamesAre DEF HPArm, BinaryOps, UnaryOps
    <2>3. a = [Drop(m, "obj") EXCEPT !.running = FALSE]
      <3>1. ClassicArm(m, b, ins, p1, a)
        BY <1>8, ClassicArms
      <3> QED  BY <1>18, <3>1, NamesAre
               DEF ClassicArm, BinaryOps, UnaryOps, UnsignedOps, ArrayOps, Listed
    <2>4. Follows(Shared, m, n, Drop(m, "obj"), Drop(n, "obj"))
      BY <1>1, <1>2, AlikeDrop
    <2>5. HPAlike(Drop(m, "obj"), Drop(n, "obj"))
      BY <2>4, StillAlike
    <2>6. Follows(Shared, Drop(m, "obj"), Drop(n, "obj"),
                  [Drop(m, "obj") EXCEPT !.running = FALSE],
                  [Drop(n, "obj") EXCEPT !.running = FALSE])
      BY <2>5, AlikeStop DEF HPAlike
    <2> QED  BY <1>18, <2>2, <2>3, <2>5, <2>6, StillAlike
  <1>19. op \in Plain \ {"Ret", "Rethrow"} =>
            op \in IdleOps \cup {"Castclass", "Isinst", "Ldc_I4", "Ldc_R4", "Ldsfld", "Br", "Brfalse",
                                 "Brtrue", "Ldfld", "Stfld", "Stsfld"}
    BY DEF Plain, IdleOps
  <1>20. \/ op \in IdleOps \cup {"Castclass", "Isinst"}
         \/ op \in DOMAIN ShortConstant \cup {"Ldc_I4", "Ldc_I4_S"}
         \/ op \in {"Ldc_R4", "Ldc_R8", "Ldsfld"}
         \/ op \in BinaryOps \cup UnaryOps
         \/ op \in {"Br", "Br_S", "Brfalse", "Brfalse_S", "Brtrue", "Brtrue_S"}
         \/ op \in DOMAIN Relation
         \/ op \in {"Ldfld", "Stfld", "Stsfld"} \/ op \in {"Dup", "Pop", "Ret"} \/ op = "Throw"
    BY <1>6, <1>19, NamesAre DEF IdleOps
  <1> HIDE DEF op
  <1> QED  BY <1>10, <1>11, <1>12, <1>13, <1>14, <1>15, <1>16, <1>17, <1>18, <1>20

\* One round of both loops.
LEMMA HPStepsAgree ==
    ASSUME NEW m, NEW n, HPAlike(m, n), Sane({}, n), NEW b, b.code \in Seq(Instr),
           NEW p1 \in Words, NEW p2 \in Words,
           InLoop(m, b) => AlikeHP(m, b.code[m.pc + 1])
    PROVE  HPAlike(InterpreterStep(m, b, p1), HPStep(n, b, p2))
  <1>1. /\ m \in Machine /\ n \in Machine /\ Words \in SUBSET Words /\ {} \in SUBSET Words
        /\ Alike(Shared, m, n) /\ n.pc = m.pc /\ n.running = m.running /\ 0 \in Nat
    BY AlikeIs DEF HPAlike, Alike
  <1>2. InLoop(n, b) <=> InLoop(m, b)
    BY <1>1 DEF InLoop
  <1>3. CASE ~InLoop(m, b)
    BY <1>2, <1>3 DEF InterpreterStep, HPStep
  <1>4. CASE InLoop(m, b)
    <2> DEFINE ins == b.code[m.pc + 1]
               h == HandlerTable[LowByte(ins.op)]
               a == ExecuteInstruction(m, b, ins, p1)
               c == Handle(n, b, ins, h, p2)
    <2>1. m.pc < Len(b.code) /\ n.pc < Len(b.code) /\ ins = b.code[n.pc + 1]
      BY <1>1, <1>4 DEF InLoop
    <2>2. AlikeHP(m, ins)
      BY <1>4
    <2>3. h \in Handlers
      <3>1. ins.op \in DOMAIN OpCode
        BY <1>1, <2>1, DoublesAre
      <3> QED  BY <3>1, HandlersAre
    <2>4. InterpreterStep(m, b, p1) = IF a.fault THEN a ELSE Next1(a)
      BY <1>4 DEF InterpreterStep
    <2>5. HPStep(n, b, p2) =
            IF ~Enough(n, h) THEN Faulted(n)
            ELSE IF c.fault THEN c
            ELSE IF \E k \in Kinds : Len(c.stack[k]) > Capacity[k] THEN Faulted(c) ELSE Next1(c)
      BY <1>2, <1>4, <2>1 DEF HPStep
    <2>6. HPAlike(a, c)
      BY <2>1, <2>2, HPDoesTheSame
    <2>7. Grew(n, c) /\ Sane({}, c)
      BY <1>1, <2>1, <2>3, HandlersGrow, HPIsSane DEF Alike
    <2> HIDE DEF a, c, h, ins
    <2>8. Enough(n, h)
      <3>1. Enough(m, h)
        BY <2>2 DEF AlikeHP, h
      <3>2. n.stack["i32"] = m.stack["i32"] /\ n.stack["obj"] = m.stack["obj"]
        BY <1>1, SharedAre DEF Alike
      <3> QED  BY <3>1, <3>2 DEF Enough
    <2>9. ASSUME NEW k \in Kinds
          PROVE  ~ (Len(c.stack[k]) > Capacity[k])
      <3>1. Capacity[k] \in Nat
        BY CapacityAssumption DEF CapacityAssumption
      <3>2. CASE k = "u32"
        <4>1. c.stack["u32"] \in Seq({})
          BY <2>7 DEF Sane
        <4>2. Len(c.stack["u32"]) = 0
          BY <4>1
        <4> QED  BY <3>1, <3>2, <4>2
      <3>3. CASE k # "u32"
        <4>1. k \in Shared
          BY <3>3 DEF Shared
        <4>2. n.stack[k] = m.stack[k] /\ n.stack[k] \in Seq(Nat) /\ c.stack[k] \in Seq(Nat)
          <5>1. n.stack[k] = m.stack[k]
            BY <1>1, <4>1 DEF Alike
          <5>2. c \in Machine
            BY <2>7 DEF Grew
          <5> QED  BY <1>1, <5>1, <5>2 DEF Machine
        <4>3. Len(m.stack[k]) < Capacity[k]
          BY <2>2 DEF AlikeHP, Depth
        <4>4. Len(c.stack[k]) <= Len(n.stack[k]) + 1
          BY <2>7 DEF Grew
        <4>5. Len(c.stack[k]) \in Nat /\ Len(n.stack[k]) \in Nat
          BY <4>2
        <4> QED  BY <3>1, <4>2, <4>3, <4>4, <4>5
      <3> QED  BY <3>2, <3>3
    <2>10. HPStep(n, b, p2) = IF c.fault THEN c ELSE Next1(c)
      BY <2>5, <2>8, <2>9
    <2>11. a.fault = c.fault
      BY <2>6 DEF HPAlike, Alike
    <2>12. HPAlike(Next1(a), Next1(c))
      <3>1. Alike(Shared, a, c)
        BY <2>6 DEF HPAlike
      <3>2. Follows(Shared, a, c, Next1(a), Next1(c))
        BY <1>1, <3>1, AlikeStep
      <3> QED  BY <2>6, <3>2, StillAlike
    <2> QED  BY <2>4, <2>6, <2>10, <2>11, <2>12
  <1> QED  BY <1>3, <1>4

\* A new machine and Execute start both alike.
LEMMA HPStartsAlike ==
    /\ HPAlike(NewMachine, NewMachine)
    /\ \A m, n, b, args : HPAlike(m, n) /\ b.locals \in Nat /\ args \in Seq(Nat)
                            => HPAlike(Execute(m, b, args), HPExecute(n))
  <1>1. Words \in SUBSET Words
    OBVIOUS
  <1>2. Sane(Words, NewMachine)
    <2>1. NewMachine \in Machine
      <3>1. 0 \in Words /\ [k \in Kinds |-> <<>>] \in [Kinds -> Seq(Nat)] /\ <<>> \in Seq(Nat)
        BY WordsAre
      <3> QED  BY <3>1 DEF NewMachine, Machine
    <2> DEFINE b == [code |-> <<>>, locals |-> 0]
    <2>2. b.locals \in Nat /\ <<>> \in Seq(Nat)
      OBVIOUS
    <2> QED  BY <2>1, <2>2, <1>1, ExecuteIsSane
  <1>3. HPAlike(NewMachine, NewMachine)
    BY <1>2 DEF HPAlike, Alike
  <1>4. ASSUME NEW m, NEW n, HPAlike(m, n), NEW b, b.locals \in Nat, NEW args \in Seq(Nat)
        PROVE  HPAlike(Execute(m, b, args), HPExecute(n))
    <2> DEFINE s == [k \in Kinds |-> <<>>]
               x == Execute(m, b, args)
               y == HPExecute(n)
    <2>1. /\ m \in Machine /\ n \in Machine /\ n.fault = m.fault /\ n.ret = m.ret
          /\ s \in [Kinds -> Seq(Nat)]
      <3>1. Alike(Shared, m, n) /\ n.ret = m.ret
        BY <1>4 DEF HPAlike
      <3>2. m \in Machine /\ n \in Machine /\ n.fault = m.fault
        BY <3>1, AlikeIs DEF Alike
      <3> QED  BY <3>1, <3>2
    <2>2. Sane(Words, x) /\ Sane(Words, y)
      BY <1>1, <1>4, <2>1, ExecuteIsSane
    <2>3. x.pc = 0 /\ x.running /\ x.fault = m.fault /\ x.ret = m.ret /\ x.stack = s
      BY <1>4, <2>1, Executed
    <2>4. y.pc = 0 /\ y.running /\ y.fault = n.fault /\ y.ret = n.ret /\ y.stack = s
      <3>1. y = [n EXCEPT !.pc = 0, !.running = TRUE, !.stack = s]
        BY DEF HPExecute
      <3> HIDE DEF s, y
      <3> QED  BY <2>1, <3>1 DEF Machine
    <2>5. x.running = TRUE /\ y.running = TRUE
      <3>1. x.running \in BOOLEAN /\ y.running \in BOOLEAN
        BY <1>1, <2>2, SaneIs
      <3> QED  BY <2>3, <2>4, <3>1
    <2> HIDE DEF s, x, y
    <2>6. HPAlike(x, y)
      BY <2>1, <2>2, <2>3, <2>4, <2>5 DEF HPAlike, Alike
    <2> QED  BY <2>6 DEF x, y
  <1> QED  BY <1>3, <1>4

\* The high-performance interpreter has the same control, stacks and result as
\* the classic one until an instruction comes that it reads differently, or a
\* stack is empty or full: no handler it shares needs more than AlikeHP grants,
\* and none pushes more than one value.
THEOREM HPFollows == Spec => []HPAgrees
  <1> DEFINE HPInv == alikeHp => HPAlike(sw, hp)
  <1>1. Init => HPInv
    BY HPStartsAlike DEF Init
  <1>2. TypesInv /\ HPInv /\ [Next]_vars => HPInv'
    <2> SUFFICES ASSUME TypesInv, HPInv, [Next]_vars, alikeHp'
                 PROVE  HPAlike(sw', hp')
      OBVIOUS
    <2>1. CASE StepAll
      <3>1. PICK p \in [{"sw", "th", "hp", "fresh"} -> Peeks] :
                    /\ sw' = InterpreterStep(sw, body, p["sw"])
                    /\ hp' = HPStep(hp, body, p["hp"])
        BY <2>1 DEF StepAll
      <3>2. alikeHp' = (alikeHp /\ (InLoop(sw, body) => AlikeHP(sw, Current)))
        BY <2>1 DEF StepAll, Current
      <3>3. HPAlike(sw, hp) /\ (InLoop(sw, body) => AlikeHP(sw, body.code[sw.pc + 1]))
        BY <3>2 DEF Current
      <3>4. p["sw"] \in Words /\ p["hp"] \in Words
        BY ProgramsAre
      <3>5. body.code \in Seq(Instr) /\ Sane({}, hp)
        BY DEF TypesInv
      <3>6. HPAlike(InterpreterStep(sw, body, p["sw"]), HPStep(hp, body, p["hp"]))
        BY <3>3, <3>4, <3>5, HPStepsAgree
      <3> QED  BY <3>1, <3>6
    <2>2. ASSUME NEW b \in Bodies, NEW args \in ArgLists, ExecuteAll(b, args)
          PROVE  HPAlike(sw', hp')
      <3>1. /\ alikeHp' = alikeHp /\ sw' = Execute(sw, b, args) /\ hp' = HPExecute(hp)
        BY <2>2 DEF ExecuteAll
      <3>2. HPAlike(sw, hp) /\ b.locals \in Nat /\ args \in Seq(Nat)
        BY <3>1, ProgramsAre
      <3> QED  BY <3>1, <3>2, HPStartsAlike
    <2>3. CASE UNCHANGED vars
      BY <2>3 DEF vars
    <2> QED  BY <2>1, <2>2, <2>3 DEF Next
  <1>3. HPInv => HPAgrees
    BY DEF HPAgrees, HPAlike, Alike, Shared
  <1> HIDE DEF HPInv
  <1> QED  BY <1>1, <1>2, <1>3, SaneAlways, PTL DEF Spec

-------------------------------------------------------------------------------
(* Execute forgets *)

\* n, an interpreter constructed for this method, against the used m: the same
\* control and stacks, the same value in every local that the method has set,
\* and a result, once n has one.
Forgot(W, m, n) ==
    /\ Alike(Kinds, m, n) /\ (n.ret # 0 => m.ret = n.ret)
    /\ Len(n.locals) = Len(m.locals)
    /\ \A i \in W \cap DOMAIN m.locals : m.locals[i] = n.locals[i]

LEMMA StillForgot ==
    ASSUME NEW W, NEW m, NEW n, Forgot(W, m, n), NEW m2, NEW n2, Follows(Kinds, m, n, m2, n2)
    PROVE  Forgot(W, m2, n2)
  BY DEF Forgot, Follows

\* Loads and stores are told apart, and the switch handles both as LocalOps.
LEMMA LoadsAndStores ==
    /\ \A op : Stores(op) => ~Loads(op) /\ op \in LocalOps
    /\ \A op \in LocalOps : Loads(op) \/ Stores(op)
  BY DEF Loads, Stores, LocalOps, ShortLoad, ShortStore

\* A load of a local that the method has set, and every store.
LEMMA LocalForgets ==
    ASSUME NEW W, NEW m, NEW n, Forgot(W, m, n), NEW ins, ins.arg \in Nat, ins.op \in LocalOps,
           Loads(ins.op) /\ LocalOf(ins) <= Len(m.locals) => LocalOf(ins) \in W
    PROVE  Forgot(IF Stores(ins.op) THEN W \cup {LocalOf(ins)} ELSE W,
                  LocalAccess(m, ins), LocalAccess(n, ins))
  <1> DEFINE i == LocalOf(ins)
             W2 == IF Stores(ins.op) THEN W \cup {i} ELSE W
  <1>1. /\ m \in Machine /\ n \in Machine /\ Alike(Kinds, m, n) /\ Len(n.locals) = Len(m.locals)
        /\ i \in Nat \ {0} /\ "obj" \in Kinds /\ Kinds \in SUBSET Kinds
    BY AlikeIs, LocalsAreCounted DEF Forgot, Kinds
  <1>2. /\ m.locals \in Seq(Nat) /\ n.locals \in Seq(Nat) /\ Len(m.locals) \in Nat
        /\ DOMAIN m.locals = 1 .. Len(m.locals) /\ DOMAIN n.locals = 1 .. Len(m.locals)
    <2>1. m.locals \in Seq(Nat) /\ n.locals \in Seq(Nat)
      BY <1>1 DEF Machine
    <2> QED  BY <1>1, <2>1
  <1> HIDE DEF i
  <1>3. CASE i > Len(m.locals)
    <2>1. LocalAccess(m, ins) = m /\ LocalAccess(n, ins) = n
      BY <1>1, <1>2, <1>3 DEF LocalAccess, i
    <2>2. i \notin DOMAIN m.locals
      BY <1>1, <1>2, <1>3
    <2>3. Forgot(W2, m, n)
      BY <2>2 DEF Forgot
    <2> QED  BY <2>1, <2>3 DEF i
  <1>4. CASE i <= Len(m.locals) /\ Loads(ins.op)
    <2>1. i \in W /\ i \in DOMAIN m.locals /\ i \in 1 .. Len(m.locals) /\ ~Stores(ins.op)
      BY <1>1, <1>2, <1>4, LoadsAndStores DEF i
    <2>2. m.locals[i] = n.locals[i] /\ m.locals[i] \in Nat
      BY <1>2, <2>1 DEF Forgot
    <2>3. ~ (i > Len(m.locals)) /\ ~ (i > Len(n.locals)) /\ i <= Len(n.locals)
      BY <1>1, <1>2, <1>4
    <2>4. /\ LocalAccess(m, ins) = Push(m, "obj", m.locals[i])
          /\ LocalAccess(n, ins) = Push(n, "obj", n.locals[i])
      BY <1>4, <2>3 DEF LocalAccess, i
    <2>5. Follows(Kinds, m, n, Push(m, "obj", m.locals[i]), Push(n, "obj", m.locals[i]))
      <3> DEFINE v == m.locals[i]
      <3>1. v \in Nat /\ "obj" \notin {"i32", "u32"}
        BY <2>2
      <3> HIDE DEF v
      <3>2. Follows(Kinds, m, n, Push(m, "obj", v), Push(n, "obj", v))
        BY <1>1, <3>1, AlikePush
      <3> QED  BY <3>2 DEF v
    <2>6. Forgot(W, LocalAccess(m, ins), LocalAccess(n, ins))
      BY <2>2, <2>4, <2>5, StillForgot
    <2> QED  BY <2>1, <2>6
  <1>5. CASE i <= Len(m.locals) /\ Stores(ins.op)
    <2>1. i \in 1 .. Len(m.locals) /\ i \in 1 .. Len(n.locals) /\ ~Loads(ins.op)
      BY <1>1, <1>2, <1>5, LoadsAndStores
    <2>2. LocalAccess(m, ins) = Stored(m, i) /\ LocalAccess(n, ins) = Stored(n, i)
      <3>1. ~ (i > Len(m.locals)) /\ ~ (i > Len(n.locals))
        BY <1>1, <1>2, <1>5
      <3> QED  BY <2>1, <3>1 DEF LocalAccess, Stored, i
    <2> DEFINE x == Stored(m, i)
               y == Stored(n, i)
               v == Top(m, "obj")
    <2>3. /\ x \in Machine /\ x.pc = m.pc /\ x.running = m.running /\ x.fault = m.fault
          /\ x.ret = m.ret /\ x.stack = Drop(m, "obj").stack
          /\ x.locals = [m.locals EXCEPT ![i] = v]
      BY <1>1, <2>1, StoreIs
    <2>4. /\ y \in Machine /\ y.pc = n.pc /\ y.running = n.running /\ y.fault = n.fault
          /\ y.ret = n.ret /\ y.stack = Drop(n, "obj").stack
          /\ y.locals = [n.locals EXCEPT ![i] = Top(n, "obj")]
      BY <1>1, <2>1, StoreIs
    <2>5. Follows(Kinds, m, n, Drop(m, "obj"), Drop(n, "obj")) /\ Top(n, "obj") = v /\ v \in Nat
      BY <1>1, AlikeDrop
    <2> HIDE DEF x, y, v
    <2>6. Alike(Kinds, x, y)
      BY <1>1, <2>3, <2>4, <2>5 DEF Follows, Alike, Sane
    <2>7. /\ Len(x.locals) = Len(m.locals) /\ Len(y.locals) = Len(m.locals)
          /\ DOMAIN x.locals = DOMAIN m.locals
          /\ \A j \in DOMAIN m.locals : /\ x.locals[j] = IF j = i THEN v ELSE m.locals[j]
                                        /\ y.locals[j] = IF j = i THEN v ELSE n.locals[j]
      <3>1. \A s \in Seq(Nat) : \A j \in 1 .. Len(s) :
                /\ Len([s EXCEPT ![j] = v]) = Len(s) /\ DOMAIN [s EXCEPT ![j] = v] = DOMAIN s
                /\ \A q \in DOMAIN s : [s EXCEPT ![j] = v][q] = IF q = j THEN v ELSE s[q]
        BY <2>5
      <3>2. x.locals = [m.locals EXCEPT ![i] = v] /\ y.locals = [n.locals EXCEPT ![i] = v]
        BY <2>3, <2>4, <2>5, Zenon
      <3>3. /\ Len(x.locals) = Len(m.locals) /\ DOMAIN x.locals = DOMAIN m.locals
            /\ \A j \in DOMAIN m.locals : x.locals[j] = IF j = i THEN v ELSE m.locals[j]
        BY <1>2, <2>1, <3>1, <3>2
      <3>4. /\ Len(y.locals) = Len(n.locals)
            /\ \A j \in DOMAIN n.locals : y.locals[j] = IF j = i THEN v ELSE n.locals[j]
        BY <1>2, <2>1, <3>1, <3>2
      <3> QED  BY <1>1, <1>2, <3>3, <3>4, Zenon
    <2>8. \A j \in (W \cup {i}) \cap DOMAIN x.locals : x.locals[j] = y.locals[j]
      BY <2>7 DEF Forgot
    <2>9. Forgot(W \cup {i}, x, y)
      BY <2>3, <2>4, <2>6, <2>7, <2>8 DEF Forgot
    <2> QED  BY <1>5, <2>2, <2>9 DEF x, y, i
  <1> QED  BY <1>1, <1>2, <1>3, <1>4, <1>5, LoadsAndStores

\* Dup, Ret and Throw.
LEMMA ReturnForgets ==
    ASSUME NEW W, NEW m, NEW n, Forgot(W, m, n)
    PROVE  /\ Forgot(W, DupIntFirst(m), DupIntFirst(n))
           /\ Forgot(W, Returned(m), Returned(n))
           /\ Forgot(W, [Drop(m, "obj") EXCEPT !.running = FALSE],
                        [Drop(n, "obj") EXCEPT !.running = FALSE])
  <1>1. /\ m \in Machine /\ n \in Machine /\ Words \in SUBSET Words /\ Words \subseteq Nat
        /\ Alike(Kinds, m, n) /\ Kinds \in SUBSET Kinds /\ "i32" \in Kinds /\ "obj" \in Kinds
        /\ n.stack["i32"] = m.stack["i32"]
    BY AlikeIs DEF Forgot, Alike, Kinds
  <1>2. /\ Follows(Kinds, m, n, Drop(m, "i32"), Drop(n, "i32"))
        /\ Follows(Kinds, m, n, Drop(m, "obj"), Drop(n, "obj"))
        /\ Top(n, "i32") = Top(m, "i32") /\ Top(n, "obj") = Top(m, "obj")
        /\ Top(m, "i32") \in Words /\ Top(m, "i32") \in Nat /\ Top(m, "obj") \in Nat
    BY <1>1, AlikeDrop
  <1>3. Forgot(W, DupIntFirst(m), DupIntFirst(n))
    <2>1. CASE m.stack["i32"] # <<>>
      <3>1. Follows(Kinds, m, n, Push(m, "i32", Top(m, "i32")), Push(n, "i32", Top(m, "i32")))
        BY <1>1, <1>2, AlikePush
      <3> QED  BY <1>1, <1>2, <2>1, <3>1, StillForgot DEF DupIntFirst
    <2>2. CASE m.stack["i32"] = <<>>
      <3> DEFINE v == Top(m, "obj")
                 dm == Drop(m, "obj")
                 dn == Drop(n, "obj")
      <3>1. v \in Nat /\ "obj" \notin {"i32", "u32"} /\ Follows(Kinds, m, n, dm, dn)
        BY <1>2
      <3>2. /\ DupIntFirst(m) = Push(Push(dm, "obj", v), "obj", v)
            /\ DupIntFirst(n) = Push(Push(dn, "obj", v), "obj", v)
        BY <1>1, <1>2, <2>2 DEF DupIntFirst
      <3> HIDE DEF v, dm, dn
      <3>3. Follows(Kinds, dm, dn, Push(dm, "obj", v), Push(dn, "obj", v))
        BY <1>1, <3>1, AlikePush DEF Follows
      <3>4. Follows(Kinds, Push(dm, "obj", v), Push(dn, "obj", v),
                    Push(Push(dm, "obj", v), "obj", v), Push(Push(dn, "obj", v), "obj", v))
        <4>1. Alike(Kinds, Push(dm, "obj", v), Push(dn, "obj", v))
          BY <3>3 DEF Follows
        <4> QED  BY <1>1, <3>1, <4>1, AlikePush
      <3>5. Follows(Kinds, m, n, Push(Push(dm, "obj", v), "obj", v),
                                 Push(Push(dn, "obj", v), "obj", v))
        BY <3>1, <3>3, <3>4, Onwards
      <3> QED  BY <3>2, <3>5, StillForgot
    <2> QED  BY <2>1, <2>2
  <1>4. Forgot(W, Returned(m), Returned(n))
    <2> DEFINE v == Top(m, "i32")
               dm == Drop(m, "i32")
               dn == Drop(n, "i32")
               rm == IF m.stack["i32"] = <<>> THEN dm.ret ELSE v
               rn == IF m.stack["i32"] = <<>> THEN dn.ret ELSE v
               x == [dm EXCEPT !.ret = rm, !.running = FALSE]
               y == [dn EXCEPT !.ret = rn, !.running = FALSE]
    <2>1. Returned(m) = x /\ Returned(n) = y
      BY <1>1, <1>2 DEF Returned
    <2>2. Forgot(W, dm, dn) /\ v \in Words
      BY <1>2, StillForgot
    <2> HIDE DEF dm, dn, v
    <2>3. Alike(Kinds, dm, dn) /\ Sane(Words, dm) /\ Sane(Words, dn)
      BY <2>2 DEF Forgot, Alike
    <2>4. dm \in Machine /\ dn \in Machine /\ dm.ret \in Words /\ dn.ret \in Words
      BY <1>1, <2>3, SaneIs
    <2>5. rm \in Words /\ rn \in Words /\ (rn # 0 => rm = rn)
      BY <2>2, <2>4 DEF Forgot
    <2> HIDE DEF rm, rn
    <2>6. /\ x.pc = dm.pc /\ x.running = FALSE /\ x.fault = dm.fault /\ x.ret = rm
          /\ x.stack = dm.stack /\ x.locals = dm.locals
          /\ y.pc = dn.pc /\ y.running = FALSE /\ y.fault = dn.fault /\ y.ret = rn
          /\ y.stack = dn.stack /\ y.locals = dn.locals
      BY <2>4, <2>5 DEF Machine
    <2>7. Sane(Words, x) /\ Sane(Words, y)
      <3>1. 0 \in Nat
        OBVIOUS
      <3> QED  BY <1>1, <2>3, <2>5, <3>1, StopIsSane
    <2> HIDE DEF x, y
    <2>8. Alike(Kinds, x, y)
      BY <2>3, <2>6, <2>7 DEF Alike
    <2>9. Forgot(W, x, y)
      BY <2>2, <2>5, <2>6, <2>8 DEF Forgot
    <2> QED  BY <2>1, <2>9
  <1>5. Forgot(W, [Drop(m, "obj") EXCEPT !.running = FALSE],
                  [Drop(n, "obj") EXCEPT !.running = FALSE])
    <2>1. Alike(Kinds, Drop(m, "obj"), Drop(n, "obj"))
      BY <1>2 DEF Follows
    <2>2. Follows(Kinds, Drop(m, "obj"), Drop(n, "obj"),
                  [Drop(m, "obj") EXCEPT !.running = FALSE],
                  [Drop(n, "obj") EXCEPT !.running = FALSE])
      BY <2>1, AlikeStop
    <2>3. Follows(Kinds, m, n, [Drop(m, "obj") EXCEPT !.running = FALSE],
                               [Drop(n, "obj") EXCEPT !.running = FALSE])
      BY <1>2, <2>2, Onwards
    <2> QED  BY <2>3, StillForgot
  <1> QED  BY <1>3, <1>4, <1>5

\* Newarr and the stores into arrays; what is read from memory is another matter.
LEMMA ArraysForget ==
    ASSUME NEW W, NEW m, NEW n, Forgot(W, m, n), NEW op \in ArrayOps \ ReadsMemory,
           NEW p1, NEW p2
    PROVE  Forgot(W, ArrayInstruction(m, op, p1), ArrayInstruction(n, op, p2))
  <1>1. /\ Alike(Kinds, m, n) /\ Kinds \in SUBSET Kinds /\ "i32" \in Kinds /\ "u32" \in Kinds
        /\ "obj" \in Kinds /\ "obj" \notin {"i32", "u32"} /\ 0 \in Nat /\ NewAddress \in Nat
    BY MachineAssumption DEF MachineAssumption, Forgot, Kinds
  <1>2. \A x, y, k : Follows(Kinds, m, n, x, y) /\ k \in Kinds
                        => Follows(Kinds, m, n, Drop(x, k), Drop(y, k))
    <2> SUFFICES ASSUME NEW x, NEW y, NEW k \in Kinds, Follows(Kinds, m, n, x, y)
                 PROVE  Follows(Kinds, m, n, Drop(x, k), Drop(y, k))
      OBVIOUS
    <2>1. Alike(Kinds, x, y)
      BY DEF Follows
    <2>2. Follows(Kinds, x, y, Drop(x, k), Drop(y, k))
      BY <1>1, <2>1, AlikeDrop
    <2> QED  BY <2>2, Onwards
  <1>3. Follows(Kinds, m, n, m, n)
    BY <1>1, AlikeIs
  <1>4. /\ Follows(Kinds, m, n, Drop(m, "u32"), Drop(n, "u32"))
        /\ Follows(Kinds, m, n, Drop(Drop(Drop(m, "i32"), "u32"), "obj"),
                                Drop(Drop(Drop(n, "i32"), "u32"), "obj"))
    BY <1>1, <1>2, <1>3
  <1>5. Follows(Kinds, m, n, Push(Drop(m, "u32"), "obj", NewAddress),
                             Push(Drop(n, "u32"), "obj", NewAddress))
    <2>1. Alike(Kinds, Drop(m, "u32"), Drop(n, "u32"))
      BY <1>4 DEF Follows
    <2>2. Follows(Kinds, Drop(m, "u32"), Drop(n, "u32"),
                  Push(Drop(m, "u32"), "obj", NewAddress), Push(Drop(n, "u32"), "obj", NewAddress))
      BY <1>1, <2>1, AlikePush
    <2> QED  BY <1>4, <2>2, Onwards
  <1>6. Follows(Kinds, m, n, Faulted(m), Faulted(n)) /\ Top(n, "obj") = Top(m, "obj")
    BY <1>1, AlikeStep, AlikeDrop
  <1>7. op = "Newarr" \/ op \in {"Stelem_I4", "Stelem_Any"}
    BY DEF ArrayOps, ReadsMemory
  <1>8. CASE op = "Newarr"
    BY <1>5, <1>8, StillForgot DEF ArrayInstruction
  <1>9. CASE op \in {"Stelem_I4", "Stelem_Any"}
    <2>1. \A x, p : ArrayInstruction(x, op, p) =
                IF Top(x, "obj") = 0 THEN Faulted(x) ELSE Drop(Drop(Drop(x, "i32"), "u32"), "obj")
      BY <1>9 DEF ArrayInstruction
    <2>2. Follows(Kinds, m, n, ArrayInstruction(m, op, p1), ArrayInstruction(n, op, p2))
      BY <1>4, <1>6, <2>1
    <2> QED  BY <2>2, StillForgot
  <1> QED  BY <1>7, <1>8, <1>9

\* One instruction that reads neither memory nor a local not yet set.
LEMMA ClassicForgets ==
    ASSUME NEW W, NEW m, NEW n, Forgot(W, m, n), NEW b, b.code \in Seq(Instr),
           m.pc < Len(b.code), NEW ins, ins = b.code[m.pc + 1], NEW p1, NEW p2,
           ins.op \notin ReadsMemory,
           Loads(ins.op) /\ LocalOf(ins) <= Len(m.locals) => LocalOf(ins) \in W
    PROVE  Forgot(IF Stores(ins.op) THEN W \cup {LocalOf(ins)} ELSE W,
                  ExecuteInstruction(m, b, ins, p1), ExecuteInstruction(n, b, ins, p2))
  <1> DEFINE a == ExecuteInstruction(m, b, ins, p1)
             c == ExecuteInstruction(n, b, ins, p2)
             W2 == IF Stores(ins.op) THEN W \cup {LocalOf(ins)} ELSE W
  <1>1. /\ Alike(Kinds, m, n) /\ Kinds \in SUBSET Kinds /\ m \in Machine /\ m.pc = n.pc
        /\ Kinds = {"i32", "u32", "f32", "f64", "obj"} /\ Words \subseteq Nat /\ 0 \in Nat
    BY AlikeIs DEF Forgot, Alike, Kinds
  <1>2. ins.arg \in Words /\ ins.arg \in Nat /\ DoubleOperand(m, b) \in Nat
    BY <1>1, DoublesAre
  <1>3. DoubleOperand(n, b) = DoubleOperand(m, b)
    BY <1>1 DEF DoubleOperand
  <1>4. ClassicArm(m, b, ins, p1, a) /\ ClassicArm(n, b, ins, p2, c)
    BY ClassicArms
  <1>5. a = ExecuteInstruction(m, b, ins, p1) /\ c = ExecuteInstruction(n, b, ins, p2)
    OBVIOUS
  <1> SUFFICES Forgot(W2, a, c)
    OBVIOUS
  <1> HIDE DEF a, c
  <1>6. CASE ins.op \in LocalOps
    <2>1. a = LocalAccess(m, ins) /\ c = LocalAccess(n, ins)
      BY <1>5, <1>6, ClassicDoes
    <2>2. Forgot(W2, LocalAccess(m, ins), LocalAccess(n, ins))
      BY <1>2, <1>6, LocalForgets
    <2> QED  BY <2>1, <2>2
  <1>7. ASSUME ins.op \notin LocalOps
        PROVE  W2 = W
    BY <1>7, LoadsAndStores
  <1> HIDE DEF W2
  <1>8. \A x, y : Follows(Kinds, m, n, x, y) => Forgot(W, x, y)
    BY StillForgot
  <1>9. /\ \A v \in Words : Forgot(W, Push(m, "i32", v), Push(n, "i32", v))
        /\ \A v \in Nat : /\ Forgot(W, Push(m, "f32", v), Push(n, "f32", v))
                          /\ Forgot(W, Push(m, "f64", v), Push(n, "f64", v))
                          /\ Forgot(W, Push(m, "obj", v), Push(n, "obj", v))
    <2>1. ASSUME NEW k \in Kinds, NEW v \in Nat, k \in {"i32", "u32"} => v \in Words
          PROVE  Forgot(W, Push(m, k, v), Push(n, k, v))
      BY <1>1, <1>8, <2>1, AlikePush
    <2> QED  BY <1>1, <2>1
  <1>10. CASE ins.op \in DOMAIN ShortConstant \cup {"Ldc_I4", "Ldc_I4_S"}
    <2>1. ASSUME NEW x, NEW y, NEW p, y = ExecuteInstruction(x, b, ins, p)
          PROVE  /\ ins.op \in DOMAIN ShortConstant
                        => y = Push(x, "i32", ShortConstant[ins.op] % WordMod)
                 /\ ins.op \in {"Ldc_I4", "Ldc_I4_S"} => y = Push(x, "i32", ins.arg)
      BY <2>1, ClassicDoes
    <2>2. ins.op \in DOMAIN ShortConstant => (ShortConstant[ins.op] % WordMod) \in Words
      BY ConstantsAreWords
    <2>3. ins.op \notin LocalOps
      BY <1>10, NamesAre
    <2>4. Forgot(W, a, c)
      BY <1>2, <1>5, <1>9, <1>10, <2>1, <2>2
    <2> QED  BY <1>7, <2>3, <2>4
  <1>11. CASE ins.op \in {"Ldc_R4", "Ldc_R8", "LDnull", "Ldsfld", "Newobj"}
    <2>1. /\ ins.op = "Ldc_R4" => a = Push(m, "f32", ins.arg)
          /\ ins.op = "Ldc_R8" => a = Push(m, "f64", DoubleOperand(m, b))
          /\ ins.op \in {"LDnull", "Ldsfld", "Newobj"} => a = Push(m, "obj", 0)
      BY <1>5, ClassicDoes
    <2>2. /\ ins.op = "Ldc_R4" => c = Push(n, "f32", ins.arg)
          /\ ins.op = "Ldc_R8" => c = Push(n, "f64", DoubleOperand(m, b))
          /\ ins.op \in {"LDnull", "Ldsfld", "Newobj"} => c = Push(n, "obj", 0)
      BY <1>3, <1>5, ClassicDoes
    <2>3. ins.op \notin LocalOps
      BY <1>11, NamesAre
    <2>4. Forgot(W, a, c)
      BY <1>1, <1>2, <1>9, <1>11, <2>1, <2>2
    <2> QED  BY <1>7, <2>3, <2>4
  <1>12. CASE ins.op \in BinaryOps \cup UnsignedOps \cup UnaryOps
    <2>1. ASSUME NEW x, NEW y, NEW p, y = ExecuteInstruction(x, b, ins, p)
          PROVE  /\ ins.op \in BinaryOps => y = Computed(x, "i32", ins.op)
                 /\ ins.op \in UnsignedOps => y = Computed(x, "u32", ins.op)
                 /\ ins.op \in UnaryOps => y = ComputedUnary(x, ins.op)
      BY <2>1, ClassicDoes
    <2>2. ins.op \notin LocalOps
      BY <1>12, NamesAre DEF BinaryOps, UnsignedOps, UnaryOps
    <2>3. /\ \A op \in BinaryOps :
                Follows(Kinds, m, n, Computed(m, "i32", op), Computed(n, "i32", op))
          /\ \A op \in UnsignedOps :
                Follows(Kinds, m, n, Computed(m, "u32", op), Computed(n, "u32", op))
          /\ \A op \in UnaryOps : Follows(Kinds, m, n, ComputedUnary(m, op), ComputedUnary(n, op))
      BY <1>1, AlikeComputed
    <2>4. Forgot(W, a, c)
      BY <1>5, <1>8, <1>12, <2>1, <2>3
    <2> QED  BY <1>7, <2>2, <2>4
  <1>13. CASE ins.op \in {"Br", "Br_S", "Brfalse", "Brfalse_S", "Brtrue", "Brtrue_S"}
    <2>1. ASSUME NEW x, NEW y, NEW p, y = ExecuteInstruction(x, b, ins, p)
          PROVE  /\ ins.op \in {"Br", "Br_S"} => y = Goto(x, ins.arg)
                 /\ ins.op \in {"Brfalse", "Brfalse_S"} => y = BranchOnTop(x, "zero", ins.arg)
                 /\ ins.op \in {"Brtrue", "Brtrue_S"} => y = BranchOnTop(x, "nonzero", ins.arg)
      BY <2>1, ClassicDoes
    <2>2. ins.op \notin LocalOps
      BY <1>13, NamesAre
    <2>3. /\ Follows(Kinds, m, n, Goto(m, ins.arg), Goto(n, ins.arg))
          /\ \A awaited : Follows(Kinds, m, n, BranchOnTop(m, awaited, ins.arg),
                                               BranchOnTop(n, awaited, ins.arg))
      BY <1>1, <1>2, AlikeStep, AlikeBranch
    <2>4. Forgot(W, a, c)
      BY <1>5, <1>8, <1>13, <2>1, <2>3
    <2> QED  BY <1>7, <2>2, <2>4
  <1>14. CASE ins.op \in DOMAIN SignedBranch \cup DOMAIN UnsignedBranch
    <2>1. ASSUME NEW x, NEW y, NEW p, y = ExecuteInstruction(x, b, ins, p)
          PROVE  /\ ins.op \in DOMAIN SignedBranch
                        => y = BranchIf(x, "i32", SignedBranch[ins.op], ins.arg)
                 /\ ins.op \in DOMAIN UnsignedBranch
                        => y = BranchIf(x, "u32", UnsignedBranch[ins.op], ins.arg)
      BY <2>1, ClassicDoes
    <2>2. ins.op \notin LocalOps
      BY <1>14, NamesAre
    <2>3. \A k \in Kinds : \A rel : Follows(Kinds, m, n, BranchIf(m, k, rel, ins.arg),
                                                     BranchIf(n, k, rel, ins.arg))
      BY <1>1, <1>2, AlikeBranch
    <2>4. Forgot(W, a, c)
      BY <1>1, <1>5, <1>8, <1>14, <2>1, <2>3
    <2> QED  BY <1>7, <2>2, <2>4
  <1>15. CASE ins.op \in {"Pop", "Box", "Stsfld", "Ldfld", "Stfld"}
    <2>1. ASSUME NEW x, NEW y, NEW p, y = ExecuteInstruction(x, b, ins, p)
          PROVE  /\ ins.op \in {"Pop", "Box", "Stsfld"} => y = Drop(x, "obj")
                 /\ ins.op = "Ldfld" => y = LoadField(x, ins.arg)
                 /\ ins.op = "Stfld" => y = Drop2(x, "obj")
      BY <2>1, ClassicDoes
    <2>2. ins.op \notin LocalOps
      BY <1>15, NamesAre
    <2>3. /\ Follows(Kinds, m, n, Drop(m, "obj"), Drop(n, "obj"))
          /\ Follows(Kinds, m, n, LoadField(m, ins.arg), LoadField(n, ins.arg))
          /\ Follows(Kinds, m, n, Drop2(m, "obj"), Drop2(n, "obj"))
      BY <1>1, <1>2, AlikeDrop, AlikeDrop2, AlikeLoad
    <2>4. Forgot(W, a, c)
      BY <1>5, <1>8, <1>15, <2>1, <2>3
    <2> QED  BY <1>7, <2>2, <2>4
  <1>16. CASE ins.op \in {"Dup", "Ret"}
    <2>1. ASSUME NEW x, NEW y, NEW p, y = ExecuteInstruction(x, b, ins, p)
          PROVE  /\ ins.op = "Dup" => y = DupIntFirst(x)
                 /\ ins.op = "Ret" => y = Returned(x)
      BY <2>1, ClassicDoes
    <2>2. ins.op \notin LocalOps
      BY <1>16, NamesAre
    <2>3. Forgot(W, DupIntFirst(m), DupIntFirst(n)) /\ Forgot(W, Returned(m), Returned(n))
      BY ReturnForgets
    <2> QED  BY <1>5, <1>7, <1>16, <2>1, <2>2, <2>3
  <1>17. CASE ins.op = "Throw"
    <2>1. /\ a = [Drop(m, "obj") EXCEPT !.running = FALSE]
          /\ c = [Drop(n, "obj") EXCEPT !.running = FALSE]
      BY <1>4, <1>17, NamesAre DEF ClassicArm, BinaryOps, UnaryOps, UnsignedOps, ArrayOps, Listed
    <2>2. ins.op \notin LocalOps
      BY <1>17, NamesAre
    <2> QED  BY <1>7, <2>1, <2>2, ReturnForgets
  <1>18. CASE ins.op \in ArrayOps
    <2>1. ASSUME NEW x, NEW y, NEW p, y = ExecuteInstruction(x, b, ins, p)
          PROVE  y = ArrayInstruction(x, ins.op, p)
      BY <1>18, <2>1, ClassicDoes
    <2>2. ins.op \notin LocalOps
      BY <1>18, NamesAre DEF ArrayOps
    <2>3. Forgot(W, ArrayInstruction(m, ins.op, p1), ArrayInstruction(n, ins.op, p2))
      BY <1>18, ArraysForget
    <2> QED  BY <1>5, <1>7, <2>1, <2>2, <2>3
  <1>19. CASE ins.op \notin Listed
    <2>1. a = m /\ c = n
      BY <1>5, <1>19, ClassicDoes
    <2>2. ins.op \notin LocalOps
      BY <1>19 DEF Listed
    <2> QED  BY <1>7, <2>1, <2>2
  <1> QED  BY <1>6, <1>10, <1>11, <1>12, <1>13, <1>14, <1>15, <1>16, <1>17, <1>18, <1>19
           DEF Listed

\* Execute forgets: unless it reads a local that it has not set, or memory, a
\* method runs on an interpreter that has run others as on a new one.
THEOREM NothingLeftOver == Spec => []ExecuteForgets
  <1> DEFINE Inv == ~foreign => Forgot(written, sw, fresh)
  <1>1. Init => Inv
    <2> SUFFICES ASSUME Init
                 PROVE  Forgot(written, sw, fresh)
      OBVIOUS
    <2>1. Sane(Words, sw) /\ fresh = sw /\ written = {}
      BY InitIsSane DEF Init, TypesInv
    <2> QED  BY <2>1 DEF Forgot, Alike
  <1>2. TypesInv /\ Inv /\ [Next]_vars => Inv'
    <2> SUFFICES ASSUME TypesInv, Inv, [Next]_vars, ~foreign'
                 PROVE  Forgot(written', sw', fresh')
      OBVIOUS
    <2>1. CASE StepAll
      <3>1. PICK p \in [{"sw", "th", "hp", "fresh"} -> Peeks] :
                    /\ sw' = InterpreterStep(sw, body, p["sw"])
                    /\ fresh' = InterpreterStep(fresh, body, p["fresh"])
        BY <2>1 DEF StepAll
      <3>2. /\ written' = IF Stores(Current.op) THEN written \cup {LocalOf(Current)} ELSE written
            /\ foreign' = (foreign \/ ReadsForeign(sw, Current))
        BY <2>1 DEF StepAll, Current
      <3>3. Forgot(written, sw, fresh) /\ ~ReadsForeign(sw, Current)
        BY <3>2
      <3>4. /\ Alike(Kinds, sw, fresh) /\ fresh.pc = sw.pc /\ fresh.running = sw.running
            /\ sw \in Machine /\ 0 \in Nat /\ body.code \in Seq(Instr)
            /\ InLoop(fresh, body) <=> InLoop(sw, body)
        BY <3>3, AlikeIs DEF Forgot, Alike, TypesInv, InLoop
      <3>5. CASE ~InLoop(sw, body)
        <4>1. sw' = sw /\ fresh' = fresh
          BY <3>1, <3>4, <3>5 DEF InterpreterStep
        <4>2. Current.op = "Nop"
          BY <3>5 DEF Current
        <4>3. written' = written
          BY <3>2, <4>2, LoadsAndStores, NamesAre
        <4> QED  BY <3>3, <4>1, <4>3
      <3>6. CASE InLoop(sw, body)
        <4> DEFINE ins == body.code[sw.pc + 1]
                   a == ExecuteInstruction(sw, body, ins, p["sw"])
                   c == ExecuteInstruction(fresh, body, ins, p["fresh"])
        <4>1. Current = ins /\ sw.pc < Len(body.code)
          BY <3>6 DEF Current, InLoop
        <4>2. /\ sw' = IF a.fault THEN a ELSE Next1(a)
              /\ fresh' = IF c.fault THEN c ELSE Next1(c)
          BY <3>1, <3>4, <3>6 DEF InterpreterStep
        <4>3. /\ ins.op \notin ReadsMemory
              /\ Loads(ins.op) /\ LocalOf(ins) <= Len(sw.locals) => LocalOf(ins) \in written
          BY <3>3, <4>1 DEF ReadsForeign
        <4>4. Forgot(IF Stores(ins.op) THEN written \cup {LocalOf(ins)} ELSE written, a, c)
          BY <3>3, <3>4, <4>1, <4>3, ClassicForgets
        <4>5. Forgot(written', a, c)
          BY <3>2, <4>1, <4>4
        <4> HIDE DEF ins, a, c
        <4>6. Alike(Kinds, a, c) /\ a.fault = c.fault
          BY <4>5 DEF Forgot, Alike
        <4>7. Forgot(written', Next1(a), Next1(c))
          BY <3>4, <4>5, <4>6, AlikeStep, StillForgot
        <4> QED  BY <4>2, <4>5, <4>6, <4>7
      <3> QED  BY <3>5, <3>6
    <2>2. ASSUME NEW b \in Bodies, NEW args \in ArgLists, ExecuteAll(b, args)
          PROVE  Forgot(written', sw', fresh')
      <3>1. /\ ~sw.fault /\ sw' = Execute(sw, b, args)
            /\ fresh' = Execute(NewMachine, b, args)
            /\ written' = (1 .. Len(args)) \cup (Len(sw.locals) + 1 .. b.locals)
        BY <2>2 DEF ExecuteAll
      <3>2. /\ sw \in Machine /\ b.locals \in Nat /\ args \in Seq(Nat) /\ sw.fault \in BOOLEAN
            /\ Len(args) \in Nat /\ Len(sw.locals) \in Nat
        <4>1. sw \in Machine /\ b.locals \in Nat /\ args \in Seq(Nat)
          BY ProgramsAre DEF TypesInv, Sane
        <4> QED  BY <4>1 DEF Machine
      <3>3. /\ NewMachine \in Machine /\ NewMachine.fault = FALSE /\ NewMachine.ret = 0
            /\ Len(NewMachine.locals) = 0
        <4>1. 0 \in Words /\ [k \in Kinds |-> <<>>] \in [Kinds -> Seq(Nat)] /\ <<>> \in Seq(Nat)
          BY WordsAre
        <4> QED  BY <4>1 DEF NewMachine, Machine
      <3>4. Sane(Words, sw') /\ Sane(Words, fresh') /\ Words \in SUBSET Words
        BY <3>1, <3>2, <3>3, ExecuteIsSane
      <3>5. /\ sw'.pc = 0 /\ sw'.running /\ sw'.fault = sw.fault
            /\ sw'.stack = [k \in Kinds |-> <<>>] /\ Len(sw'.locals) = b.locals
            /\ sw'.locals \in Seq(Nat)
            /\ \A i \in 1 .. b.locals :
                    sw'.locals[i] = IF i <= Len(args) THEN args[i]
                                    ELSE IF i <= Len(sw.locals) THEN sw.locals[i] ELSE 0
        BY <3>1, <3>2, Executed
      <3>6. /\ fresh'.pc = 0 /\ fresh'.running /\ fresh'.fault = FALSE /\ fresh'.ret = 0
            /\ fresh'.stack = [k \in Kinds |-> <<>>] /\ Len(fresh'.locals) = b.locals
            /\ \A i \in 1 .. b.locals :
                    fresh'.locals[i] = IF i <= Len(args) THEN args[i]
                                       ELSE IF i <= 0 THEN NewMachine.locals[i] ELSE 0
        BY <3>1, <3>2, <3>3, Executed
      <3>7. sw'.running = TRUE /\ fresh'.running = TRUE
        <4>1. sw'.running \in BOOLEAN /\ fresh'.running \in BOOLEAN
          BY <3>4, SaneIs
        <4> QED  BY <3>5, <3>6, <4>1
      <3>8. Alike(Kinds, sw', fresh')
        BY <3>1, <3>2, <3>4, <3>5, <3>6, <3>7 DEF Alike
      <3>9. ASSUME NEW i \in written' \cap DOMAIN sw'.locals
            PROVE  sw'.locals[i] = fresh'.locals[i]
        <4>1. i \in 1 .. b.locals
          BY <3>2, <3>5
        <4>2. i <= Len(args) \/ ~ (i <= Len(sw.locals))
          BY <3>1, <3>2, <4>1
        <4>3. ~ (i <= 0)
          BY <3>2, <4>1
        <4> QED  BY <3>5, <3>6, <4>1, <4>2, <4>3
      <3> QED  BY <3>5, <3>6, <3>8, <3>9 DEF Forgot
    <2>3. CASE UNCHANGED vars
      BY <2>3 DEF vars
    <2> QED  BY <2>1, <2>2, <2>3 DEF Next
  <1>3. Inv => ExecuteForgets
    <2> SUFFICES ASSUME Inv, ~foreign
                 PROVE  /\ sw.pc = fresh.pc /\ sw.running = fresh.running /\ sw.fault = fresh.fault
                        /\ sw.stack = fresh.stack
                        /\ fresh.ret # 0 => sw.ret = fresh.ret
                        /\ \A i \in written \cap DOMAIN sw.locals : sw.locals[i] = fresh.locals[i]
      BY DEF ExecuteForgets
    <2>1. Forgot(written, sw, fresh) /\ Alike(Kinds, sw, fresh)
      BY DEF Forgot
    <2>2. sw.stack = fresh.stack
      <3>1. sw.stack \in [Kinds -> Seq(Nat)] /\ fresh.stack \in [Kinds -> Seq(Nat)]
        BY <2>1, AlikeIs DEF Machine
      <3> QED  BY <2>1, <3>1 DEF Alike
    <2> QED  BY <2>1, <2>2 DEF Forgot, Alike
  <1> HIDE DEF Inv
  <1> QED  BY <1>1, <1>2, <1>3, SaneAlways, PTL DEF Spec

===============================================================================
