----------------------- MODULE CompleteInterpreterProofs -----------------------
(***************************************************************************)
(* The execution loop of CompleteInterpreter, for every program: a         *)
(* well-typed one never pops an empty stack, and frames_ always holds the  *)
(* call sites of the activations on the C++ stack, as long as frames_ has  *)
(* not overflowed.  A loop-free one ends, also when frames_ overflows.     *)
(***************************************************************************)
EXTENDS CompleteInterpreter, SequenceTheorems, WellFoundedInduction, TLAPS

StackDepths == [Kinds -> Nat]

LEMMA DepthsType ==
    ASSUME NEW i \in Nat, NEW u \in Nat, NEW f \in Nat, NEW d \in Nat, NEW o \in Nat
    PROVE  Depths(i, u, f, d, o) \in StackDepths
BY DEF Depths, Kinds, StackDepths

LEMMA EmptyType == Empty \in StackDepths
BY DepthsType DEF Empty

\* The tables of what an opcode pops and pushes give a depth per stack.
LEMMA PopsType == ASSUME NEW op PROVE Pops(op) \in StackDepths
BY DepthsType, EmptyType DEF Pops

LEMMA PushesType == ASSUME NEW op PROVE Pushes(op) \in StackDepths
BY DepthsType, EmptyType DEF Pushes

LEMMA JumpsAndCallsPushNothing ==
    ASSUME NEW op \in Branches \cup {"Br", "Call"}
    PROVE  Pushes(op) = Empty
BY DEF Pushes, Branches, IntBranch, UIntBranch, FloatBranch, IntBinary, UIntBinary,
       FloatBinary, FloatCompare, DoubleBinary

LEMMA CallPopsNothing == Pops("Call") = Empty
BY DEF Pops, Branches, IntBranch, UIntBranch, FloatBranch, IntBinary, UIntBinary,
       FloatBinary, FloatCompare, DoubleBinary

LEMMA PlusType ==
    ASSUME NEW a \in StackDepths, NEW b \in StackDepths
    PROVE  Plus(a, b) \in StackDepths
BY DEF Plus, StackDepths

LEMMA MinusType ==
    ASSUME NEW a \in StackDepths, NEW b \in StackDepths, Covers(a, b)
    PROVE  Minus(a, b) \in StackDepths
BY DEF Minus, Covers, StackDepths

LEMMA PlusEmpty ==
    ASSUME NEW a \in StackDepths
    PROVE  Plus(a, Empty) = a
BY DEF Plus, Empty, Depths, StackDepths, Kinds

LEMMA EmptyPlus ==
    ASSUME NEW a \in StackDepths
    PROVE  Plus(Empty, a) = a
BY DEF Plus, Empty, Depths, StackDepths, Kinds

\* An instruction does the same to the operands of an activation whatever lies
\* below them.
LEMMA OverBase ==
    ASSUME NEW base \in StackDepths, NEW a \in StackDepths, NEW p \in StackDepths,
           NEW q \in StackDepths, Covers(a, p)
    PROVE  /\ Covers(Plus(base, a), p)
           /\ Plus(Minus(Plus(base, a), p), q) = Plus(base, Plus(Minus(a, p), q))
BY DEF Plus, Minus, Covers, StackDepths

\* The cleanup at the end of CallMethod: the objects above the base go, and
\* what is left is the caller's operands and the callee's numbers.
LEMMA Cleanup ==
    ASSUME NEW base \in StackDepths, NEW a \in StackDepths, NEW end \in StackDepths
    PROVE  LET b == Plus(base, a)
               d == Plus(b, end)
           IN  [d EXCEPT !["obj"] = IF @ > b["obj"] THEN b["obj"] ELSE @]
                 = Plus(base, [Plus(a, end) EXCEPT !["obj"] = a["obj"]])
<1> DEFINE b == Plus(base, a)
           d == Plus(b, end)
           left == [d EXCEPT !["obj"] = IF @ > b["obj"] THEN b["obj"] ELSE @]
           right == Plus(base, [Plus(a, end) EXCEPT !["obj"] = a["obj"]])
<1>1. DOMAIN left = Kinds /\ DOMAIN right = Kinds
  BY DEF Plus
<1>2. ASSUME NEW k \in Kinds PROVE left[k] = right[k]
  <2>1. base[k] \in Nat /\ a[k] \in Nat /\ end[k] \in Nat
    BY DEF StackDepths
  <2>2. b[k] = base[k] + a[k] /\ d[k] = base[k] + a[k] + end[k]
    BY DEF Plus
  <2>3. right[k] = base[k] + IF k = "obj" THEN a[k] ELSE a[k] + end[k]
    BY DEF Plus
  <2>4. left[k] = IF k = "obj" THEN IF d[k] > b[k] THEN b[k] ELSE d[k] ELSE d[k]
    BY DEF Plus
  <2> QED BY <2>1, <2>2, <2>3, <2>4
<1>3. left = right
  <2> HIDE DEF left, right
  <2>1. left = [k \in Kinds |-> left[k]] /\ right = [k \in Kinds |-> right[k]]
    BY <1>1 DEF left, right, Plus, Kinds
  <2> QED BY <1>2, <2>1
<1> QED BY <1>3

-------------------------------------------------------------------------------
(* Sequences *)

LEMMA AppendAsFunction ==
    ASSUME NEW S, NEW s \in Seq(S), NEW e \in S
    PROVE  Append(s, e) = [k \in 1 .. Len(s) + 1 |-> IF k <= Len(s) THEN s[k] ELSE e]
<1> DEFINE t == Append(s, e)
<1>1. t \in Seq(S) /\ Len(t) = Len(s) + 1 /\ Len(s) \in Nat
  OBVIOUS
<1>2. \A k \in 1 .. Len(s) + 1 : t[k] = IF k <= Len(s) THEN s[k] ELSE e
  BY AppendProperties
<1> HIDE DEF t
<1>3. t = [k \in 1 .. Len(t) |-> t[k]]
  BY <1>1
<1>4. t = [k \in 1 .. Len(s) + 1 |-> IF k <= Len(s) THEN s[k] ELSE e]
  BY <1>1, <1>2, <1>3
<1> QED BY <1>4 DEF t

LEMMA FrontAsFunction ==
    ASSUME NEW S, NEW s \in Seq(S), s # <<>>
    PROVE  /\ SubSeq(s, 1, Len(s) - 1) = [k \in 1 .. Len(s) - 1 |-> s[k]]
           /\ Len(SubSeq(s, 1, Len(s) - 1)) = Len(s) - 1
           /\ Len(s) \in Nat \ {0}
<1> DEFINE t == SubSeq(s, 1, Len(s) - 1)
<1>1. Len(s) \in Nat \ {0}
  OBVIOUS
<1>2. t = [k \in 1 .. Len(s) - 1 |-> s[k]]
  BY <1>1
<1> HIDE DEF t
<1>3. Len(t) = Len(s) - 1
  BY <1>1, <1>2
<1> QED BY <1>1, <1>2, <1>3 DEF t

-------------------------------------------------------------------------------
(* Instructions *)

LEMMA InstrType ==
    ASSUME TypeOK, InLoop
    PROVE  /\ Instr \in Instructions
           /\ pc + 1 \in 1 .. Len(Code(method))
           /\ Instr = Code(method)[pc + 1]
           /\ Code(method) \in Seq(Instructions)
BY ConstantsAssumption DEF TypeOK, InLoop, Instr, Code

\* What well-typedness says of an instruction and the ones that may follow it.
LEMMA TypedAt ==
    ASSUME WellTyped, NEW m \in Methods, NEW p \in 0 .. Len(Code(m)) - 1
    PROVE  LET ins == Code(m)[p + 1]
           IN  /\ ins.op # "Ldfld"
               /\ ins.op \in Locals => ins.arg < prog[m].locals
               /\ Covers(At(m, p), Pops(ins.op))
               /\ \A q \in Successors(ins, p) : At(m, q) = After(ins, At(m, p))
<1>1. WellTypedMethod(m)
  BY DEF WellTyped
<1> QED BY <1>1, Zenon DEF WellTypedMethod

LEMMA AtType ==
    ASSUME WellTyped, NEW m \in Methods, NEW p \in Nat, Code(m) \in Seq(Instructions)
    PROVE  /\ At(m, p) \in StackDepths
           /\ At(m, 0) = Empty
           /\ p >= Len(Code(m)) => At(m, p) = AtEnd(m)
           /\ AtEnd(m) \in StackDepths
<1>1. prog[m].at \in [0 .. Len(Code(m)) -> StackDepths] /\ At(m, 0) = Empty
  BY DEF WellTyped, WellTypedMethod, StackDepths
<1>2. Len(Code(m)) \in Nat
  OBVIOUS
<1> QED BY <1>1, <1>2 DEF At, AtEnd

LEMMA CodeType ==
    ASSUME TypeOK, NEW m \in Methods
    PROVE  Code(m) \in Seq(Instructions) /\ prog[m].locals \in Nat
BY ConstantsAssumption DEF TypeOK, Code

LEMMA BaseType ==
    ASSUME TypeOK
    PROVE  /\ Base \in StackDepths
           /\ \A k \in 0 .. Len(loops) : BaseOf(k) \in StackDepths
           /\ Base = BaseOf(Len(loops))
<1>1. loops \in Seq(Activation)
  BY DEF TypeOK
<1>2. Len(loops) \in Nat /\ \A k \in 1 .. Len(loops) : loops[k] \in Activation
  BY <1>1
<1>3. \A k \in 1 .. Len(loops) : loops[k].base \in StackDepths
  BY <1>2 DEF Activation, StackDepths
<1>4. loops = <<>> <=> Len(loops) = 0
  BY <1>1
<1>5. \A k \in 0 .. Len(loops) : BaseOf(k) \in StackDepths
  BY <1>2, <1>3, EmptyType DEF BaseOf
<1>6. Base = BaseOf(Len(loops))
  BY <1>4 DEF Base, BaseOf
<1> QED BY <1>2, <1>5, <1>6

\* In a well-typed program the instruction is defined wherever the depths are
\* the annotated ones.
LEMMA TypedIsDefined ==
    ASSUME TypeOK, DepthsAsTyped, Activations, WellTyped, ~overflowed, InLoop
    PROVE  Defined
<1> DEFINE a == At(method, pc)
<1>1. method \in Methods /\ pc \in 0 .. Len(Code(method)) - 1 /\ running
  BY InstrType DEF InLoop, TypeOK
<1>2. a \in StackDepths
  BY <1>1, AtType, CodeType
<1>3. depth = Plus(Base, a)
  BY <1>1 DEF DepthsAsTyped
<1>4. Covers(a, Pops(Instr.op)) /\ (Instr.op \in Locals => Instr.arg < prog[method].locals)
  BY <1>1, TypedAt, InstrType
<1>5. Covers(depth, Pops(Instr.op))
  BY <1>2, <1>3, <1>4, OverBase, BaseType, PopsType, EmptyType
<1>6. Instr.op \in Locals => Instr.arg < nlocals
  <2>1. prog[method].locals <= nlocals
    BY <1>1 DEF Activations, Entered
  <2> QED BY <1>4, <2>1, <1>1, CodeType, InstrType DEF Instructions, TypeOK
<1> QED BY <1>5, <1>6 DEF Defined

-------------------------------------------------------------------------------
(* Types *)

LEMMA DepthStepType ==
    ASSUME TypeOK, InLoop, Defined, NEW q \in StackDepths
    PROVE  /\ Minus(depth, Pops(Instr.op)) \in [Kinds -> Nat]
           /\ Plus(Minus(depth, Pops(Instr.op)), q) \in [Kinds -> Nat]
<1>1. depth \in StackDepths /\ Covers(depth, Pops(Instr.op))
  BY DEF TypeOK, StackDepths, Defined
<1> QED BY <1>1, PopsType, MinusType, PlusType DEF StackDepths

LEMMA TypeStep == TypeOK /\ [Next]_vars => TypeOK'
<1> SUFFICES ASSUME TypeOK, [Next]_vars PROVE TypeOK'
  OBVIOUS
<1>1. CASE Execute
  <2>1. Empty \in [Kinds -> Nat]
    BY EmptyType DEF StackDepths
  <2>2. <<>> \in Seq(Site) /\ <<>> \in Seq(Activation) /\ Len(<<>>) = 0
    OBVIOUS
  <2>3. prog[Entry].locals \in Nat
    BY CodeType, ConstantsAssumption
  <2>4. Entry \in Methods /\ 0 <= MaxFrames
    BY ConstantsAssumption
  <2> QED BY <1>1, <2>1, <2>2, <2>3, <2>4 DEF Execute, TypeOK
<1>2. CASE Straight
  <2>1. depth' \in [Kinds -> Nat]
    BY <1>2, DepthStepType, PushesType DEF Straight
  <2>2. pc' \in Nat
    BY <1>2 DEF Straight, TypeOK, Length
  <2> QED BY <1>2, <2>1, <2>2 DEF Straight, TypeOK
<1>3. ASSUME NEW b \in BOOLEAN, LoadField(b) PROVE TypeOK'
  <2>1. depth' \in [Kinds -> Nat]
    BY <1>3, DepthStepType, PushesType, EmptyType DEF LoadField
  <2> QED BY <1>3, <2>1 DEF LoadField, TypeOK
<1>4. ASSUME NEW b \in BOOLEAN, Jump(b) PROVE TypeOK'
  <2>1. depth' \in [Kinds -> Nat]
    BY <1>4, DepthStepType, EmptyType DEF Jump
  <2>2. pc' \in Nat
    BY <1>4, InstrType DEF Jump, TypeOK, Instructions
  <2> QED BY <1>4, <2>1, <2>2 DEF Jump, TypeOK
<1>5. CASE Call
  <2> USE <1>5 DEF Call, CallWith
  <2>1. [method |-> method, pc |-> pc + 1] \in Site
    BY DEF TypeOK, Site
  <2>2. frames' \in Seq(Site) /\ Len(frames') <= MaxFrames
    BY <2>1, ConstantsAssumption DEF PushFrame, TypeOK
  <2>3. [site |-> [method |-> method, pc |-> pc + 1], base |-> depth] \in Activation
    BY <2>1 DEF TypeOK, Activation
  <2>4. loops' \in Seq(Activation)
    BY <2>3 DEF TypeOK
  <2>5. method' \in Methods /\ pc' \in Nat
    OBVIOUS
  <2>6. nlocals' \in Nat
    BY <2>5, CodeType DEF GrownLocals, TypeOK
  <2>7. overflowed' \in BOOLEAN
    OBVIOUS
  <2> QED BY <2>2, <2>4, <2>5, <2>6, <2>7 DEF TypeOK
<1>6. CASE CallNobody
  BY <1>6 DEF CallNobody, TypeOK
<1>7. CASE Halt
  <2>1. depth' \in [Kinds -> Nat]
    BY <1>7, DepthStepType, EmptyType DEF Halt
  <2>2. pc' \in Nat /\ running' \in BOOLEAN
    <3>1. pc' \in Nat
      BY <1>7 DEF Halt, TypeOK
    <3>2. running' \in BOOLEAN
      BY <1>7, Zenon DEF Halt
    <3> QED BY <3>1, <3>2
  <2> QED BY <1>7, <2>1, <2>2 DEF Halt, TypeOK
<1>8. CASE Undefined
  BY <1>8 DEF Undefined, TypeOK
<1>9. CASE Return
  <2> USE <1>9 DEF Return, ReturnTo, PopFrame
  <2>1. Len(loops) \in 1 .. Len(loops) /\ loops[Len(loops)] \in Activation
    BY DEF TypeOK
  <2>2. loops[Len(loops)].base["obj"] \in Nat
    BY <2>1 DEF Activation, Kinds
  <2>3. depth' \in [Kinds -> Nat]
    BY <2>2 DEF TypeOK, Kinds
  <2>4. loops' \in Seq(Activation)
    BY <2>1 DEF TypeOK
  <2>5. CASE frames = <<>>
    BY <2>3, <2>4, <2>5 DEF TypeOK
  <2>6. CASE frames # <<>>
    <3>1. Len(frames) \in 1 .. Len(frames) /\ frames[Len(frames)] \in Site
      BY <2>6 DEF TypeOK
    <3>2. method' \in Methods /\ pc' \in Nat
      BY <2>6, <3>1 DEF Site
    <3>3. frames' \in Seq(Site) /\ Len(frames') <= MaxFrames
      <4>1. frames \in Seq(Site) /\ Len(frames) <= MaxFrames /\ MaxFrames \in Nat
        BY ConstantsAssumption DEF TypeOK
      <4>2. frames' = SubSeq(frames, 1, Len(frames) - 1)
        BY <2>6
      <4> QED BY <3>1, <4>1, <4>2 DEF TypeOK
    <3> QED BY <2>3, <2>4, <3>2, <3>3 DEF TypeOK
  <2> QED BY <2>5, <2>6
<1>10. CASE Finish
  BY <1>10 DEF Finish, TypeOK
<1>11. CASE UNCHANGED vars
  BY <1>11 DEF vars, TypeOK
<1> QED BY <1>1, <1>2, <1>3, <1>4, <1>5, <1>6, <1>7, <1>8, <1>9, <1>10, <1>11 DEF Next

LEMMA TypeInit == Init => TypeOK
<1> SUFFICES ASSUME Init PROVE TypeOK
  OBVIOUS
<1>1. Empty \in [Kinds -> Nat]
  BY EmptyType DEF StackDepths
<1>2. <<>> \in Seq(Site) /\ <<>> \in Seq(Activation) /\ Len(<<>>) = 0
  OBVIOUS
<1>3. Entry \in Methods /\ 0 <= MaxFrames
  BY ConstantsAssumption
<1>4. status \in {"idle"} /\ running \in {FALSE} /\ overflowed \in {FALSE}
  BY DEF Init
<1>5. pc \in Nat /\ nlocals \in Nat
  BY DEF Init
<1> QED BY <1>1, <1>2, <1>3, <1>4, <1>5, Zenon DEF Init, TypeOK

\* The depths never go below zero and frames_ never holds more than MaxFrames
\* entries, whatever the program does.
THEOREM TypesAreKept == Spec => []TypeOK
<1>1. Init => TypeOK
  BY TypeInit
<1>2. TypeOK /\ [Next]_vars => TypeOK'
  BY TypeStep
<1> QED BY <1>1, <1>2, PTL DEF Spec

-------------------------------------------------------------------------------
(* Frames *)

LEMMA FramesStep == TypeOK /\ FramesAreCallSites /\ [Next]_vars => FramesAreCallSites'
<1> SUFFICES ASSUME TypeOK, FramesAreCallSites, [Next]_vars, ~overflowed'
             PROVE  frames' = [k \in 1 .. Len(loops') |-> loops'[k].site]
  BY DEF FramesAreCallSites
<1>1. CASE Execute
  BY <1>1 DEF Execute
<1>2. CASE Call
  <2> USE <1>2 DEF Call, CallWith
  <2> DEFINE site == [method |-> method, pc |-> pc + 1]
             new  == [site |-> site, base |-> depth]
             n    == Len(loops)
  <2>1. ~overflowed /\ frames' = Append(frames, site) /\ loops' = Append(loops, new)
    <3>1. Len(frames) \in Nat /\ MaxFrames \in Nat /\ overflowed \in BOOLEAN
      BY ConstantsAssumption DEF TypeOK
    <3>2. ~(overflowed \/ Len(frames) >= MaxFrames)
      OBVIOUS
    <3> QED BY <3>1, <3>2 DEF PushFrame
  <2>2. frames = [k \in 1 .. n |-> loops[k].site]
    BY <2>1 DEF FramesAreCallSites
  <2>3. loops \in Seq(Activation) /\ n \in Nat
    BY DEF TypeOK
  <2>4. Len(frames) = n
    BY <2>2, <2>3
  <2>5. Len(loops') = n + 1 /\ (\A k \in 1 .. n : loops'[k] = loops[k]) /\ loops'[n + 1] = new
    BY <2>1, <2>3
  <2>6. frames' = [k \in 1 .. n + 1 |-> IF k <= n THEN frames[k] ELSE site]
    <3>1. frames \in Seq(Site) /\ site \in Site
      BY DEF TypeOK, Site
    <3> HIDE DEF site, n, Call, CallWith
    <3>2. Append(frames, site)
            = [k \in 1 .. Len(frames) + 1 |-> IF k <= Len(frames) THEN frames[k] ELSE site]
      BY <3>1, AppendAsFunction
    <3> QED BY <2>1, <2>4, <3>2
  <2>7. \A k \in 1 .. n + 1 : loops'[k].site = IF k <= n THEN frames[k] ELSE site
    BY <2>2, <2>3, <2>5
  <2> HIDE DEF n, site, new, Call, CallWith
  <2> QED BY <2>5, <2>6, <2>7
<1>3. CASE Return
  <2> USE <1>3 DEF Return, ReturnTo, PopFrame
  <2> DEFINE n == Len(loops)
  <2>1. frames = [k \in 1 .. n |-> loops[k].site]
    BY DEF FramesAreCallSites
  <2>2. loops \in Seq(Activation) /\ n \in Nat /\ n > 0
    BY DEF TypeOK
  <2>3. Len(frames) = n /\ frames # <<>>
    BY <2>1, <2>2
  <2>4. Len(loops') = n - 1 /\ \A k \in 1 .. n - 1 : loops'[k] = loops[k]
    <3>1. loops # <<>> /\ loops' = SubSeq(loops, 1, Len(loops) - 1)
      OBVIOUS
    <3> HIDE DEF Return, ReturnTo
    <3> QED BY <3>1, <2>2, FrontAsFunction
  <2>5. frames' = [k \in 1 .. n - 1 |-> frames[k]]
    BY <2>2, <2>3 DEF TypeOK
  <2>6. \A k \in 1 .. n - 1 : loops'[k].site = frames[k]
    BY <2>1, <2>2, <2>4
  <2> HIDE DEF n, Return, ReturnTo, PopFrame
  <2> QED BY <2>4, <2>5, <2>6
<1>4. CASE UNCHANGED <<frames, loops, overflowed>>
  BY <1>4 DEF FramesAreCallSites
<1> QED BY <1>1, <1>2, <1>3, <1>4
        DEF Next, Straight, LoadField, Jump, CallNobody, Halt, Undefined, Finish, vars

\* As long as frames_ has not been found full, every PopFrame resumes the caller
\* of the loop that ends: the frames are the call sites of the C++ activations.
THEOREM FramesFollowCalls == Spec => []FramesAreCallSites
<1>1. Init => TypeOK /\ FramesAreCallSites
  <2>1. Init => FramesAreCallSites
    BY DEF Init, FramesAreCallSites
  <2> QED BY <2>1, TypeInit
<1>2. TypeOK /\ FramesAreCallSites /\ [Next]_vars => (TypeOK /\ FramesAreCallSites)'
  BY TypeStep, FramesStep
<1> QED BY <1>1, <1>2, PTL DEF Spec

-------------------------------------------------------------------------------
(* Well-typed programs *)

LEMMA SameProgram ==
    ASSUME prog' = prog
    PROVE  /\ WellTyped' <=> WellTyped
           /\ \A m : Code(m)' = Code(m) /\ prog'[m] = prog[m]
           /\ \A m, p : At(m, p)' = At(m, p)
BY DEF WellTyped, WellTypedMethod, Code, At, AtEnd, After, Successors

LEMMA ProgramIsKept == [Next]_vars => prog' = prog
BY DEF Next, vars, Execute, Straight, LoadField, Jump, Call, CallWith, CallNobody, Halt,
       Undefined, Return, ReturnTo, Finish

\* Going on within an activation to an instruction that follows.
LEMMA WithinActivation ==
    ASSUME IInv, WellTyped, ~overflowed, InLoop, NEW q \in Successors(Instr, pc), q \in Nat,
           Instr.op # "Call" \/ Instr.arg \notin Methods,
           NEW d, d = Plus(Minus(depth, Pops(Instr.op)), Pushes(Instr.op))
    PROVE  d = Plus(Base, At(method, q))
<1> USE DEF IInv
<1> DEFINE a == At(method, pc)
<1>1. method \in Methods /\ pc \in 0 .. Len(Code(method)) - 1 /\ running
  BY InstrType DEF InLoop, TypeOK
<1>2. a \in StackDepths /\ Base \in StackDepths
  BY <1>1, AtType, CodeType, BaseType
<1>3. depth = Plus(Base, a)
  BY <1>1 DEF DepthsAsTyped
<1>4. Covers(a, Pops(Instr.op)) /\ At(method, q) = After(Instr, a)
  BY <1>1, TypedAt, InstrType
<1>5. After(Instr, a) = Plus(Minus(a, Pops(Instr.op)), Pushes(Instr.op))
  BY DEF After
<1>6. Plus(Minus(Plus(Base, a), Pops(Instr.op)), Pushes(Instr.op))
        = Plus(Base, Plus(Minus(a, Pops(Instr.op)), Pushes(Instr.op)))
  BY <1>2, <1>4, PopsType, PushesType, OverBase
<1> QED BY <1>3, <1>4, <1>5, <1>6

\* Steps that stay within the activation keep what is known of the others.
LEMMA SameActivations ==
    ASSUME IInv, UNCHANGED <<prog, method, loops, nlocals, overflowed>>, running' => running
    PROVE  Activations' /\ Base' = Base
<1>1. Base' = Base
  BY DEF Base
<1>2. Activations'
  <2>1. WellTyped' => WellTyped
    BY SameProgram
  <2>2. \A k : Callee(k)' = Callee(k) /\ BaseOf(k)' = BaseOf(k)
    BY DEF Callee, BaseOf
  <2>3. SUFFICES ASSUME WellTyped, ~overflowed, running PROVE Entered'
    BY <2>1 DEF Activations
  <2>4. Entered
    BY <2>3 DEF IInv, Activations
  <2> QED BY <2>2, <2>4, SameProgram DEF Entered, EnteredAtCall
<1> QED BY <1>1, <1>2

\* An activation that a Call enters.
LEMMA EnterActivation ==
    ASSUME IInv, Call, WellTyped, ~overflowed'
    PROVE  Entered' /\ depth' = Plus(Base', At(method, pc)')
<1> USE DEF IInv
<1>0. PICK n \in Nat, m \in Methods, p \in Nat, d \in StackDepths :
        n = Len(loops) /\ m = method /\ p = pc /\ d = depth
  BY DEF TypeOK, StackDepths
<1> DEFINE site == [method |-> m, pc |-> p + 1]
           new  == [site |-> site, base |-> d]
<1>1. /\ InLoop /\ Instr.op = "Call" /\ Instr.arg \in Methods
      /\ loops' = Append(loops, new) /\ method' = Instr.arg /\ pc' = 0
      /\ nlocals' = GrownLocals
      /\ UNCHANGED <<prog, running, depth>>
  BY <1>0 DEF Call, CallWith
<1>2. ~overflowed /\ running
  BY <1>1 DEF Call, CallWith, TypeOK, InLoop
<1>3. Entered /\ depth = Plus(Base, At(method, pc))
  BY <1>2 DEF Activations, DepthsAsTyped
<1>4. /\ loops \in Seq(Activation) /\ n = Len(loops) /\ method \in Methods /\ pc \in Nat
      /\ depth \in StackDepths
  BY <1>0 DEF TypeOK, StackDepths
<1>5. /\ Len(loops') = n + 1
      /\ \A k \in 1 .. n : loops'[k] = loops[k]
      /\ loops'[n + 1] = new
  BY <1>1, <1>4
<1>6. nlocals' \in Nat /\ nlocals \in Nat /\ nlocals <= nlocals' /\ prog[Instr.arg].locals <= nlocals'
  BY <1>1, CodeType DEF GrownLocals, TypeOK
<1>7. Base' = depth
  <2>1. loops'[n + 1].base = depth /\ Len(loops') # 0
    BY <1>0, <1>4, <1>5
  <2> HIDE DEF IInv
  <2> QED BY <1>4, <1>5, <2>1 DEF Base
<1>8. depth' = Plus(Base', At(method, pc)')
  <2>1. At(method, pc)' = At(Instr.arg, 0)
    BY <1>1, SameProgram
  <2>2. At(Instr.arg, 0) = Empty
    BY <1>1, AtType, CodeType
  <2> QED BY <1>1, <1>4, <1>7, <2>1, <2>2, PlusEmpty
<1>9. prog'[method'].locals <= nlocals'
  BY <1>1, <1>6
<1>10. ASSUME NEW k \in 1 .. n PROVE EnteredAtCall(k)'
  <2>1. EnteredAtCall(k)
    BY <1>3, <1>4 DEF Entered
  <2>2. loops'[k] = loops[k] /\ BaseOf(k - 1)' = BaseOf(k - 1)
    BY <1>4, <1>5 DEF BaseOf
  <2>3. Callee(k)' = Callee(k)
    <3>1. CASE k = n
      <4>1. loops'[n + 1].site.method = method
        BY <1>0, <1>5
      <4> QED BY <3>1, <4>1, <1>4, <1>5 DEF Callee
    <3>2. CASE k # n
      <4>1. k + 1 \in 1 .. n
        BY <3>2
      <4> QED BY <3>2, <4>1, <1>4, <1>5 DEF Callee
    <3> QED BY <3>1, <3>2
  <2>4. loops[k].site \in Site
    <3>1. loops[k] \in Activation
      BY <1>4
    <3> QED BY <3>1 DEF Activation
  <2>5. prog[loops[k].site.method].locals \in Nat
    BY <2>4, CodeType DEF Site
  <2>6. prog[loops[k].site.method].locals <= nlocals'
    BY <1>6, <2>1, <2>5 DEF EnteredAtCall
  <2> HIDE DEF IInv
  <2> QED BY <1>1, <2>1, <2>2, <2>3, <2>6, SameProgram DEF EnteredAtCall
<1>11. EnteredAtCall(n + 1)'
  <2>1. loops'[n + 1].site = site /\ loops'[n + 1].base = d
    BY <1>5
  <2>2. Callee(n + 1)' = Instr.arg
    BY <1>1, <1>5 DEF Callee
  <2>3. BaseOf(n + 1 - 1)' = Base
    BY <1>4, <1>5, BaseType DEF BaseOf
  <2>4. p + 1 \in 1 .. Len(Code(m)) /\ Instr = Code(m)[p + 1]
    BY <1>0, <1>1, InstrType
  <2>5. prog[m].locals <= nlocals'
    <3>1. prog[m].locals <= nlocals /\ prog[m].locals \in Nat
      BY <1>0, <1>3, <1>4, CodeType DEF Entered
    <3> QED BY <3>1, <1>6
  <2>6. d = Plus(Base, At(m, p))
    BY <1>0, <1>3
  <2>7. site.method = m /\ site.pc = p + 1 /\ p + 1 - 1 = p
    OBVIOUS
  <2>8. loops'[n + 1].base = Plus(BaseOf(n + 1 - 1)', At(m, p)')
    BY <1>1, <2>1, <2>3, <2>6, SameProgram
  <2>9. /\ p + 1 \in 1 .. Len(Code(m)')
        /\ Code(m)'[p + 1].op = "Call" /\ Code(m)'[p + 1].arg = Callee(n + 1)'
        /\ prog'[m].locals <= nlocals'
    BY <1>1, <2>2, <2>4, <2>5, SameProgram
  <2> HIDE DEF IInv, site, new
  <2> QED BY <2>1, <2>7, <2>8, <2>9 DEF EnteredAtCall, At, AtEnd, Code
<1>12. Entered'
  BY <1>4, <1>5, <1>9, <1>10, <1>11 DEF Entered
<1> QED BY <1>8, <1>12

LEMMA CallGoesOn ==
    ASSUME NEW ins, ins.op = "Call", NEW p \in Nat, NEW before
    PROVE  /\ Successors(ins, p) = {p + 1}
           /\ ins.arg \in Methods =>
                After(ins, before)
                  = [Plus(before, AtEnd(ins.arg)) EXCEPT !["obj"] = before["obj"]]
BY DEF Successors, After, Length, Halts, Branches, IntBranch, UIntBranch, FloatBranch

\* The end of an activation: its caller goes on after the Call, with its operands
\* and the numbers that the callee left.
LEMMA LeaveActivation ==
    ASSUME IInv, Return, WellTyped, ~overflowed, running
    PROVE  Entered' /\ depth' = Plus(Base', At(method, pc)')
<1> USE DEF IInv
<1>0. PICK n \in Nat \ {0}, m \in Methods, site \in Site, base \in StackDepths :
        n = Len(loops) /\ m = method /\ loops[n] = [site |-> site, base |-> base]
  <2>1. loops # <<>> /\ loops \in Seq(Activation)
    BY DEF Return, ReturnTo, TypeOK
  <2>2. Len(loops) \in Nat \ {0} /\ loops[Len(loops)] \in Activation
    BY <2>1
  <2> QED BY <2>2 DEF TypeOK, Activation, StackDepths
<1>1. /\ frames = [k \in 1 .. n |-> loops[k].site]
      /\ Entered /\ depth = Plus(Base, At(method, pc))
  BY <1>0 DEF FramesAreCallSites, Activations, DepthsAsTyped
<1>2. /\ loops' = SubSeq(loops, 1, n - 1) /\ loops # <<>> /\ loops \in Seq(Activation)
      /\ depth' = [depth EXCEPT !["obj"] = IF @ > base["obj"] THEN base["obj"] ELSE @]
      /\ LoopEnds
      /\ UNCHANGED <<prog, running, nlocals>>
  BY <1>0 DEF Return, ReturnTo, TypeOK
<1>3. method' = site.method /\ pc' = site.pc
  <2>1. Len(frames) = n /\ frames # <<>> /\ frames[n] = site
    BY <1>0, <1>1
  <2> QED BY <2>1 DEF Return, ReturnTo
<1>4. Len(loops') = n - 1 /\ \A k \in 1 .. n - 1 : loops'[k] = loops[k]
  BY <1>0, <1>2, FrontAsFunction
<1>5. EnteredAtCall(n) /\ Callee(n) = m
  BY <1>0, <1>1 DEF Entered, Callee
<1> DEFINE a   == At(site.method, site.pc - 1)
           ins == Code(site.method)[site.pc]
<1>6. /\ site.method \in Methods /\ site.pc \in 1 .. Len(Code(site.method))
      /\ ins.op = "Call" /\ ins.arg = m
      /\ base = Plus(BaseOf(n - 1), a)
      /\ prog[site.method].locals <= nlocals
  BY <1>0, <1>5 DEF EnteredAtCall, Site
<1>7. /\ a \in StackDepths /\ AtEnd(m) \in StackDepths /\ BaseOf(n - 1) \in StackDepths
  <2>1. site.pc - 1 \in Nat /\ Code(site.method) \in Seq(Instructions)
    BY <1>6, CodeType
  <2>2. Code(m) \in Seq(Instructions) /\ 0 \in Nat
    BY CodeType
  <2>3. n - 1 \in 0 .. Len(loops)
    BY <1>0
  <2> HIDE DEF IInv
  <2>4. a \in StackDepths
    BY <1>6, <2>1, AtType
  <2>5. AtEnd(m) \in StackDepths
    BY <2>2, AtType
  <2> QED BY <2>3, <2>4, <2>5, BaseType DEF IInv
<1>8. At(method, pc) = AtEnd(m)
  <2>1. pc >= Len(Code(m)) /\ pc \in Nat /\ Code(m) \in Seq(Instructions)
    BY <1>0, <1>2, CodeType DEF LoopEnds, TypeOK
  <2> QED BY <1>0, <2>1, AtType
<1>9. At(site.method, site.pc) = [Plus(a, AtEnd(m)) EXCEPT !["obj"] = a["obj"]]
  <2>1. site.pc - 1 \in 0 .. Len(Code(site.method)) - 1 /\ site.pc - 1 + 1 = site.pc
    BY <1>6
  <2>2. \A q \in Successors(ins, site.pc - 1) : At(site.method, q) = After(ins, a)
    BY <1>6, <2>1, TypedAt
  <2>3. site.pc - 1 \in Nat /\ site.pc \in {site.pc - 1 + 1}
    BY <2>1, <1>6
  <2>4. Successors(ins, site.pc - 1) = {site.pc - 1 + 1}
    BY <1>6, <2>3, CallGoesOn
  <2>5. At(site.method, site.pc) = After(ins, a)
    BY <2>2, <2>3, <2>4
  <2> QED BY <1>6, <2>3, <2>5, CallGoesOn
<1>10. depth' = Plus(BaseOf(n - 1), At(site.method, site.pc))
  <2>1. depth = Plus(Plus(BaseOf(n - 1), a), AtEnd(m))
    BY <1>0, <1>1, <1>6, <1>8 DEF Base
  <2> HIDE DEF a
  <2> QED BY <1>2, <1>6, <1>7, <1>9, <2>1, Cleanup
<1>11. Base' = BaseOf(n - 1) /\ \A k \in 0 .. n - 1 : BaseOf(k)' = BaseOf(k)
  BY <1>0, <1>2, <1>4 DEF Base, BaseOf
<1>12. depth' = Plus(Base', At(method, pc)')
  <2>1. At(method, pc)' = At(site.method, site.pc)
    BY <1>2, <1>3, SameProgram DEF At, AtEnd, Code
  <2> QED BY <1>10, <1>11, <2>1
<1>13. prog'[method'].locals <= nlocals'
  BY <1>2, <1>3, <1>6
<1>14. ASSUME NEW k \in 1 .. n - 1 PROVE EnteredAtCall(k)'
  <2>1. EnteredAtCall(k) /\ k \in Nat /\ n \in Nat
    BY <1>0, <1>1 DEF Entered
  <2>2. loops'[k] = loops[k] /\ BaseOf(k - 1)' = BaseOf(k - 1)
    BY <1>4, <1>11
  <2>3. Callee(k)' = Callee(k)
    <3>1. CASE k = n - 1
      <4>1. Callee(k)' = site.method
        BY <3>1, <1>3, <1>4 DEF Callee
      <4>2. Callee(k) = site.method
        BY <3>1, <1>0, <2>1 DEF Callee
      <4> QED BY <4>1, <4>2
    <3>2. CASE k # n - 1
      <4>1. k + 1 \in 1 .. n - 1 /\ k # n
        BY <3>2, <2>1
      <4> QED BY <3>2, <4>1, <1>0, <1>4 DEF Callee
    <3> QED BY <3>1, <3>2
  <2> HIDE DEF IInv
  <2> QED BY <1>2, <2>1, <2>2, <2>3, SameProgram DEF EnteredAtCall
<1>15. Entered'
  BY <1>4, <1>13, <1>14 DEF Entered
<1> QED BY <1>12, <1>15

-------------------------------------------------------------------------------
LEMMA TypedStep ==
    IInv /\ [Next]_vars => DepthsAsTyped' /\ Activations' /\ StacksInBounds'
<1> SUFFICES ASSUME IInv, [Next]_vars
             PROVE  DepthsAsTyped' /\ Activations' /\ StacksInBounds'
  OBVIOUS
<1>0. prog' = prog /\ (WellTyped' <=> WellTyped)
  BY ProgramIsKept, SameProgram
<1>1. CASE Execute
  <2>1. overflowed' = FALSE /\ status' = "running" /\ loops' = <<>> /\ method' = Entry /\ pc' = 0
        /\ depth' = Empty /\ nlocals' = prog[Entry].locals
    BY <1>1 DEF Execute
  <2>2. Base' = Empty
    BY <2>1 DEF Base
  <2>3. ASSUME WellTyped PROVE At(method, pc)' = Empty
    <3>1. At(method, pc)' = At(Entry, 0)
      BY <2>1, <1>0 DEF At, AtEnd, Code
    <3> QED BY <2>3, <3>1, AtType, CodeType, ConstantsAssumption DEF IInv
  <2>4. DepthsAsTyped'
    BY <1>0, <2>1, <2>2, <2>3, EmptyType, PlusEmpty DEF DepthsAsTyped
  <2>5. prog[Entry].locals \in Nat
    BY CodeType, ConstantsAssumption DEF IInv
  <2>6. Activations'
    BY <1>0, <2>1, <2>5 DEF Activations, Entered
  <2> QED BY <2>1, <2>4, <2>6 DEF StacksInBounds
<1>2. ASSUME InLoop, Defined, NEW q \in Successors(Instr, pc), q \in Nat,
             Instr.op # "Call" \/ Instr.arg \notin Methods,
             depth' = Plus(Minus(depth, Pops(Instr.op)), Pushes(Instr.op)), pc' = q,
             UNCHANGED <<prog, status, method, running, frames, loops, nlocals, overflowed>>
      PROVE  DepthsAsTyped' /\ Activations' /\ StacksInBounds'
  <2>1. Activations' /\ Base' = Base
    BY <1>2, SameActivations
  <2>2. StacksInBounds'
    BY <1>0, <1>2 DEF StacksInBounds, InLoop
  <2>3. ASSUME WellTyped, ~overflowed PROVE depth' = Plus(Base, At(method, q))
    BY <1>2, <2>3, WithinActivation
  <2>4. At(method, pc)' = At(method, q)
    BY <1>2 DEF At, AtEnd, Code
  <2> QED BY <1>0, <1>2, <2>1, <2>2, <2>3, <2>4 DEF DepthsAsTyped
<1>3. CASE Straight
  <2>1. pc + Length(Instr.op) \in Successors(Instr, pc) /\ pc + Length(Instr.op) \in Nat
    BY <1>3 DEF Straight, Successors, Length, IInv, TypeOK
  <2> QED BY <1>2, <1>3, <2>1 DEF Straight
<1>4. ASSUME NEW b \in BOOLEAN, LoadField(b)
      PROVE  DepthsAsTyped' /\ Activations' /\ StacksInBounds'
  <2>1. ~WellTyped
    <3>1. TypeOK /\ InLoop /\ Instr.op = "Ldfld"
      BY <1>4 DEF LoadField, IInv
    <3>2. method \in Methods /\ pc \in 0 .. Len(Code(method)) - 1
      BY <3>1 DEF TypeOK, InLoop
    <3> QED BY <3>1, <3>2, InstrType, TypedAt
  <2>2. status' # "undefined"
    BY <1>4 DEF LoadField, InLoop
  <2> QED BY <1>0, <2>1, <2>2 DEF DepthsAsTyped, Activations, StacksInBounds
<1>5. ASSUME NEW b \in BOOLEAN, Jump(b)
      PROVE  DepthsAsTyped' /\ Activations' /\ StacksInBounds'
  <2> DEFINE q == IF b THEN Instr.arg ELSE pc + 1
  <2>1. /\ InLoop /\ Defined /\ Instr.op \in Branches \cup {"Br"} /\ (Instr.op = "Br" => b)
        /\ depth' = Minus(depth, Pops(Instr.op)) /\ pc' = q
        /\ UNCHANGED <<prog, status, method, running, frames, loops, nlocals, overflowed>>
    BY <1>5 DEF Jump
  <2>2. q \in Nat
    BY <2>1, InstrType DEF IInv, TypeOK, Instructions
  <2>3. Instr.op \notin Halts /\ Instr.op # "Call" /\ "Br" \notin Branches
    BY <2>1 DEF Halts, Branches, IntBranch, UIntBranch, FloatBranch
  <2>4. q \in Successors(Instr, pc)
    BY <2>1, <2>3 DEF Successors
  <2>5. depth' = Plus(Minus(depth, Pops(Instr.op)), Pushes(Instr.op))
    <3>1. Minus(depth, Pops(Instr.op)) \in StackDepths
      BY <2>1, DepthStepType, EmptyType DEF IInv, StackDepths
    <3> QED BY <2>1, <3>1, JumpsAndCallsPushNothing, PlusEmpty
  <2> HIDE DEF q
  <2> QED BY <1>2, <2>1, <2>2, <2>3, <2>4, <2>5
<1>6. CASE CallNobody
  <2>1. /\ InLoop /\ Instr.op = "Call" /\ Instr.arg \notin Methods /\ pc' = pc + 1
        /\ UNCHANGED <<prog, status, method, running, frames, loops, depth, nlocals, overflowed>>
    BY <1>6 DEF CallNobody
  <2>2. pc \in Nat /\ depth \in StackDepths
    BY DEF IInv, TypeOK, StackDepths
  <2>3. pc + 1 \in Successors(Instr, pc)
    BY <2>1, <2>2, CallGoesOn
  <2>4. Covers(depth, Empty) /\ Minus(depth, Empty) = depth
    BY <2>2 DEF Covers, Minus, Empty, Depths, StackDepths, Kinds
  <2>5. depth' = Plus(Minus(depth, Pops(Instr.op)), Pushes(Instr.op))
    BY <2>1, <2>2, <2>4, CallPopsNothing, JumpsAndCallsPushNothing, PlusEmpty
  <2>6. Defined
    BY <2>1, <2>4, CallPopsNothing DEF Defined, Locals
  <2> QED BY <1>2, <2>1, <2>2, <2>3, <2>5, <2>6
<1>7. CASE Call
  <2>1. status' # "undefined" /\ running' /\ overflowed \in BOOLEAN /\ (~overflowed' => ~overflowed)
    BY <1>7 DEF Call, CallWith, InLoop, IInv, TypeOK
  <2>2. ASSUME WellTyped, ~overflowed' PROVE Entered' /\ depth' = Plus(Base', At(method, pc)')
    BY <1>7, <2>2, EnterActivation
  <2> QED BY <1>0, <2>1, <2>2 DEF DepthsAsTyped, Activations, StacksInBounds
<1>8. CASE Return
  <2>1. status' # "undefined" /\ running' = running /\ overflowed' = overflowed
    BY <1>8 DEF Return, ReturnTo, LoopEnds
  <2>2. ASSUME WellTyped, ~overflowed, running
        PROVE  Entered' /\ depth' = Plus(Base', At(method, pc)')
    BY <1>8, <2>2, LeaveActivation
  <2> QED BY <1>0, <2>1, <2>2 DEF DepthsAsTyped, Activations, StacksInBounds
<1>9. CASE Halt
  BY <1>9 DEF Halt, InLoop, DepthsAsTyped, Activations, StacksInBounds
<1>10. CASE Undefined
  <2>1. InLoop /\ ~Defined /\ overflowed' = overflowed
    BY <1>10 DEF Undefined
  <2>2. ~(WellTyped /\ ~overflowed)
    BY <2>1, TypedIsDefined DEF IInv
  <2> QED BY <1>0, <2>1, <2>2 DEF DepthsAsTyped, Activations, StacksInBounds
<1>11. CASE Finish \/ UNCHANGED vars
  <2>1. UNCHANGED <<prog, method, pc, running, frames, loops, depth, nlocals, overflowed>>
        /\ (status' # "undefined" \/ status' = status)
    BY <1>11 DEF Finish, vars
  <2>2. Activations' /\ Base' = Base
    BY <2>1, SameActivations
  <2>3. At(method, pc)' = At(method, pc)
    BY <2>1 DEF At, AtEnd, Code
  <2> QED BY <1>0, <2>1, <2>2, <2>3 DEF IInv, DepthsAsTyped, StacksInBounds
<1> QED BY <1>1, <1>3, <1>4, <1>5, <1>6, <1>7, <1>8, <1>9, <1>10, <1>11 DEF Next

\* The inductive invariant: types, frames, annotated depths and call sites.
THEOREM InterpreterInvariant == Spec => []IInv
<1>1. Init => IInv
  <2>1. Init => DepthsAsTyped /\ Activations /\ StacksInBounds /\ FramesAreCallSites
    BY DEF Init, DepthsAsTyped, Activations, StacksInBounds, FramesAreCallSites
  <2> QED BY <2>1, TypeInit DEF IInv
<1>2. IInv /\ [Next]_vars => IInv'
  BY TypeStep, FramesStep, TypedStep DEF IInv
<1> QED BY <1>1, <1>2, PTL DEF Spec

\* A well-typed program never pops an empty stack nor names a local beyond
\* locals_, however its methods call one another on what they share.
THEOREM WellTypedRunsStayInBounds == Spec => []StacksInBounds
<1>1. IInv => StacksInBounds
  BY DEF IInv
<1> QED BY <1>1, InterpreterInvariant, PTL

\* The depth of every stack is the sum of what the activations below left and
\* what the current one is annotated with.
THEOREM DepthsFollowTypes == Spec => []DepthsAsTyped
<1>1. IInv => DepthsAsTyped
  BY DEF IInv
<1> QED BY <1>1, InterpreterInvariant, PTL

\* Every activation on the C++ stack was entered at the Call its saved site
\* names, on the depths its caller had there, and locals_ is large enough for
\* all of them: what makes PopFrame and the shared stacks safe to return to.
THEOREM ActivationsEnteredAtCalls == Spec => []Activations
<1>1. IInv => Activations
  BY DEF IInv
<1> QED BY <1>1, InterpreterInvariant, PTL

-------------------------------------------------------------------------------
(* Loop-free programs *)

LEMMA AppendedSite ==
    ASSUME NEW f \in Seq(Site), NEW s \in Site
    PROVE  /\ Append(f, s) \in Seq(Site) /\ Len(Append(f, s)) = Len(f) + 1
           /\ Len(f) \in Nat /\ Append(f, s)[Len(f) + 1] = s
           /\ \A j \in 1 .. Len(f) : Append(f, s)[j] = f[j]
  OBVIOUS

\* On in the same frame.
LEMMA FurtherInPlace ==
    ASSUME NEW f \in Seq(Site), NEW s \in Site, NEW t \in Site, Beyond(t, s)
    PROVE  Further(Append(f, t), Append(f, s))
  <1> DEFINE a == Append(f, s)
             b == Append(f, t)
             n == Len(f) + 1
  <1>1. /\ n \in 1 .. Len(a) /\ Len(b) = n /\ Len(b) >= n - 1
        /\ a[n] = s /\ b[n] = t /\ \A j \in 1 .. n - 1 : b[j] = a[j]
    BY AppendedSite
  <1> HIDE DEF a, b, n
  <1>2. Further(b, a)
    BY <1>1 DEF Further
  <1> QED  BY <1>2 DEF a, b

\* A frame more, over one that has moved on.
LEMMA FurtherAbove ==
    ASSUME NEW f \in Seq(Site), NEW s \in Site, NEW t \in Site, NEW u \in Site, Beyond(t, s)
    PROVE  Further(Append(Append(f, t), u), Append(f, s))
  <1> DEFINE a == Append(f, s)
             c == Append(f, t)
             b == Append(c, u)
             n == Len(f) + 1
  <1>1. /\ n \in 1 .. Len(a) /\ Len(c) = n /\ c \in Seq(Site)
        /\ a[n] = s /\ c[n] = t /\ \A j \in 1 .. n - 1 : c[j] = a[j]
    BY AppendedSite
  <1>2. Len(b) = n + 1 /\ b[n] = t /\ \A j \in 1 .. n - 1 : b[j] = a[j]
    <2> HIDE DEF a, c, n
    <2>1. n \in Nat /\ \A j \in 1 .. Len(c) : b[j] = c[j]
      BY <1>1, AppendedSite
    <2>2. Len(b) = Len(c) + 1
      BY <1>1, AppendedSite
    <2> HIDE DEF b
    <2> QED  BY <1>1, <2>1, <2>2
  <1> HIDE DEF a, b, c, n
  <1>3. Further(b, a)
    BY <1>1, <1>2 DEF Further
  <1> QED  BY <1>3 DEF a, b, c

\* Back to the last frame, behind where it was left.
LEMMA FurtherBelow ==
    ASSUME NEW f \in Seq(Site), NEW s \in Site, f # <<>>
    PROVE  LET n == Len(f)
               t == [method |-> f[n].method, pc |-> f[n].pc]
           IN  Further(Append(SubSeq(f, 1, n - 1), t), Append(f, s))
  <1> DEFINE n == Len(f)
             t == [method |-> f[n].method, pc |-> f[n].pc]
             g == SubSeq(f, 1, n - 1)
             a == Append(f, s)
             b == Append(g, t)
  <1>1. n \in Nat \ {0} /\ f[n] \in Site
    OBVIOUS
  <1>2. t = f[n] /\ t \in Site
    BY <1>1 DEF Site
  <1>3. g \in Seq(Site) /\ Len(g) = n - 1 /\ \A j \in 1 .. n - 1 : g[j] = f[j]
    <2>1. g = [k \in 1 .. n - 1 |-> f[k]] /\ Len(g) = n - 1
      BY FrontAsFunction
    <2>2. g \in Seq(Site)
      BY <1>1
    <2> QED  BY <2>1, <2>2
  <1>4. Len(a) = n + 1 /\ \A j \in 1 .. n : a[j] = f[j]
    BY AppendedSite
  <1>5. Len(b) = n /\ b[n] = f[n] /\ \A j \in 1 .. n - 1 : b[j] = f[j]
    <2> HIDE DEF t, g, n
    <2>1. Len(b) = Len(g) + 1 /\ b[Len(g) + 1] = t /\ \A j \in 1 .. Len(g) : b[j] = g[j]
      BY <1>2, <1>3, AppendedSite
    <2> HIDE DEF b
    <2> QED  BY <1>1, <1>2, <1>3, <2>1
  <1> HIDE DEF a, b, t, g, n
  <1>6. \A j \in 1 .. n : b[j] = a[j]
    BY <1>1, <1>4, <1>5
  <1>7. Further(b, a)
    <2>1. n + 1 \in 1 .. Len(a) /\ ~ (Len(b) >= n + 1) /\ Len(b) >= (n + 1) - 1
          /\ (n + 1) - 1 = n
      BY <1>1, <1>4, <1>5
    <2> QED  BY <1>6, <2>1 DEF Further
  <1> QED  BY <1>7 DEF a, b, t, g, n

LEMMA MoveStep == TypeOK /\ Next => MovesOn
  <1> SUFFICES ASSUME TypeOK, Next, LoopFree, status = "running", status' = "running"
               PROVE  \/ Further(Position', Position)
                      \/ Position' = Position /\ Len(loops') < Len(loops)
    BY DEF MovesOn
  <1> DEFINE s == [method |-> method, pc |-> pc]
  <1>1. s \in Site /\ frames \in Seq(Site) /\ method \in Methods /\ pc \in Nat
    BY DEF TypeOK, Site
  <1>2. ASSUME InLoop
        PROVE  /\ Instr.op \in Branches \cup {"Br"} => Instr.arg > pc
               /\ Instr.op = "Call" => Instr.arg > method
               /\ Instr.arg \in Nat
    <2>1. pc \in 0 .. Len(Code(method)) - 1
      BY <1>2, InstrType DEF TypeOK
    <2>2. Instr = Code(method)[pc + 1] /\ Instr.arg \in Nat
      BY <1>2, InstrType DEF Instructions
    <2> QED  BY <1>1, <2>1, <2>2 DEF LoopFree
  <1>3. ASSUME NEW q \in Nat, q > pc, pc' = q, method' = method, frames' = frames
        PROVE  Further(Position', Position)
    <2> DEFINE t == [method |-> method, pc |-> q]
    <2>1. t \in Site /\ Beyond(t, s)
      BY <1>1, <1>3 DEF Site, Beyond
    <2>2. Position = Append(frames, s) /\ Position' = Append(frames, t)
      BY <1>3 DEF Position
    <2> QED  BY <1>1, <2>1, <2>2, FurtherInPlace
  <1>4. CASE Straight
    <2>1. pc + Length(Instr.op) \in Nat /\ pc + Length(Instr.op) > pc
      BY <1>1 DEF Length
    <2> QED  BY <1>3, <1>4, <2>1 DEF Straight
  <1>5. CASE CallNobody \/ Halt \/ \E b \in BOOLEAN : LoadField(b)
    <2>1. pc' = pc + 1 /\ method' = method /\ frames' = frames
      BY <1>5 DEF CallNobody, Halt, LoadField
    <2> QED  BY <1>1, <1>3, <2>1
  <1>6. ASSUME NEW b \in BOOLEAN, Jump(b) PROVE Further(Position', Position)
    <2>1. /\ InLoop /\ Instr.op \in Branches \cup {"Br"}
          /\ pc' = (IF b THEN Instr.arg ELSE pc + 1) /\ method' = method /\ frames' = frames
      BY <1>6 DEF Jump
    <2>2. (IF b THEN Instr.arg ELSE pc + 1) \in Nat /\ (IF b THEN Instr.arg ELSE pc + 1) > pc
      BY <1>1, <1>2, <2>1
    <2> QED  BY <1>3, <2>1, <2>2
  <1>7. CASE Call
    <2>1. /\ InLoop /\ Instr.op = "Call" /\ Instr.arg \in Methods
          /\ frames' = PushFrame(pc + 1) /\ method' = Instr.arg /\ pc' = 0
      BY <1>7 DEF Call, CallWith
    <2> DEFINE t == [method |-> method, pc |-> pc + 1]
               u == [method |-> Instr.arg, pc |-> 0]
    <2>2. t \in Site /\ u \in Site /\ Beyond(t, s) /\ Beyond(u, s)
      BY <1>1, <1>2, <2>1 DEF Site, Beyond
    <2>3. Position = Append(frames, s) /\ Position' = Append(frames', u)
      BY <2>1 DEF Position
    <2>4. frames' = Append(frames, t) \/ frames' = frames
      BY <2>1 DEF PushFrame
    <2> HIDE DEF s, t, u
    <2>5. CASE frames' = Append(frames, t)
      BY <1>1, <2>2, <2>3, <2>5, FurtherAbove
    <2>6. CASE frames' = frames
      BY <1>1, <2>2, <2>3, <2>6, FurtherInPlace
    <2> QED  BY <2>4, <2>5, <2>6
  <1>8. CASE Return
    <2>1. /\ loops # <<>> /\ loops' = SubSeq(loops, 1, Len(loops) - 1)
          /\ frames = <<>> => UNCHANGED <<frames, method, pc>>
          /\ frames # <<>> => /\ frames' = SubSeq(frames, 1, Len(frames) - 1)
                             /\ method' = frames[Len(frames)].method
                             /\ pc' = frames[Len(frames)].pc
      BY <1>8 DEF Return, ReturnTo, PopFrame
    <2>2. CASE frames = <<>>
      <3>1. Len(loops') < Len(loops)
        BY <2>1, FrontAsFunction DEF TypeOK
      <3> QED  BY <2>1, <2>2, <3>1 DEF Position
    <2>3. CASE frames # <<>>
      BY <1>1, <2>1, <2>3, FurtherBelow DEF Position
    <2> QED  BY <2>2, <2>3
  <1>9. ~Execute /\ ~Undefined /\ ~Finish
    BY DEF Execute, Undefined, Finish
  <1> QED  BY <1>4, <1>5, <1>6, <1>7, <1>8, <1>9 DEF Next

\* A loop-free program goes on with every step it makes: it never comes back to
\* a call that it has made, nor to an instruction that it has left, not even
\* after frames_ was full and activations resume the wrong caller.
THEOREM LoopFreeMovesOn == Spec => AlwaysMovesOn
  BY MoveStep, TypesAreKept, PTL DEF Spec, AlwaysMovesOn

\* B bounds the methods, the length of their code and what it names.  Some B
\* does: method_bodies_ is a vector of vectors.
Within(B) ==
    \A m \in Methods :
        /\ m <= B /\ Len(Code(m)) <= B
        /\ \A p \in 1 .. Len(Code(m)) : Code(m)[p].arg <= B

SitesWithin(B) ==
    Within(B) => pc <= B + 1 /\ \A k \in 1 .. Len(frames) : frames[k].pc <= B + 1

\* What is left: of every frame, the methods behind its own and the instructions
\* behind its pc; then the activations.
Gap(B, s) == <<B + 1 - s.method, B + 1 - s.pc>>
Ahead(B, at, n) ==
    [i \in 1 .. MaxFrames + 2 |->
        IF i = MaxFrames + 2 THEN <<n, 0>>
        ELSE IF i <= Len(at) THEN Gap(B, at[i]) ELSE <<0, 0>>]
Left(B) == Ahead(B, Position, Len(loops))

LessNat  == OpToRel(<, Nat)
LessPair == LexPairOrdering(LessNat, LessNat, Nat, Nat)
Descent  == LexProductOrdering(LessPair, Nat \X Nat, MaxFrames + 2)
Measures == [1 .. MaxFrames + 2 -> Nat \X Nat]

LEMMA DescentEnds == IsWellFoundedOn(Descent, Measures)
  <1>1. IsWellFoundedOn(LessNat, Nat)
    BY NatLessThanWellFounded DEF LessNat
  <1>2. IsWellFoundedOn(LessPair, Nat \X Nat)
    BY <1>1, WFLexPairOrdering DEF LessPair
  <1>3. MaxFrames + 2 \in Nat
    BY ConstantsAssumption
  <1> QED  BY <1>2, <1>3, WFLexProductOrdering DEF Descent, Measures

LEMMA LessPairIs ==
    ASSUME NEW x1 \in Nat, NEW x2 \in Nat, NEW y1 \in Nat, NEW y2 \in Nat,
           x1 < y1 \/ (x1 = y1 /\ x2 < y2)
    PROVE  << <<x1, x2>>, <<y1, y2>> >> \in LessPair
  <1> DEFINE ss == << <<x1, x2>>, <<y1, y2>> >>
  <1>1. ss \in (Nat \X Nat) \X (Nat \X Nat)
    OBVIOUS
  <1>2. ss[1][1] = x1 /\ ss[1][2] = x2 /\ ss[2][1] = y1 /\ ss[2][2] = y2
    OBVIOUS
  <1>3. \A u, v \in Nat : u < v => <<u, v>> \in LessNat
    BY DEF LessNat, OpToRel
  <1>4. \/ <<ss[1][1], ss[2][1]>> \in LessNat
        \/ ss[1][1] = ss[2][1] /\ <<ss[1][2], ss[2][2]>> \in LessNat
    BY <1>2, <1>3
  <1> QED  BY <1>1, <1>4, Zenon DEF LessPair, LexPairOrdering

LEMMA DescentIs ==
    ASSUME NEW x \in Measures, NEW y \in Measures, NEW k \in 1 .. MaxFrames + 2,
           \A i \in 1 .. k - 1 : x[i] = y[i], <<x[k], y[k]>> \in LessPair
    PROVE  <<x, y>> \in Descent
  <1> DEFINE ff == <<x, y>>
  <1>1. ff \in Measures \X Measures /\ ff[1] = x /\ ff[2] = y
    OBVIOUS
  <1> HIDE DEF ff
  <1>2. ff \in Descent
    BY <1>1, Zenon DEF Descent, LexProductOrdering, Measures
  <1> QED  BY <1>2 DEF ff

\* A site within B, and sites within B, no more of them than fit.
Near(B, s) == s \in Site /\ s.method <= B /\ s.pc <= B + 1
Placed(B, at) ==
    /\ at \in Seq(Site) /\ Len(at) <= MaxFrames + 1
    /\ \A i \in 1 .. Len(at) : Near(B, at[i])

LEMMA GapIs ==
    ASSUME NEW B \in Nat, NEW s, Near(B, s)
    PROVE  Gap(B, s) \in Nat \X Nat /\ <<<<0, 0>>, Gap(B, s)>> \in LessPair
  <1>1. s.method \in Nat /\ s.pc \in Nat /\ s.method <= B /\ s.pc <= B + 1
    BY ConstantsAssumption DEF Near, Site
  <1>2. B + 1 - s.method \in Nat /\ B + 1 - s.pc \in Nat /\ 0 < B + 1 - s.method
    BY <1>1
  <1>3. << <<0, 0>>, <<B + 1 - s.method, B + 1 - s.pc>> >> \in LessPair
    BY <1>2, LessPairIs
  <1> QED  BY <1>2, <1>3 DEF Gap

LEMMA BeyondIsNearer ==
    ASSUME NEW B \in Nat, NEW s, NEW t, Near(B, s), Near(B, t), Beyond(t, s)
    PROVE  <<Gap(B, t), Gap(B, s)>> \in LessPair
  <1>1. /\ s.method \in Nat /\ s.pc \in Nat /\ s.method <= B /\ s.pc <= B + 1
        /\ t.method \in Nat /\ t.pc \in Nat /\ t.method <= B /\ t.pc <= B + 1
    BY ConstantsAssumption DEF Near, Site
  <1>2. /\ B + 1 - s.method \in Nat /\ B + 1 - s.pc \in Nat
        /\ B + 1 - t.method \in Nat /\ B + 1 - t.pc \in Nat
    BY <1>1
  <1>3. \/ B + 1 - t.method < B + 1 - s.method
        \/ B + 1 - t.method = B + 1 - s.method /\ B + 1 - t.pc < B + 1 - s.pc
    BY <1>1 DEF Beyond
  <1>4. << <<B + 1 - t.method, B + 1 - t.pc>>, <<B + 1 - s.method, B + 1 - s.pc>> >> \in LessPair
    BY <1>2, <1>3, LessPairIs
  <1> QED  BY <1>4 DEF Gap

LEMMA AheadIs ==
    ASSUME NEW B \in Nat, NEW at, Placed(B, at), NEW n \in Nat
    PROVE  /\ Ahead(B, at, n) \in Measures
           /\ \A i \in 1 .. MaxFrames + 1 :
                 /\ i <= Len(at) => Ahead(B, at, n)[i] = Gap(B, at[i])
                 /\ i > Len(at) => Ahead(B, at, n)[i] = <<0, 0>>
           /\ Ahead(B, at, n)[MaxFrames + 2] = <<n, 0>>
  <1>1. MaxFrames \in Nat /\ Len(at) \in Nat
    BY ConstantsAssumption DEF Placed
  <1>2. \A i \in 1 .. Len(at) : Gap(B, at[i]) \in Nat \X Nat
    BY GapIs DEF Placed
  <1>3. \A i \in 1 .. MaxFrames + 1 :
           /\ i \in 1 .. MaxFrames + 2 /\ i # MaxFrames + 2
           /\ i > Len(at) => ~ (i <= Len(at))
    BY <1>1
  <1>4. \A i \in 1 .. MaxFrames + 2 : i <= Len(at) => i \in 1 .. Len(at)
    BY <1>1
  <1>5. MaxFrames + 2 \in 1 .. MaxFrames + 2 /\ <<0, 0>> \in Nat \X Nat /\ <<n, 0>> \in Nat \X Nat
    BY <1>1
  <1>6. Ahead(B, at, n) \in Measures
    BY <1>2, <1>4, <1>5, Zenon DEF Ahead, Measures
  <1>7. \A i \in 1 .. MaxFrames + 1 :
           /\ i <= Len(at) => Ahead(B, at, n)[i] = Gap(B, at[i])
           /\ i > Len(at) => Ahead(B, at, n)[i] = <<0, 0>>
    BY <1>3, Zenon DEF Ahead
  <1>8. Ahead(B, at, n)[MaxFrames + 2] = <<n, 0>>
    BY <1>5, Zenon DEF Ahead
  <1> QED  BY <1>6, <1>7, <1>8

LEMMA FurtherDescends ==
    ASSUME NEW B \in Nat, NEW a, NEW b, Placed(B, a), Placed(B, b), Further(b, a),
           NEW n \in Nat, NEW k \in Nat
    PROVE  <<Ahead(B, b, k), Ahead(B, a, n)>> \in Descent
  <1>1. MaxFrames \in Nat /\ Len(a) \in Nat /\ Len(b) \in Nat /\ Len(a) <= MaxFrames + 1
    BY ConstantsAssumption DEF Placed
  <1>2. PICK i \in 1 .. Len(a) :
            /\ Len(b) >= i - 1 /\ \A j \in 1 .. i - 1 : b[j] = a[j]
            /\ Len(b) >= i => Beyond(b[i], a[i])
    BY Zenon DEF Further
  <1>3. i \in Nat /\ i \in 1 .. MaxFrames + 1 /\ i \in 1 .. MaxFrames + 2 /\ i <= Len(a)
    BY <1>1
  <1>4. PICK x, y : x = Ahead(B, b, k) /\ y = Ahead(B, a, n)
    OBVIOUS
  <1>5. /\ x \in Measures
        /\ \A j \in 1 .. MaxFrames + 1 : /\ j <= Len(b) => x[j] = Gap(B, b[j])
                                         /\ j > Len(b) => x[j] = <<0, 0>>
    BY <1>4, AheadIs
  <1>6. /\ y \in Measures
        /\ \A j \in 1 .. MaxFrames + 1 : j <= Len(a) => y[j] = Gap(B, a[j])
    BY <1>4, AheadIs
  <1>7. \A j \in 1 .. i - 1 : x[j] = y[j]
    <2>1. \A j \in 1 .. i - 1 : j \in 1 .. MaxFrames + 1 /\ j <= Len(a) /\ j <= Len(b)
      <3>1. Len(b) >= i - 1
        BY <1>2
      <3> QED  BY <1>1, <1>3, <3>1
    <2>2. \A j \in 1 .. i - 1 : x[j] = Gap(B, b[j]) /\ y[j] = Gap(B, a[j])
      BY <1>5, <1>6, <2>1, Zenon
    <2>3. \A j \in 1 .. i - 1 : b[j] = a[j]
      BY <1>2
    <2> QED  BY <2>2, <2>3, Zenon
  <1>8. <<x[i], y[i]>> \in LessPair
    <2>1. y[i] = Gap(B, a[i]) /\ Near(B, a[i])
      BY <1>3, <1>6 DEF Placed
    <2>2. CASE Len(b) >= i
      <3>1. i <= Len(b) /\ i \in 1 .. Len(b)
        BY <1>1, <1>3, <2>2
      <3>2. x[i] = Gap(B, b[i]) /\ Near(B, b[i])
        BY <1>3, <1>5, <3>1 DEF Placed
      <3>3. Beyond(b[i], a[i])
        BY <1>2, <2>2, Zenon
      <3> QED  BY <2>1, <3>2, <3>3, BeyondIsNearer
    <2>3. CASE ~ (Len(b) >= i)
      <3>1. i > Len(b)
        BY <1>1, <1>3, <2>3
      <3>2. x[i] = <<0, 0>>
        BY <1>3, <1>5, <3>1
      <3> QED  BY <2>1, <3>2, GapIs
    <2> QED  BY <2>2, <2>3
  <1>9. <<x, y>> \in Descent
    BY <1>3, <1>5, <1>6, <1>7, <1>8, DescentIs
  <1> QED  BY <1>4, <1>9

LEMMA FewerDescends ==
    ASSUME NEW B \in Nat, NEW a, Placed(B, a), NEW n \in Nat, NEW k \in Nat, k < n
    PROVE  <<Ahead(B, a, k), Ahead(B, a, n)>> \in Descent
  <1> DEFINE x == Ahead(B, a, k)
             y == Ahead(B, a, n)
             z == MaxFrames + 2
  <1>1. x \in Measures /\ y \in Measures /\ x[z] = <<k, 0>> /\ y[z] = <<n, 0>>
    BY AheadIs
  <1>2. z \in 1 .. MaxFrames + 2 /\ z - 1 = MaxFrames + 1
    BY ConstantsAssumption
  <1>3. \A j \in 1 .. MaxFrames + 1 : x[j] = y[j]
    <2>1. \A j \in 1 .. MaxFrames + 1 : j \in 1 .. MaxFrames + 2 /\ j # MaxFrames + 2
      BY ConstantsAssumption
    <2> QED  BY <2>1, Zenon DEF Ahead
  <1>4. <<x[z], y[z]>> \in LessPair
    BY <1>1, LessPairIs
  <1> HIDE DEF x, y, z
  <1>5. <<x, y>> \in Descent
    BY <1>1, <1>2, <1>3, <1>4, DescentIs
  <1> QED  BY <1>5 DEF x, y

\* The sites stay within B.
LEMMA SitesStay ==
    ASSUME TypeOK, NEW B \in Nat, SitesWithin(B), [Next]_vars
    PROVE  SitesWithin(B)'
  <1>1. prog' = prog
    BY ProgramIsKept
  <1>2. Within(B)' <=> Within(B)
    BY <1>1 DEF Within, Code
  <1> SUFFICES ASSUME Within(B)
               PROVE  pc' <= B + 1 /\ \A k \in 1 .. Len(frames') : frames'[k].pc <= B + 1
    BY <1>2 DEF SitesWithin
  <1>3. pc <= B + 1 /\ \A k \in 1 .. Len(frames) : frames[k].pc <= B + 1
    BY DEF SitesWithin
  <1>4. pc \in Nat /\ frames \in Seq(Site)
    BY DEF TypeOK
  <1>5. ASSUME InLoop PROVE pc + 1 <= B /\ Instr.arg <= B /\ Instr.arg \in Nat
    <2>1. pc + 1 \in 1 .. Len(Code(method)) /\ Instr.arg \in Nat /\ method \in Methods
      BY <1>5, InstrType DEF TypeOK, Instructions
    <2>2. Len(Code(method)) <= B /\ Instr.arg <= B
      BY <2>1 DEF Within, Instr
    <2>3. Len(Code(method)) \in Nat
      BY <2>1, CodeType DEF TypeOK
    <2> QED  BY <1>4, <2>1, <2>2, <2>3
  <1>6. CASE UNCHANGED frames /\ pc' <= B + 1
    BY <1>3, <1>6
  <1>7. CASE Straight
    <2>1. pc' = pc + Length(Instr.op) /\ UNCHANGED frames /\ InLoop
      BY <1>7 DEF Straight
    <2>2. pc' <= B + 1
      BY <1>4, <1>5, <2>1 DEF Length
    <2> QED  BY <1>6, <2>1, <2>2
  <1>8. CASE CallNobody \/ Halt \/ \E b \in BOOLEAN : LoadField(b)
    <2>1. pc' = pc + 1 /\ UNCHANGED frames /\ InLoop
      BY <1>8 DEF CallNobody, Halt, LoadField
    <2> QED  BY <1>4, <1>5, <1>6, <2>1
  <1>9. ASSUME NEW b \in BOOLEAN, Jump(b)
        PROVE  pc' <= B + 1 /\ UNCHANGED frames
    <2>1. InLoop /\ pc' = (IF b THEN Instr.arg ELSE pc + 1) /\ UNCHANGED frames
      BY <1>9 DEF Jump
    <2> QED  BY <1>4, <1>5, <2>1
  <1>10. CASE Call
    <2> DEFINE at == [method |-> method, pc |-> pc + 1]
    <2>1. InLoop /\ pc' = 0 /\ (frames' = Append(frames, at) \/ frames' = frames)
      BY <1>10 DEF Call, CallWith, PushFrame
    <2>2. at.pc <= B + 1 /\ at \in Site
      BY <1>4, <1>5, <2>1 DEF Site, TypeOK
    <2> HIDE DEF at
    <2>3. CASE frames' = Append(frames, at)
      <3>1. \A k \in 1 .. Len(frames') : k \in 1 .. Len(frames) \/ frames'[k] = at
        BY <1>4, <2>2, <2>3, AppendedSite
      <3>2. \A k \in 1 .. Len(frames) : frames'[k] = frames[k]
        BY <1>4, <2>2, <2>3, AppendedSite
      <3> QED  BY <1>3, <2>1, <2>2, <3>1, <3>2
    <2> QED  BY <1>6, <2>1, <2>3
  <1>11. CASE Return
    <2>1. CASE frames = <<>>
      BY <1>3, <1>11, <2>1 DEF Return, ReturnTo
    <2>2. CASE frames # <<>>
      <3>1. frames' = SubSeq(frames, 1, Len(frames) - 1) /\ pc' = frames[Len(frames)].pc
        BY <1>11, <2>2 DEF Return, ReturnTo, PopFrame
      <3>2. /\ Len(frames) \in 1 .. Len(frames) /\ Len(frames') = Len(frames) - 1
            /\ \A k \in 1 .. Len(frames) - 1 : frames'[k] = frames[k]
        BY <1>4, <2>2, <3>1, FrontAsFunction
      <3> QED  BY <1>3, <1>4, <3>1, <3>2
    <2> QED  BY <2>1, <2>2
  <1>12. CASE Execute \/ Undefined \/ Finish \/ UNCHANGED vars
    <2>1. (UNCHANGED <<pc, frames>>) \/ (pc' = 0 /\ frames' = <<>>)
      BY <1>12 DEF Execute, Undefined, Finish, vars
    <2> QED  BY <1>3, <2>1
  <1> QED  BY <1>6, <1>7, <1>8, <1>9, <1>10, <1>11, <1>12 DEF Next

PositionWithin(B) == Within(B) => Placed(B, Position)

LEMMA PositionIsPlaced ==
    ASSUME NEW B \in Nat
    PROVE  TypeOK /\ SitesWithin(B) => PositionWithin(B)
  <1> SUFFICES ASSUME TypeOK, SitesWithin(B), Within(B) PROVE Placed(B, Position)
    BY DEF PositionWithin
  <1> DEFINE s == [method |-> method, pc |-> pc]
  <1>1. /\ s \in Site /\ frames \in Seq(Site) /\ Len(frames) <= MaxFrames
        /\ s.method \in Methods /\ s.pc <= B + 1
        /\ \A k \in 1 .. Len(frames) : frames[k].pc <= B + 1
    BY DEF TypeOK, Site, SitesWithin
  <1>2. \A t \in Site : t.method <= B
    BY DEF Site, Within
  <1> HIDE DEF s
  <1>3. Near(B, s) /\ \A k \in 1 .. Len(frames) : Near(B, frames[k])
    BY <1>1, <1>2 DEF Near
  <1>4. PICK p : p = Append(frames, s)
    OBVIOUS
  <1>5. /\ p \in Seq(Site) /\ Len(p) = Len(frames) + 1 /\ Len(frames) \in Nat
        /\ p[Len(frames) + 1] = s /\ \A k \in 1 .. Len(frames) : p[k] = frames[k]
    BY <1>1, <1>4, AppendedSite
  <1>6. \A k \in 1 .. Len(p) : k \in 1 .. Len(frames) \/ k = Len(frames) + 1
    BY <1>5
  <1>7. \A k \in 1 .. Len(p) : Near(B, p[k])
    BY <1>3, <1>5, <1>6, Zenon
  <1>8. Len(p) <= MaxFrames + 1
    BY <1>1, <1>5, ConstantsAssumption
  <1>9. Placed(B, p)
    BY <1>5, <1>7, <1>8 DEF Placed
  <1> QED  BY <1>4, <1>9 DEF Position, s

\* Every step of a running loop-free program lessens what is left of it.
Descends(B) ==
    LoopFree /\ Within(B) /\ status = "running" /\ status' = "running"
        => <<Left(B)', Left(B)>> \in Descent

LEMMA DescendStep ==
    ASSUME NEW B \in Nat
    PROVE  TypeOK /\ TypeOK' /\ PositionWithin(B) /\ PositionWithin(B)' /\ Next
              => Descends(B)
  <1> SUFFICES ASSUME TypeOK, TypeOK', PositionWithin(B), PositionWithin(B)', Next,
                      LoopFree, Within(B), status = "running", status' = "running"
               PROVE  <<Left(B)', Left(B)>> \in Descent
    BY DEF Descends
  <1>1. Within(B)'
    BY ProgramIsKept DEF Within, Code
  <1>2. Placed(B, Position) /\ Placed(B, Position')
    BY <1>1 DEF PositionWithin, Placed, Near
  <1>3. loops \in Seq(Activation) /\ loops' \in Seq(Activation)
    BY DEF TypeOK
  <1>4. Len(loops) \in Nat /\ Len(loops') \in Nat
    BY <1>3
  <1>5. Left(B) = Ahead(B, Position, Len(loops)) /\ Left(B)' = Ahead(B, Position', Len(loops'))
    BY DEF Left, Ahead, Gap
  <1>6. Further(Position', Position) \/ (Position' = Position /\ Len(loops') < Len(loops))
    BY MoveStep DEF MovesOn
  <1>7. CASE Further(Position', Position)
    BY <1>2, <1>4, <1>5, <1>7, FurtherDescends
  <1>8. CASE Position' = Position /\ Len(loops') < Len(loops)
    BY <1>2, <1>4, <1>5, <1>8, FewerDescends
  <1> QED  BY <1>6, <1>7, <1>8

\* So an Execute of a loop-free program makes finitely many steps: Execute, its
\* ExecuteLoop and every CallMethod in it end, whatever B bounds the program.
THEOREM LoopFreeDescends ==
    ASSUME NEW B \in Nat
    PROVE  /\ Spec => [][Descends(B)]_vars
           /\ IsWellFoundedOn(Descent, Measures)
           /\ Spec => [](Within(B) => Left(B) \in Measures)
  <1>1. Spec => []SitesWithin(B)
    <2>1. Init => SitesWithin(B)
      BY DEF Init, SitesWithin
    <2>2. TypeOK /\ SitesWithin(B) /\ [Next]_vars => SitesWithin(B)'
      BY SitesStay
    <2> QED  BY <2>1, <2>2, TypesAreKept, PTL DEF Spec
  <1>2. TypeOK /\ SitesWithin(B) => PositionWithin(B)
    BY PositionIsPlaced
  <1>3. TypeOK /\ PositionWithin(B) => (Within(B) => Left(B) \in Measures)
    BY AheadIs DEF PositionWithin, Left, TypeOK
  <1>4. TypeOK /\ TypeOK' /\ PositionWithin(B) /\ PositionWithin(B)' /\ Next
           => Descends(B)
    BY DescendStep
  <1>5. Spec => [][Descends(B)]_vars
    BY <1>1, <1>2, <1>4, TypesAreKept, PTL DEF Spec
  <1>6. Spec => [](Within(B) => Left(B) \in Measures)
    BY <1>1, <1>2, <1>3, TypesAreKept, PTL
  <1> QED  BY <1>5, <1>6, DescentEnds

==============================================================================
