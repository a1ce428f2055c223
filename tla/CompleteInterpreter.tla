-------------------------- MODULE CompleteInterpreter --------------------------
(***************************************************************************)
(* CompleteInterpreter, src/src/core/complete_interpreter.{h,cpp}: the     *)
(* execution loop, the five typed evaluation stacks, the call frames.      *)
(*                                                                         *)
(* Kept: which stack every opcode pops and pushes, every change of pc_,    *)
(* current_method_, running_, frames_ and of the size of locals_, and the  *)
(* recursion ExecuteLoop -> CallMethod -> ExecuteLoop, whose C++ frames    *)
(* are the sequence "loops".  Abstracted: the values on the stacks (a      *)
(* stack is its depth, so a conditional branch goes either way) and what   *)
(* an instruction does to memory.  The undefined behaviour modelled is     *)
(* that of the vectors: back() of an empty stack, a local beyond locals_.  *)
(* A trap on a value (division by zero, a null array) ends the program in  *)
(* a state that is reached without it too.                                 *)
(***************************************************************************)
EXTENDS Integers, Sequences

CONSTANTS
    Methods,      \* method indices that have a body
    Entry,        \* the method passed to Execute
    Programs,     \* candidate contents of method_bodies_
    MaxFrames,    \* length of frames_ (64 in complete_interpreter.h:104)
    MaxNest       \* bound: depth of the C++ recursion explored

Instructions == [op : STRING, arg : Nat]

ASSUME ConstantsAssumption ==
    /\ Methods \subseteq Nat /\ Entry \in Methods
    /\ MaxFrames \in Nat /\ MaxNest \in Nat
    /\ \A g \in Programs : \A m \in Methods :
           g[m].code \in Seq(Instructions) /\ g[m].locals \in Nat

VARIABLES
    prog,         \* method_bodies_: for each method its code and max_locals
    status,       \* "idle", "running" or "undefined" (undefined behaviour)
    method, pc,   \* current_method_, pc_
    running,      \* running_
    frames,       \* frames_[0 .. frame_depth_ - 1]
    loops,        \* the CallMethod activations on the C++ stack
    depth,        \* size of each evaluation stack
    nlocals,      \* size of locals_
    overflowed    \* history: PushFrame has found frames_ full

vars == <<prog, status, method, pc, running, frames, loops, depth, nlocals, overflowed>>

Kinds == {"i32", "u32", "f32", "f64", "obj"}

Depths(i, u, f, d, o) ==
    [k \in Kinds |-> CASE k = "i32" -> i [] k = "u32" -> u [] k = "f32" -> f
                       [] k = "f64" -> d [] k = "obj" -> o]
Empty == Depths(0, 0, 0, 0, 0)

Plus(a, b)  == [k \in Kinds |-> a[k] + b[k]]
Minus(a, b) == [k \in Kinds |-> a[k] - b[k]]
Covers(a, b) == \A k \in Kinds : a[k] >= b[k]

-------------------------------------------------------------------------------
(* The opcodes, grouped by what they pop and push.  The short forms (Ldc_I4_0, *)
(* LDloc_0, Br_S, ...) are listed with the general form they stand for.        *)

IntBinary   == {"Add", "Sub", "Mul", "Div", "Rem", "And", "Or", "Xor", "Shl", "Shr",
                "Ceq", "Cgt", "Clt"}
UIntBinary  == {"Div_Un", "Rem_Un", "Shr_Un"}
FloatBinary == {"Add_R4", "Sub_R4", "Mul_R4", "Div_R4", "Rem_R4"}
FloatCompare == {"Ceq_R4", "Cgt_R4", "Clt_R4"}
DoubleBinary == {"Add_R8", "Sub_R8", "Mul_R8", "Div_R8", "Rem_R8"}
IntBranch   == {"Beq", "Bge", "Bgt", "Ble", "Blt"}
UIntBranch  == {"Bne_Un", "Bge_Un", "Bgt_Un", "Ble_Un", "Blt_Un"}
FloatBranch == {"Beq_R4", "Bge_R4", "Bgt_R4", "Ble_R4", "Blt_R4"}
Branches    == {"Brfalse", "Brtrue"} \cup IntBranch \cup UIntBranch \cup FloatBranch
Halts       == {"Ret", "Throw", "Rethrow"}
Locals      == {"LDloc", "STloc", "LDarg", "STarg"}

Pops(op) ==
    CASE op \in IntBinary \cup IntBranch                     -> Depths(2, 0, 0, 0, 0)
      [] op \in UIntBinary \cup UIntBranch                   -> Depths(0, 2, 0, 0, 0)
      [] op \in FloatBinary \cup FloatCompare \cup FloatBranch -> Depths(0, 0, 2, 0, 0)
      [] op \in DoubleBinary                                 -> Depths(0, 0, 0, 2, 0)
      [] op \in {"Neg", "Not", "Conv_R4", "Conv_R8", "Conv_U4", "Conv_I8",
                 "Brfalse", "Brtrue", "Box"}                 -> Depths(1, 0, 0, 0, 0)
      [] op \in {"Conv_R_Un", "Newarr"}                      -> Depths(0, 1, 0, 0, 0)
      [] op = "Neg_R4"                                       -> Depths(0, 0, 1, 0, 0)
      [] op = "Neg_R8"                                       -> Depths(0, 0, 0, 1, 0)
      [] op \in {"STloc", "STarg", "Dup", "Pop", "Ldlen", "Ldfld", "Stsfld", "Throw"}
                                                             -> Depths(0, 0, 0, 0, 1)
      [] op \in {"Ldelem_I4", "Ldelem_R4", "Ldelem_Ref"}     -> Depths(0, 1, 0, 0, 1)
      [] op = "Stelem_I4"                                    -> Depths(1, 1, 0, 0, 1)
      [] op = "Stelem_R4"                                    -> Depths(0, 1, 1, 0, 1)
      [] op = "Stelem_Ref"                                   -> Depths(0, 1, 0, 0, 2)
      [] op = "Stfld"                                        -> Depths(0, 0, 0, 0, 2)
      [] OTHER                                               -> Empty

Pushes(op) ==
    CASE op \in IntBinary \cup FloatCompare \cup {"Ldc_I4", "Neg", "Not", "Ldlen", "Ldelem_I4"}
                                                             -> Depths(1, 0, 0, 0, 0)
      [] op \in UIntBinary \cup {"Conv_U4"}                  -> Depths(0, 1, 0, 0, 0)
      [] op = "Conv_I8"                                      -> Depths(0, 2, 0, 0, 0)
      [] op \in FloatBinary \cup {"Ldc_R4", "Neg_R4", "Conv_R4", "Conv_R_Un", "Ldelem_R4"}
                                                             -> Depths(0, 0, 1, 0, 0)
      [] op \in DoubleBinary \cup {"Ldc_R8", "Neg_R8", "Conv_R8"}
                                                             -> Depths(0, 0, 0, 1, 0)
      [] op \in {"LDloc", "LDarg", "Box", "Newarr", "Ldelem_Ref", "Ldfld", "Ldsfld",
                 "Newobj", "Ldnull", "Ldstr"}                -> Depths(0, 0, 0, 0, 1)
      [] op = "Dup"                                          -> Depths(0, 0, 0, 0, 2)
      [] OTHER                                               -> Empty

\* Ldc_R8 takes the operand of the next entry of the code as its high word and
\* steps over that entry.
Length(op) == IF op = "Ldc_R8" THEN 2 ELSE 1

Code(m)  == prog[m].code
Instr    == Code(method)[pc + 1]
InLoop   == status = "running" /\ running /\ pc < Len(Code(method))
\* The stacks hold what the instruction pops, and the local it names exists.
Defined  == /\ Covers(depth, Pops(Instr.op))
            /\ Instr.op \in Locals => Instr.arg < nlocals

Init ==
    /\ prog \in Programs
    /\ status = "idle"
    /\ method = Entry /\ pc = 0 /\ running = FALSE
    /\ frames = <<>> /\ loops = <<>>
    /\ depth = Empty
    /\ nlocals = 256
    /\ overflowed = FALSE

-------------------------------------------------------------------------------
\* Execute(method) resets everything but locals_, which it resizes.
Execute ==
    /\ status = "idle"
    /\ status' = "running"
    /\ method' = Entry /\ pc' = 0 /\ running' = TRUE
    /\ frames' = <<>> /\ loops' = <<>>
    /\ depth' = Empty
    /\ nlocals' = prog[Entry].locals
    /\ overflowed' = FALSE
    /\ UNCHANGED prog

\* An instruction that pops, pushes and goes on.
Straight ==
    /\ InLoop /\ Defined
    /\ Instr.op \notin Branches \cup Halts \cup {"Br", "Call", "Ldfld"}
    /\ depth' = Plus(Minus(depth, Pops(Instr.op)), Pushes(Instr.op))
    /\ pc' = pc + Length(Instr.op)
    /\ UNCHANGED <<prog, status, method, running, frames, loops, nlocals, overflowed>>

\* Ldfld on a null object pushes nothing.
LoadField(null) ==
    /\ InLoop /\ Defined /\ Instr.op = "Ldfld"
    /\ depth' = Plus(Minus(depth, Pops("Ldfld")), IF null THEN Empty ELSE Pushes("Ldfld"))
    /\ pc' = pc + 1
    /\ UNCHANGED <<prog, status, method, running, frames, loops, nlocals, overflowed>>

Jump(taken) ==
    /\ InLoop /\ Defined
    /\ Instr.op \in Branches \cup {"Br"} /\ (Instr.op = "Br" => taken)
    /\ depth' = Minus(depth, Pops(Instr.op))
    /\ pc' = IF taken THEN Instr.arg ELSE pc + 1
    /\ UNCHANGED <<prog, status, method, running, frames, loops, nlocals, overflowed>>

\* What a call does, when PushFrame keeps "kept" as the frames and locals_ grows
\* to "size".
CallWith(kept, size) ==
    /\ InLoop /\ Instr.op = "Call" /\ Instr.arg \in Methods
    /\ Len(loops) < MaxNest
    /\ frames' = kept
    /\ overflowed' = (overflowed \/ Len(frames) >= MaxFrames)
    /\ loops' = Append(loops, [site |-> [method |-> method, pc |-> pc + 1], base |-> depth])
    /\ method' = Instr.arg /\ pc' = 0
    /\ nlocals' = size
    /\ UNCHANGED <<prog, status, running, depth>>

PushFrame(at) ==
    IF Len(frames) < MaxFrames THEN Append(frames, [method |-> method, pc |-> at]) ELSE frames
GrownLocals == IF prog[Instr.arg].locals > nlocals THEN prog[Instr.arg].locals ELSE nlocals

\* Mutants of Call: frames_ without its bound, the pc of the call itself saved,
\* locals_ left as small as it is.
CallNoBound   == CallWith(Append(frames, [method |-> method, pc |-> pc + 1]), GrownLocals)
CallSavesCall == CallWith(PushFrame(pc), GrownLocals)
CallKeepsSize == CallWith(PushFrame(pc + 1), nlocals)

\* CallMethod up to the nested ExecuteLoop.  Nobody is called when the method
\* has no body; PushFrame keeps nothing when frames_ is full.
Call == CallWith(PushFrame(pc + 1), GrownLocals)

CallNobody ==
    /\ InLoop /\ Instr.op = "Call" /\ Instr.arg \notin Methods
    /\ pc' = pc + 1
    /\ UNCHANGED <<prog, status, method, running, frames, loops, depth, nlocals, overflowed>>

\* Ret, Throw and Rethrow only clear running_.
Halt ==
    /\ InLoop /\ Defined /\ Instr.op \in Halts
    /\ running' = FALSE
    /\ depth' = Minus(depth, Pops(Instr.op))
    /\ pc' = pc + 1
    /\ UNCHANGED <<prog, status, method, frames, loops, nlocals, overflowed>>

\* A pop of an empty vector, or a local beyond locals_.
Undefined ==
    /\ InLoop /\ ~Defined
    /\ status' = "undefined"
    /\ UNCHANGED <<prog, method, pc, running, frames, loops, depth, nlocals, overflowed>>

LoopEnds == status = "running" /\ (~running \/ pc >= Len(Code(method)))

\* The nested loop ends: PopFrame, then the objects above "base" are dropped.
\* PopFrame does nothing when no frame is left.
ReturnTo(rest, base) ==
    /\ LoopEnds /\ loops # <<>>
    /\ depth' = [depth EXCEPT !["obj"] = IF @ > base THEN base ELSE @]
    /\ loops' = SubSeq(loops, 1, Len(loops) - 1)
    /\ IF frames = <<>>
       THEN UNCHANGED <<frames, method, pc>>
       ELSE /\ frames' = rest
            /\ method' = frames[Len(frames)].method
            /\ pc' = frames[Len(frames)].pc
    /\ UNCHANGED <<prog, status, running, nlocals, overflowed>>

PopFrame == SubSeq(frames, 1, Len(frames) - 1)

\* Mutants of Return: frame_depth_ not decremented, the wrong saved base.
ReturnKeepsFrame == ReturnTo(frames, loops[Len(loops)].base["obj"])
ReturnIntBase    == ReturnTo(PopFrame, loops[Len(loops)].base["i32"])

Return == ReturnTo(PopFrame, loops[Len(loops)].base["obj"])

\* The outermost loop ends, and Execute with it.
Finish ==
    /\ LoopEnds /\ loops = <<>>
    /\ status' = "idle"
    /\ UNCHANGED <<prog, method, pc, running, frames, loops, depth, nlocals, overflowed>>

Next ==
    \/ Execute \/ Straight \/ Call \/ CallNobody \/ Halt \/ Undefined \/ Return \/ Finish
    \/ \E b \in BOOLEAN : LoadField(b) \/ Jump(b)

Spec == Init /\ [][Next]_vars

\* Execute runs its loop until the loop ends; nobody is obliged to call it.
FairSpec == Spec /\ WF_vars(Next /\ status # "idle")

-------------------------------------------------------------------------------
(* Well-typed programs.  Nothing in the code verifies a method; a method is    *)
(* well typed when its annotation "at" gives one depth per stack to each       *)
(* instruction, relative to the depths it is entered with, and the code agrees *)
(* with it: what a compiler for this interpreter would have to establish.      *)

At(m, p) == IF p < Len(Code(m)) THEN prog[m].at[p] ELSE prog[m].at[Len(Code(m))]
AtEnd(m) == prog[m].at[Len(Code(m))]

\* The depths after the instruction, when execution goes on from it.
After(ins, before) ==
    CASE ins.op = "Call" /\ ins.arg \in Methods ->
            [Plus(before, AtEnd(ins.arg)) EXCEPT !["obj"] = before["obj"]]
      [] OTHER -> Plus(Minus(before, Pops(ins.op)), Pushes(ins.op))

Successors(ins, p) ==
    CASE ins.op \in Halts    -> {}
      [] ins.op = "Br"       -> {ins.arg}
      [] ins.op \in Branches -> {ins.arg, p + 1}
      [] OTHER               -> {p + Length(ins.op)}

WellTypedMethod(m) ==
    /\ prog[m].at \in [0 .. Len(Code(m)) -> [Kinds -> Nat]]
    /\ At(m, 0) = Empty
    /\ \A p \in 0 .. Len(Code(m)) - 1 :
        LET ins == Code(m)[p + 1]
        IN  /\ ins.op # "Ldfld"
            /\ ins.op \in Locals => ins.arg < prog[m].locals
            /\ Covers(At(m, p), Pops(ins.op))
            /\ \A q \in Successors(ins, p) : At(m, q) = After(ins, At(m, p))

WellTyped == \A m \in Methods : WellTypedMethod(m)

-------------------------------------------------------------------------------
(* Properties *)

Site       == [method : Methods, pc : Nat]
Activation == [site : Site, base : [Kinds -> Nat]]

TypeOK ==
    /\ prog \in Programs
    /\ status \in {"idle", "running", "undefined"}
    /\ method \in Methods /\ pc \in Nat /\ running \in BOOLEAN
    /\ frames \in Seq(Site) /\ Len(frames) <= MaxFrames
    /\ loops \in Seq(Activation)
    /\ depth \in [Kinds -> Nat]
    /\ nlocals \in Nat
    /\ overflowed \in BOOLEAN

\* A well-typed program never pops an empty stack nor reads past locals_, in
\* whatever order its methods call one another, although the callee works on
\* the stacks and the locals of its caller.
StacksInBounds == WellTyped /\ ~overflowed => status # "undefined"

\* The same, for any program and any depth of calls.
AlwaysInBounds == status # "undefined"

\* frames_ holds the call sites of the activations on the C++ stack, so every
\* PopFrame resumes the caller of the loop that has ended.
FramesAreCallSites ==
    ~overflowed => frames = [k \in 1 .. Len(loops) |-> loops[k].site]

\* What the current activation found on the stacks when it was entered.
Base == IF loops = <<>> THEN Empty ELSE loops[Len(loops)].base

\* Every activation of a well-typed program finds the stacks as its own code
\* left them, whatever the methods it called did to the stacks it shares with
\* them: they leave their result, and no object.
DepthsAsTyped ==
    WellTyped /\ ~overflowed /\ running => depth = Plus(Base, At(method, pc))

(* The inductive invariant. *)

\* The method that the k-th activation runs.
Callee(k) == IF k = Len(loops) THEN method ELSE loops[k + 1].site.method
BaseOf(k) == IF k = 0 THEN Empty ELSE loops[k].base

\* The k-th activation was entered at a Call, on the stacks its caller had there.
EnteredAtCall(k) ==
    LET site == loops[k].site
    IN  /\ site.pc \in 1 .. Len(Code(site.method))
        /\ Code(site.method)[site.pc].op = "Call"
        /\ Code(site.method)[site.pc].arg = Callee(k)
        /\ loops[k].base = Plus(BaseOf(k - 1), At(site.method, site.pc - 1))
        /\ prog[site.method].locals <= nlocals

\* All were, and locals_ is big enough for all of them.
Entered == /\ prog[method].locals <= nlocals
           /\ \A k \in 1 .. Len(loops) : EnteredAtCall(k)

Activations == WellTyped /\ ~overflowed /\ running => Entered

IInv == TypeOK /\ StacksInBounds /\ FramesAreCallSites /\ DepthsAsTyped /\ Activations

\* No jump goes back and every call goes to a higher method index.
LoopFree ==
    \A m \in Methods : \A p \in 0 .. Len(Code(m)) - 1 :
        LET ins == Code(m)[p + 1]
        IN  /\ ins.op \in Branches \cup {"Br"} => ins.arg > p
            /\ ins.op = "Call" => ins.arg > m

\* Execute of a loop-free program ends: the callee's loop resumes its caller
\* after the call, not at it, even when frames_ was full.
LoopFreeEnds == LoopFree /\ status = "running" ~> status # "running"

\* Where execution stands: the sites to return to and the next instruction.
Position == Append(frames, [method |-> method, pc |-> pc])

\* Site t is further than s: in a later method, or later in the same one.
Beyond(t, s) == t.method > s.method \/ (t.method = s.method /\ t.pc > s.pc)

\* Position b is further than a: where they part, b has ended or is beyond a.
Further(b, a) ==
    \E i \in 1 .. Len(a) :
        /\ Len(b) >= i - 1 /\ \A j \in 1 .. i - 1 : b[j] = a[j]
        /\ Len(b) >= i => Beyond(b[i], a[i])

\* Every step of a loop-free program goes further; only when frames_ was full
\* does an activation end without moving, and then there is one less.
MovesOn ==
    LoopFree /\ status = "running" /\ status' = "running"
        => Further(Position', Position) \/ (Position' = Position /\ Len(loops') < Len(loops))
AlwaysMovesOn == [][MovesOn]_vars

==============================================================================
