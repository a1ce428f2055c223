------------------------------ MODULE Interpreters ------------------------------
(***************************************************************************)
(* The three interpreters and a fresh Interpreter, given the same methods  *)
(* to execute, one after the other, an instruction at a time.              *)
(*                                                                         *)
(* The hosts' memory is not kept: what an array instruction reads is any   *)
(* of Peeks, chosen for each interpreter.  Callers pass at most max_locals *)
(* arguments, as Execute takes for granted.                                *)
(***************************************************************************)
EXTENDS Interpreter, ThreadedInterpreter, HighPerformanceInterpreter

CONSTANTS
    Bodies,       \* the methods: [code, locals]
    ArgLists,     \* the arguments
    Peeks,        \* words read from memory
    MaxRuns,      \* bound: how many methods are executed
    MaxDepth      \* bound: depth of a stack

ASSUME ProgramsAssumption ==
    /\ Bodies \subseteq [code : Seq([op : DOMAIN OpCode, arg : Words]), locals : Nat]
    /\ ArgLists \subseteq Seq(Nat) /\ Peeks \subseteq Words /\ MaxRuns \in Nat

VARIABLES
    body,         \* current_method_
    sw, th, hp,   \* Interpreter, ThreadedInterpreter, HighPerformanceInterpreter
    fresh,        \* an Interpreter constructed for this method
    runs,         \* history: methods executed so far
    alikeTh,      \* history: no instruction yet that the threaded interpreter reads differently
    alikeHp,      \* history: none that the high-performance one does
    written,      \* history: locals that this Execute has set
    foreign       \* history: it has read a local or memory that it had not

vars == <<body, sw, th, hp, fresh, runs, alikeTh, alikeHp, written, foreign>>

Init ==
    /\ body = [code |-> <<>>, locals |-> 0]
    /\ sw = NewMachine /\ th = NewMachine /\ hp = NewMachine /\ fresh = NewMachine
    /\ runs = 0
    /\ alikeTh = TRUE /\ alikeHp = TRUE
    /\ written = {} /\ foreign = FALSE

Busy == \E m \in {sw, th, hp, fresh} : InLoop(m, body)

\* All four execute the next method.  The vector of locals keeps what it held;
\* what it grows by is null.
ExecuteAll(b, args) ==
    /\ ~Busy /\ ~sw.fault
    /\ runs < MaxRuns /\ runs' = runs + 1
    /\ Len(args) <= b.locals
    /\ body' = b
    /\ sw' = Execute(sw, b, args)
    /\ th' = ThreadedExecute(th, b, args)
    /\ hp' = HPExecute(hp)
    /\ fresh' = Execute(NewMachine, b, args)
    /\ written' = (1 .. Len(args)) \cup (Len(sw.locals) + 1 .. b.locals)
    /\ foreign' = FALSE
    /\ UNCHANGED <<alikeTh, alikeHp>>

-------------------------------------------------------------------------------
(* Where the three tell the same story: by opcode, and for a few opcodes by  *)
(* what the stacks hold.                                                     *)

Plain == {"Nop", "LDarg_1", "LDarg_3", "LDarg_S", "LDarg", "Calli", "Ldc_I4", "Ldc_R4",
          "Br", "Brfalse", "Brtrue", "Ret", "Ldfld", "Stfld", "Ldsfld", "Stsfld",
          "Castclass", "Isinst", "Rethrow"}

AlikeThreaded(m, ins) ==
    \/ ins.op \in Plain \cup BinaryOps \cup UnaryOps \cup {"Jmp", "Call", "Pop", "Newarr", "Newobj"}
    \/ ins.op = "Dup" /\ m.stack["i32"] = <<>>

Depth(m, k) == Len(m.stack[k])

\* The high-performance interpreter has nothing to fall back on when a stack is
\* empty or full, and prefers ints.
AlikeHP(m, ins) ==
    /\ Enough(m, HandlerTable[LowByte(ins.op)])
    /\ \A k \in Kinds : Depth(m, k) < Capacity[k]
    /\ \/ ins.op \in (Plain \ {"Ret", "Rethrow"}) \cup UnaryOps
                     \cup (BinaryOps \ {"Ceq", "Cgt", "Clt"})
       \/ ins.op \in {"Break", "LDarg_0", "LDarg_2", "Ldc_I4_S", "Ldc_R8",
                      "Br_S", "Brfalse_S", "Brtrue_S", "Beq", "Bge", "Bgt", "Ble", "Blt", "Throw"}
       \/ ins.op \in DOMAIN ShortConstant /\ ShortConstant[ins.op] % WordMod = ins.arg
       \/ ins.op = "Dup" /\ Depth(m, "i32") + Depth(m, "obj") > 0
       \/ ins.op = "Pop" /\ Depth(m, "i32") = 0
       \/ ins.op = "Ret" /\ (Depth(m, "i32") > 0 \/ Depth(m, "obj") = 0)

ReadsMemory == {"Ldlen", "Ldelem_I4", "Ldelem_Any"}

ReadsForeign(m, ins) ==
    \/ ins.op \in ReadsMemory
    \/ Loads(ins.op) /\ LocalOf(ins) <= Len(m.locals) /\ LocalOf(ins) \notin written

\* Each interpreter that is not through executes one instruction.
StepAll ==
    /\ Busy
    /\ \A m \in {sw, th, hp, fresh} : \A k \in Kinds : Depth(m, k) <= MaxDepth
    /\ LET ins == IF InLoop(sw, body) THEN body.code[sw.pc + 1] ELSE [op |-> "Nop", arg |-> 0]
       IN  /\ \E p \in [{"sw", "th", "hp", "fresh"} -> Peeks] :
                /\ sw' = InterpreterStep(sw, body, p["sw"])
                /\ th' = ThreadedStep(th, body, p["th"])
                /\ hp' = HPStep(hp, body, p["hp"])
                /\ fresh' = InterpreterStep(fresh, body, p["fresh"])
           /\ alikeTh' = (alikeTh /\ AlikeThreaded(sw, ins))
           /\ alikeHp' = (alikeHp /\ (InLoop(sw, body) => AlikeHP(sw, ins)))
           /\ written' = IF Stores(ins.op) THEN written \cup {LocalOf(ins)} ELSE written
           /\ foreign' = (foreign \/ ReadsForeign(sw, ins))
    /\ UNCHANGED <<body, runs>>

Next == StepAll \/ \E b \in Bodies, args \in ArgLists : ExecuteAll(b, args)

Spec == Init /\ [][Next]_vars

-------------------------------------------------------------------------------
(* Properties *)

TypeOK ==
    /\ {sw, th, hp, fresh} \subseteq Machine
    /\ runs \in 0 .. MaxRuns
    /\ {alikeTh, alikeHp, foreign} \subseteq BOOLEAN
    /\ written \subseteq Nat

\* The classic and the threaded interpreter are in the same state, down to
\* the results that earlier methods left, until an instruction comes that the
\* low byte of the opcode, or a handler of its own, makes another one.
ThreadedAgrees == alikeTh => th = sw

\* So is the high-performance interpreter, but for its locals, which it does
\* not keep, and for the unsigned stack, which it does not have.
HPAgrees ==
    alikeHp =>
        /\ hp.pc = sw.pc /\ hp.running = sw.running /\ hp.fault = sw.fault /\ hp.ret = sw.ret
        /\ \A k \in Kinds \ {"u32"} : hp.stack[k] = sw.stack[k]

\* Execute forgets: unless it reads a local that it has not set, or memory, a
\* method runs on a used interpreter as on a new one; only a result that the
\* new one does not produce is left over.
ExecuteForgets ==
    ~foreign =>
        /\ sw.pc = fresh.pc /\ sw.running = fresh.running /\ sw.fault = fresh.fault
        /\ sw.stack = fresh.stack
        /\ fresh.ret # 0 => sw.ret = fresh.ret
        /\ \A i \in written \cap DOMAIN sw.locals : sw.locals[i] = fresh.locals[i]

\* No instruction moves an int to the unsigned stack, so until the length of an
\* array is read, unsigned arithmetic and comparisons only ever see zeros,
\* whatever the method has pushed.
UnsignedSeesZeros ==
    ~foreign => \A i \in DOMAIN sw.stack["u32"] : sw.stack["u32"][i] = 0

==============================================================================
