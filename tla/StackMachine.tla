------------------------------ MODULE StackMachine ------------------------------
(***************************************************************************)
(* The machine that Interpreter, ThreadedInterpreter and                   *)
(* HighPerformanceInterpreter (src/src/core/interpreter.cpp, threaded.cpp, *)
(* hp_interpreter.cpp) each keep: pc_, typed evaluation stacks, locals and *)
(* the last result.  A value is the bit pattern of a word; an object is    *)
(* its address, 0 for null.  What an object or array contains is not kept: *)
(* a word read from memory is given to the instruction as "peek".          *)
(***************************************************************************)
EXTENDS Integers, Sequences

CONSTANTS WordMod,      \* 2^32
          Arith,        \* Arith[op][<<a, b>>]: what the host computes, or Trap
          Trap,         \* the host stops the process instead
          NewAddress    \* an address the memory manager returns

Words == 0 .. WordMod - 1

BinaryOps   == {"Add", "Sub", "Mul", "Div", "Rem", "And", "Or", "Xor", "Shl", "Shr",
                "Ceq", "Cgt", "Clt"}
UnsignedOps == {"Div_Un", "Rem_Un", "Shr_Un"}
UnaryOps    == {"Neg", "Not"}

\* Negation and complement never trap; an unsigned operation on zeros traps or,
\* when it is a shift, gives zero.
ASSUME MachineAssumption ==
    /\ WordMod \in Nat \ {0} /\ NewAddress \in Nat \ {0} /\ Trap \notin Words
    /\ \A op \in BinaryOps \cup UnsignedOps \cup {"Cgt_Un", "Clt_Un"} :
            Arith[op] \in [Words \X Words -> Words \cup {Trap}]
    /\ \A op \in UnaryOps : Arith[op] \in [Words \X Words -> Words]
    /\ \A op \in UnsignedOps : Arith[op][<<0, 0>>] \in {0, Trap}

\* The numbers of enum class OpCode, those of il_parser.h.
OpCode ==
    [Nop |-> 0, Break |-> 1, LDarg_0 |-> 2, LDarg_1 |-> 3, LDarg_2 |-> 4, LDarg_3 |-> 5,
     LDloc_0 |-> 6, LDloc_1 |-> 7, LDloc_2 |-> 8, LDloc_3 |-> 9,
     STloc_0 |-> 10, STloc_1 |-> 11, STloc_2 |-> 12, STloc_3 |-> 13,
     LDarg_S |-> 14, LDarg |-> 15, LDloc_S |-> 17, LDloc |-> 18, STloc_S |-> 19, STloc |-> 20,
     LDnull |-> 21, Ldc_I4_M1 |-> 22, Ldc_I4_0 |-> 23, Ldc_I4_1 |-> 24, Ldc_I4_2 |-> 25,
     Ldc_I4_3 |-> 26, Ldc_I4_4 |-> 27, Ldc_I4_5 |-> 28, Ldc_I4_6 |-> 29, Ldc_I4_7 |-> 30,
     Ldc_I4_8 |-> 31, Ldc_I4_S |-> 32, Ldc_I4 |-> 33, Ldc_R4 |-> 34, Ldc_R8 |-> 35,
     Dup |-> 37, Pop |-> 38, Jmp |-> 39, Call |-> 40, Calli |-> 41, Ret |-> 42,
     Br_S |-> 43, Brfalse_S |-> 44, Brtrue_S |-> 45, Beq_S |-> 46, Bge_S |-> 47, Bgt_S |-> 48,
     Ble_S |-> 49, Blt_S |-> 50, Bne_Un_S |-> 51, Bge_Un_S |-> 52, Bgt_Un_S |-> 53,
     Ble_Un_S |-> 54, Blt_Un_S |-> 55, Br |-> 56, Brfalse |-> 57, Brtrue |-> 58, Beq |-> 59,
     Bge |-> 60, Bgt |-> 61, Ble |-> 62, Blt |-> 63, Bne_Un |-> 64, Bge_Un |-> 65,
     Bgt_Un |-> 66, Ble_Un |-> 67, Blt_Un |-> 68, Add |-> 88, Sub |-> 89, Mul |-> 90,
     Div |-> 91, Div_Un |-> 92, Rem |-> 93, Rem_Un |-> 94, And |-> 95, Or |-> 96, Xor |-> 97,
     Shl |-> 98, Shr |-> 99, Shr_Un |-> 100, Neg |-> 101, Not |-> 102, Newobj |-> 115,
     Castclass |-> 116, Isinst |-> 117, Throw |-> 122, Ldfld |-> 123, Stfld |-> 125,
     Ldsfld |-> 126, Stsfld |-> 128, Box |-> 140, Newarr |-> 141, Ldlen |-> 142,
     Ldelem_Any |-> 143, Stelem_Any |-> 144, Ldelem_I4 |-> 148, Stelem_I4 |-> 158,
     Rethrow |-> 65050, Ceq |-> 65025, Cgt |-> 65026, Clt |-> 65028]

\* static_cast<uint8_t>(opcode)
LowByte(op) == OpCode[op] % 256

Kinds == {"i32", "u32", "f32", "f64", "obj"}

NewMachine ==
    [pc |-> 0, running |-> FALSE, fault |-> FALSE, stack |-> [k \in Kinds |-> <<>>],
     locals |-> <<>>, ret |-> 0, retobj |-> 0]

Machine == [pc : Nat, running : BOOLEAN, fault : BOOLEAN, stack : [Kinds -> Seq(Nat)],
            locals : Seq(Nat), ret : Words, retobj : Nat]

-------------------------------------------------------------------------------
\* A division by zero, a null array, an index outside a stack: nothing follows.
Faulted(m) == [m EXCEPT !.fault = TRUE, !.running = FALSE]

Push(m, k, v) == [m EXCEPT !.stack[k] = Append(@, v)]

\* The vectors' pops: 0 or nullptr when nothing is there.
Top(m, k)  == LET s == m.stack[k] IN IF s = <<>> THEN 0 ELSE s[Len(s)]
Drop(m, k) == [m EXCEPT !.stack[k] = IF @ = <<>> THEN @ ELSE SubSeq(@, 1, Len(@) - 1)]
Drop2(m, k) == Drop(Drop(m, k), k)
Below(m, k) == Top(Drop(m, k), k)

\* Mutant of Computed: a division by zero goes on with what the host leaves.
ComputedUntrapped(m, k, op) == Push(Drop2(m, k), k, Arith[op][<<Below(m, k), Top(m, k)>>])

Computed(m, k, op) ==
    LET r == Arith[op][<<Below(m, k), Top(m, k)>>]
    IN  IF r = Trap THEN Faulted(m) ELSE Push(Drop2(m, k), k, r)

ComputedUnary(m, op) == Push(Drop(m, "i32"), "i32", Arith[op][<<Top(m, "i32"), 0>>])

\* pc_ = operand - 1, in uint32_t; the loop adds 1 afterwards.
Goto(m, target) == [m EXCEPT !.pc = (target + WordMod - 1) % WordMod]
Next1(m) == [m EXCEPT !.pc = (@ + 1) % WordMod]

\* The relation that a comparing branch tests, by the comparison it comes from.
Holds(rel, a, b) ==
    CASE rel = "eq" -> a = b
      [] rel = "ne" -> a # b
      [] rel = "ge" -> Arith["Clt"][<<a, b>>] = 0
      [] rel = "gt" -> Arith["Cgt"][<<a, b>>] = 1
      [] rel = "le" -> Arith["Cgt"][<<a, b>>] = 0
      [] rel = "lt" -> Arith["Clt"][<<a, b>>] = 1
      [] rel = "ge_un" -> Arith["Clt_Un"][<<a, b>>] = 0
      [] rel = "gt_un" -> Arith["Cgt_Un"][<<a, b>>] = 1
      [] rel = "le_un" -> Arith["Cgt_Un"][<<a, b>>] = 0
      [] rel = "lt_un" -> Arith["Clt_Un"][<<a, b>>] = 1

BranchIf(m, k, rel, target) ==
    LET popped == Drop2(m, k)
    IN  IF Holds(rel, Below(m, k), Top(m, k)) THEN Goto(popped, target) ELSE popped

\* The int on top is what the branch waits for, "zero" or "nonzero".
BranchOnTop(m, awaited, target) ==
    LET popped == Drop(m, "i32")
    IN  IF (Top(m, "i32") = 0) <=> (awaited = "zero") THEN Goto(popped, target) ELSE popped

\* A double is made of two operands, its own and that of the next instruction,
\* which is executed all the same.
DoubleOperand(m, body) ==
    LET high == IF m.pc + 2 <= Len(body.code) THEN body.code[m.pc + 2].arg ELSE 0
    IN  high * WordMod + body.code[m.pc + 1].arg

\* Ldfld computes an address; Stfld stores behind one.  Both pass over null.
LoadField(m, offset) ==
    LET popped == Drop(m, "obj")
    IN  IF Top(m, "obj") = 0 THEN popped ELSE Push(popped, "obj", Top(m, "obj") + offset)

InLoop(m, body) == m.running /\ m.pc < Len(body.code)

==============================================================================
