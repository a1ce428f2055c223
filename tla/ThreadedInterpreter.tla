--------------------------- MODULE ThreadedInterpreter ---------------------------
(***************************************************************************)
(* ThreadedInterpreter, src/src/core/threaded.cpp: handlers in a table     *)
(* that is indexed by the low byte of the opcode.                          *)
(***************************************************************************)
EXTENDS StackMachine

\* The opcodes InitDispatchTable names; the comparisons have two-byte numbers.
Registered ==
    {"Nop", "Ldc_I4", "Ldc_R4", "Dup", "Pop", "Br", "Brfalse", "Brtrue", "Call", "Ret",
     "Box", "Newarr", "Ldlen", "Ldfld", "Stfld", "Ldsfld", "Stsfld", "Newobj",
     "Castclass", "Isinst", "Throw"} \cup BinaryOps \cup UnaryOps

\* dispatch_table_: no two registered opcodes share a slot, and slots that
\* nobody registers do nothing.
DispatchTable ==
    [slot \in 0 .. 255 |->
        IF \E op \in Registered : LowByte(op) = slot
        THEN CHOOSE op \in Registered : LowByte(op) = slot
        ELSE "Nop"]

ThreadedExecute(m, body, args) ==
    [m EXCEPT !.pc = 0, !.running = TRUE,
              !.stack = [k \in Kinds |-> <<>>],
              !.locals = [i \in 1 .. body.locals |->
                            IF i <= Len(args) THEN args[i]
                            ELSE IF i <= Len(m.locals) THEN m.locals[i] ELSE 0]]

\* ExecDup duplicates an object, nullptr when there is none.
ExecDup(m) == Push(Push(Drop(m, "obj"), "obj", Top(m, "obj")), "obj", Top(m, "obj"))

ExecRet(m) ==
    IF m.stack["i32"] = <<>> THEN [m EXCEPT !.running = FALSE]
    ELSE [Drop(m, "i32") EXCEPT !.ret = Top(m, "i32"), !.running = FALSE]

\* Mutant of Dispatch's branches: the target is not decremented.
GotoTarget(m, target) == [m EXCEPT !.pc = target % WordMod]

ExecBr(m, target) == Goto(m, target)

ExecLdlen(m, peek) ==
    IF Top(m, "obj") = 0 THEN Faulted(m) ELSE Push(Drop(m, "obj"), "u32", peek)

\* The handler that is registered as Exec<h>.
Exec(m, ins, h, peek) ==
    CASE h = "Ldc_I4"      -> Push(m, "i32", ins.arg)
      [] h = "Ldc_R4"      -> Push(m, "f32", ins.arg)
      [] h = "Dup"         -> ExecDup(m)
      [] h \in {"Pop", "Stsfld"}    -> Drop(m, "obj")
      [] h \in BinaryOps   -> Computed(m, "i32", h)
      [] h \in UnaryOps    -> ComputedUnary(m, h)
      [] h = "Br"          -> ExecBr(m, ins.arg)
      [] h = "Brfalse"     -> BranchOnTop(m, "zero", ins.arg)
      [] h = "Brtrue"      -> BranchOnTop(m, "nonzero", ins.arg)
      [] h = "Ret"         -> ExecRet(m)
      [] h = "Newarr"      -> Push(Drop(m, "u32"), "obj", NewAddress)
      [] h = "Ldlen"       -> ExecLdlen(m, peek)
      [] h = "Ldfld"       -> LoadField(m, ins.arg)
      [] h = "Stfld"       -> Drop2(m, "obj")
      [] h \in {"Ldsfld", "Newobj"} -> Push(m, "obj", 0)
      [] h = "Throw"       -> [m EXCEPT !.running = FALSE]
      [] h \in {"Nop", "Call", "Box", "Castclass", "Isinst"} -> m

\* Dispatch(opcode): the handler in the slot of its low byte.
Dispatch(m, ins, peek) == Exec(m, ins, DispatchTable[LowByte(ins.op)], peek)

ThreadedStep(m, body, peek) ==
    LET after == Dispatch(m, body.code[m.pc + 1], peek)
    IN  IF ~InLoop(m, body) THEN m ELSE IF after.fault THEN after ELSE Next1(after)

==============================================================================
