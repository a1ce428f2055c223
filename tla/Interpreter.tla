------------------------------- MODULE Interpreter -------------------------------
(***************************************************************************)
(* Interpreter, src/src/core/interpreter.cpp: the classic loop with one    *)
(* switch over the opcode.                                                 *)
(***************************************************************************)
EXTENDS StackMachine

\* The vector of locals at its new size: what was there stays, the rest is null.
Resized(locals, n) == [i \in 1 .. n |-> IF i <= Len(locals) THEN locals[i] ELSE 0]

\* Mutant of Execute: the stacks are not cleared.
ExecuteKeepsStacks(m, body, args) ==
    [m EXCEPT !.pc = 0, !.running = TRUE,
              !.locals = [i \in 1 .. body.locals |->
                            IF i <= Len(args) THEN args[i] ELSE Resized(@, body.locals)[i]]]

\* Execute(method, args, arg_count) up to its loop.
Execute(m, body, args) ==
    [m EXCEPT !.pc = 0, !.running = TRUE,
              !.stack = [k \in Kinds |-> <<>>],
              !.locals = [i \in 1 .. body.locals |->
                            IF i <= Len(args) THEN args[i] ELSE Resized(@, body.locals)[i]]]

ShortConstant ==
    [Ldc_I4_M1 |-> WordMod - 1, Ldc_I4_0 |-> 0, Ldc_I4_1 |-> 1, Ldc_I4_2 |-> 2,
     Ldc_I4_3 |-> 3, Ldc_I4_4 |-> 4, Ldc_I4_5 |-> 5, Ldc_I4_6 |-> 6, Ldc_I4_7 |-> 7,
     Ldc_I4_8 |-> 8]
ShortLoad  == [LDloc_0 |-> 0, LDloc_1 |-> 1, LDloc_2 |-> 2, LDloc_3 |-> 3]
ShortStore == [STloc_0 |-> 0, STloc_1 |-> 1, STloc_2 |-> 2, STloc_3 |-> 3]

Loads(op)  == op \in DOMAIN ShortLoad \cup {"LDloc_S", "LDloc"}
Stores(op) == op \in DOMAIN ShortStore \cup {"STloc_S", "STloc"}

\* The local that a load or a store names, counted from 1.
LocalOf(ins) ==
    1 + IF ins.op \in DOMAIN ShortLoad THEN ShortLoad[ins.op]
        ELSE IF ins.op \in DOMAIN ShortStore THEN ShortStore[ins.op] ELSE ins.arg

\* The comparing branches: the stack and the relation they test.
SignedBranch ==
    [Beq |-> "eq", Bge |-> "ge", Bgt |-> "gt", Ble |-> "le", Blt |-> "lt",
     Beq_S |-> "eq", Bge_S |-> "ge", Bgt_S |-> "gt", Ble_S |-> "le", Blt_S |-> "lt"]
UnsignedBranch ==
    [Bne_Un |-> "ne", Bge_Un |-> "ge_un", Bgt_Un |-> "gt_un", Ble_Un |-> "le_un",
     Blt_Un |-> "lt_un", Bne_Un_S |-> "ne", Bge_Un_S |-> "ge_un", Bgt_Un_S |-> "gt_un",
     Ble_Un_S |-> "le_un", Blt_Un_S |-> "lt_un"]

\* A load or a store of a local beyond locals_ does nothing, not even a pop.
LocalAccess(m, ins) ==
    LET i == LocalOf(ins)
    IN  CASE i > Len(m.locals) -> m
          [] i <= Len(m.locals) /\ Loads(ins.op) -> Push(m, "obj", m.locals[i])
          [] OTHER -> [Drop(m, "obj") EXCEPT !.locals[i] = Top(m, "obj")]

\* Dup looks for an int first, Pop only ever pops an object.
DupIntFirst(m) ==
    IF m.stack["i32"] # <<>> THEN Push(m, "i32", Top(m, "i32"))
    ELSE Push(Push(Drop(m, "obj"), "obj", Top(m, "obj")), "obj", Top(m, "obj"))

\* Ret keeps the old result when there is no int to return.
Returned(m) ==
    [Drop(m, "i32") EXCEPT !.ret = IF m.stack["i32"] = <<>> THEN @ ELSE Top(m, "i32"),
                           !.running = FALSE]

ArrayInstruction(m, op, peek) ==
    CASE op = "Newarr" -> Push(Drop(m, "u32"), "obj", NewAddress)
      [] op = "Ldlen"  -> IF Top(m, "obj") = 0 THEN Faulted(m)
                          ELSE Push(Drop(m, "obj"), "u32", peek)
      [] op \in {"Ldelem_I4", "Ldelem_Any"} ->
            IF Top(m, "obj") = 0 THEN Faulted(m)
            ELSE Push(Drop(Drop(m, "u32"), "obj"), "i32", peek)
      [] op \in {"Stelem_I4", "Stelem_Any"} ->
            IF Top(m, "obj") = 0 THEN Faulted(m) ELSE Drop(Drop(Drop(m, "i32"), "u32"), "obj")

ArrayOps == {"Newarr", "Ldlen", "Ldelem_I4", "Ldelem_Any", "Stelem_I4", "Stelem_Any"}

\* ExecuteInstruction(ins); what the switch does not list (Call too) does nothing.
ExecuteInstruction(m, body, ins, peek) ==
    LET op == ins.op
    IN  CASE op \in DOMAIN ShortConstant -> Push(m, "i32", ShortConstant[op] % WordMod)
          [] op \in {"Ldc_I4", "Ldc_I4_S"} -> Push(m, "i32", ins.arg)
          [] op = "Ldc_R4"               -> Push(m, "f32", ins.arg)
          [] op = "Ldc_R8"               -> Push(m, "f64", DoubleOperand(m, body))
          [] Loads(op) \/ Stores(op)     -> LocalAccess(m, ins)
          [] op = "Dup"                  -> DupIntFirst(m)
          [] op \in {"Pop", "Box", "Stsfld"} -> Drop(m, "obj")
          [] op \in BinaryOps            -> Computed(m, "i32", op)
          [] op \in UnsignedOps          -> Computed(m, "u32", op)
          [] op \in UnaryOps             -> ComputedUnary(m, op)
          [] op \in {"Br", "Br_S"}       -> Goto(m, ins.arg)
          [] op \in {"Brfalse", "Brfalse_S"} -> BranchOnTop(m, "zero", ins.arg)
          [] op \in {"Brtrue", "Brtrue_S"}   -> BranchOnTop(m, "nonzero", ins.arg)
          [] op \in DOMAIN SignedBranch  -> BranchIf(m, "i32", SignedBranch[op], ins.arg)
          [] op \in DOMAIN UnsignedBranch -> BranchIf(m, "u32", UnsignedBranch[op], ins.arg)
          [] op = "Ret"                  -> Returned(m)
          [] op \in {"LDnull", "Ldsfld", "Newobj"} -> Push(m, "obj", 0)
          [] op \in ArrayOps             -> ArrayInstruction(m, op, peek)
          [] op = "Ldfld"                -> LoadField(m, ins.arg)
          [] op = "Stfld"                -> Drop2(m, "obj")
          [] op = "Throw"                -> [Drop(m, "obj") EXCEPT !.running = FALSE]
          [] OTHER                       -> m

\* One round of Execute's loop.
InterpreterStep(m, body, peek) ==
    LET after == ExecuteInstruction(m, body, body.code[m.pc + 1], peek)
    IN  IF ~InLoop(m, body) THEN m ELSE IF after.fault THEN after ELSE Next1(after)

==============================================================================
