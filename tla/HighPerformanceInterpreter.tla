----------------------- MODULE HighPerformanceInterpreter -----------------------
(***************************************************************************)
(* HighPerformanceInterpreter, src/src/core/hp_interpreter.cpp, on the     *)
(* ThreadContext of src/src/core/runtime.h: a table of handlers and stacks *)
(* that are arrays without bounds.  Only the i32, f32, f64 and obj stacks  *)
(* exist.  Locals are written by Execute and read by nothing.              *)
(***************************************************************************)
EXTENDS StackMachine

CONSTANT Capacity       \* of each stack (2048 ints, 512 objects, 512 floats, 256 doubles)

ASSUME CapacityAssumption == Capacity \in [Kinds -> Nat]

HPExecute(m) == [m EXCEPT !.pc = 0, !.running = TRUE, !.stack = [k \in Kinds |-> <<>>]]

\* The slots whose handler is that of the opcode with the same number.
OwnSlot ==
    {"Dup", "Pop", "Ldc_R4", "Ldc_R8", "Br", "Brfalse", "Brtrue", "Beq", "Bge", "Bgt", "Ble",
     "Blt", "Call", "Ret", "Throw", "Box", "Newarr", "Ldlen", "Ldfld", "Stfld", "Ldsfld",
     "Stsfld", "Newobj", "Neg", "Not"} \cup (BinaryOps \ {"Ceq", "Cgt", "Clt"})

\* dispatch_table_: all constants share a handler, the branches on unsigned
\* comparisons get signed ones, Castclass and Isinst have each other's.
HandlerTable ==
    [slot \in 0 .. 255 |->
        CASE slot \in 22 .. 33       -> "Ldc_I4"
          [] slot = 39               -> "Call"
          [] slot = 43               -> "Br"
          [] slot = 44               -> "Brfalse"
          [] slot = 45               -> "Brtrue"
          [] slot \in {64, 65}       -> "Bge"
          [] slot = 66               -> "Bgt"
          [] slot = 67               -> "Ble"
          [] slot = 68               -> "Blt"
          [] slot = 116              -> "Isinst"
          [] slot = 117              -> "Castclass"
          [] slot \in {143, 148}     -> "Ldelem"
          [] slot \in {144, 158}     -> "Stelem"
          [] \E op \in OwnSlot : OpCode[op] = slot -> CHOOSE op \in OwnSlot : OpCode[op] = slot
          [] OTHER                   -> "Nop"]

\* Mutant of Relation: Bge as Bgt.
RelationOffByOne == [Beq |-> "eq", Bge |-> "gt", Bgt |-> "gt", Ble |-> "le", Blt |-> "lt"]

Relation == [Beq |-> "eq", Bge |-> "ge", Bgt |-> "gt", Ble |-> "le", Blt |-> "lt"]

\* What a handler pops without looking: a decrement of top below 0 wraps, and
\* the element it then reads is outside the array.
Needs(h) ==
    LET n(i, o) == [i32 |-> i, obj |-> o]
    IN  CASE h \in BinaryOps \cup DOMAIN Relation -> n(2, 0)
          [] h \in UnaryOps \cup {"Brfalse", "Brtrue", "Box", "Newarr"} -> n(1, 0)
          [] h \in {"Ldlen", "Ldfld", "Stsfld", "Castclass", "Isinst", "Throw"} -> n(0, 1)
          [] h = "Ldelem" -> n(1, 1)
          [] h = "Stelem" -> n(2, 1)
          [] h = "Stfld"  -> n(0, 2)
          [] OTHER        -> n(0, 0)

Enough(m, h) == \A k \in {"i32", "obj"} : Len(m.stack[k]) >= Needs(h)[k]

\* HandleDup and HandlePop prefer an int and do nothing on empty stacks.
HandleDup(m) ==
    CASE m.stack["i32"] # <<>> -> Push(m, "i32", Top(m, "i32"))
      [] m.stack["i32"] = <<>> /\ m.stack["obj"] # <<>> -> Push(m, "obj", Top(m, "obj"))
      [] OTHER -> m
HandlePop(m) == IF m.stack["i32"] # <<>> THEN Drop(m, "i32") ELSE Drop(m, "obj")

\* HandleRet returns an object when there is no int.
HandleRet(m) ==
    CASE m.stack["i32"] # <<>> ->
            [Drop(m, "i32") EXCEPT !.ret = Top(m, "i32"), !.running = FALSE]
      [] m.stack["i32"] = <<>> /\ m.stack["obj"] # <<>> ->
            [Drop(m, "obj") EXCEPT !.retobj = Top(m, "obj"), !.running = FALSE]
      [] OTHER -> [m EXCEPT !.running = FALSE]

HandleArray(m, h, peek) ==
    IF Top(m, "obj") = 0 THEN Faulted(m)
    ELSE CASE h = "Ldlen"  -> Push(Drop(m, "obj"), "i32", peek)
           [] h = "Ldelem" -> Push(Drop(Drop(m, "i32"), "obj"), "i32", peek)
           [] h = "Stelem" -> Drop(Drop2(m, "i32"), "obj")

\* HandleCall steps over the next instruction: it adds 1 to pc as the loop does.
Handle(m, body, ins, h, peek) ==
    CASE h = "Ldc_I4"          -> Push(m, "i32", ins.arg)
      [] h = "Ldc_R4"          -> Push(m, "f32", ins.arg)
      [] h = "Ldc_R8"          -> Push(m, "f64", DoubleOperand(m, body))
      [] h = "Dup"             -> HandleDup(m)
      [] h = "Pop"             -> HandlePop(m)
      [] h \in BinaryOps       -> Computed(m, "i32", h)
      [] h \in UnaryOps        -> ComputedUnary(m, h)
      [] h = "Br"              -> Goto(m, ins.arg)
      [] h = "Brfalse"         -> BranchOnTop(m, "zero", ins.arg)
      [] h = "Brtrue"          -> BranchOnTop(m, "nonzero", ins.arg)
      [] h \in DOMAIN Relation -> BranchIf(m, "i32", Relation[h], ins.arg)
      [] h = "Call"            -> Next1(m)
      [] h = "Ret"             -> HandleRet(m)
      [] h \in {"Box", "Newarr"} -> Push(Drop(m, "i32"), "obj", NewAddress)
      [] h \in {"Ldlen", "Ldelem", "Stelem"} -> HandleArray(m, h, peek)
      [] h = "Ldfld"           -> LoadField(m, ins.arg)
      [] h = "Stfld"           -> Drop2(m, "obj")
      [] h = "Ldsfld"          -> Push(m, "obj", 0)
      [] h = "Stsfld"          -> Drop(m, "obj")
      [] h = "Newobj"          -> Push(m, "obj", NewAddress)
      [] h = "Throw"           -> [Drop(m, "obj") EXCEPT !.running = FALSE]
      [] h \in {"Nop", "Castclass", "Isinst"} -> m

\* One round of ExecuteLoop.
HPStep(m, body, peek) ==
    LET ins   == body.code[m.pc + 1]
        h     == HandlerTable[LowByte(ins.op)]
        after == Handle(m, body, ins, h, peek)
    IN  CASE ~InLoop(m, body) -> m
          [] InLoop(m, body) /\ ~Enough(m, h) -> Faulted(m)
          [] OTHER -> IF after.fault THEN after
                      ELSE IF \E k \in Kinds : Len(after.stack[k]) > Capacity[k]
                      THEN Faulted(after) ELSE Next1(after)

==============================================================================
