----------------------------- MODULE MCInterpreters -----------------------------
(***************************************************************************)
(* Words of three bits, and every method that pushes something, executes   *)
(* one instruction of the set, and returns.                                *)
(***************************************************************************)
EXTENDS Interpreters, TLC

Width == 3
Signed(x) == IF x < 2 ^ (Width - 1) THEN x ELSE x - 2 ^ Width
Word(x)   == x % (2 ^ Width)
Bit(b)    == IF b THEN 1 ELSE 0
TRAP      == 2 ^ Width

\* C++ division truncates towards zero.
Quotient(a, b) == LET q == (IF a < 0 THEN -a ELSE a) \div (IF b < 0 THEN -b ELSE b)
                  IN  IF (a < 0) = (b < 0) THEN q ELSE -q
AndBits(a, b) == LET bit(x, i) == (x \div (2 ^ i)) % 2
                 IN  bit(a, 0) * bit(b, 0) + 2 * bit(a, 1) * bit(b, 1) + 4 * bit(a, 2) * bit(b, 2)

Compute(op, a, b) ==
    CASE op = "Add" -> Word(a + b)
      [] op = "Sub" -> Word(a - b)
      [] op = "Mul" -> Word(a * b)
      [] op = "Div" -> IF b = 0 THEN TRAP ELSE Word(Quotient(Signed(a), Signed(b)))
      [] op = "Rem" -> IF b = 0 THEN TRAP
                       ELSE Word(Signed(a) - Signed(b) * Quotient(Signed(a), Signed(b)))
      [] op = "And" -> AndBits(a, b)
      [] op = "Or"  -> a + b - AndBits(a, b)
      [] op = "Xor" -> a + b - 2 * AndBits(a, b)
      [] op = "Shl" -> Word(a * 2 ^ b)
      [] op = "Shr" -> Word(Signed(a) \div 2 ^ b)
      [] op = "Neg" -> Word(-a)
      [] op = "Not" -> 2 ^ Width - 1 - a
      [] op = "Ceq" -> Bit(a = b)
      [] op = "Cgt" -> Bit(Signed(a) > Signed(b))
      [] op = "Clt" -> Bit(Signed(a) < Signed(b))
      [] op = "Cgt_Un" -> Bit(a > b)
      [] op = "Clt_Un" -> Bit(a < b)
      [] op = "Div_Un" -> IF b = 0 THEN TRAP ELSE a \div b
      [] op = "Rem_Un" -> IF b = 0 THEN TRAP ELSE a % b
      [] op = "Shr_Un" -> a \div 2 ^ b

ArithDef ==
    [op \in BinaryOps \cup UnsignedOps \cup UnaryOps \cup {"Cgt_Un", "Clt_Un"} |->
        [p \in Words \X Words |-> Compute(op, p[1], p[2])]]

CapacityDef == [k \in Kinds |-> 3]

Ins(o, a) == [op |-> o, arg |-> a]
I(o) == Ins(o, 0)
Method(code, locals) == [code |-> code, locals |-> locals]

Pushes   == {Ins("Ldc_I4", 5), Ins("Ldc_I4_1", 1), I("Newobj"), I("Newarr"), Ins("LDloc_1", 0)}
Targeted == {"Br", "Brfalse_S", "Brtrue", "Bne_Un", "Bge_Un_S"}
Simple   == {"Break", "LDarg_0", "LDarg_3", "LDloc_0", "STloc_1", "LDnull", "Ldc_I4_8",
             "Ldc_R4", "Ldc_R8", "Dup", "Pop", "Call", "Jmp", "Ret", "Neg", "Not", "Div_Un",
             "Shr_Un", "Ldfld", "Stfld", "Ldsfld", "Stsfld", "Castclass", "Throw", "Box",
             "Ldlen", "Ldelem_I4", "Stelem_I4", "Rethrow"}

OneOperand == {Method(<<x, Ins(y, 3), I("Ret")>>, 2) : x \in Pushes, y \in Targeted \cup Simple}
TwoOperands ==
    {Method(<<Ins("Ldc_I4", 5), Ins("Ldc_I4", x), Ins(y, 4), Ins("Ldc_I4", 6), I("Ret")>>, 1) :
        x \in {2, 5}, y \in BinaryOps \cup {"Beq", "Bge", "Bgt_S", "Blt", "Ble"}}

DivideByZero == {Method(<<Ins("Ldc_I4", 5), Ins("Ldc_I4", 0), I("Div"), I("Ret")>>, 0)}

\* A loop that pushes until a stack is full, and one that counts down to zero
\* (src/tests/test_interpreter.cpp:81-93 is its branch).
Loops == {Method(<<I("LDnull"), I("Br")>>, 0), Method(<<Ins("Ldc_I4", 1), I("Br")>>, 0),
          Method(<<Ins("Ldc_I4", 2), Ins("Ldc_I4", 1), I("Sub"), I("Dup"), Ins("Brtrue", 1),
                   I("Ret")>>, 0)}

BodiesDef == OneOperand \cup TwoOperands \cup DivideByZero \cup Loops
ArgsDef   == {<<>>, <<4>>}

==============================================================================
