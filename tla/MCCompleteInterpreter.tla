------------------------- MODULE MCCompleteInterpreter -------------------------
(***************************************************************************)
(* CompleteInterpreter on every program of a small alphabet, and on some   *)
(* longer ones: loops, recursion, a chain of calls deeper than frames_,    *)
(* floats, arrays, the methods of src/tests/test_complete.cpp.             *)
(***************************************************************************)
EXTENDS CompleteInterpreter, TLC

Ins(o, a) == [op |-> o, arg |-> a]
I(o) == Ins(o, 0)

\* The annotation that follows the code in its textual order, when method m is
\* taken to leave net[m] behind.
Annotation(code, net) ==
    LET at[p \in 0 .. Len(code)] ==
            IF p = 0 THEN Empty
            ELSE LET ins == code[p]
                 IN  IF ins.op = "Call" /\ ins.arg \in DOMAIN net
                     THEN Plus(at[p - 1], net[ins.arg])
                     ELSE Plus(Minus(at[p - 1], Pops(ins.op)), Pushes(ins.op))
    IN  at

Method(code, locals, net) == [code |-> code, locals |-> locals, at |-> Annotation(code, net)]

\* Every method that "some" does not define is empty.
Program(some) == [m \in Methods |-> IF m \in DOMAIN some THEN some[m] ELSE Method(<<>>, 0, <<>>)]

\* Method 0 with one local and method 1 with two; method 1 calls nobody.
TwoMethods(main, callee) ==
    LET leaf == Method(callee, 2, <<>>)
        net  == [m \in {1} |-> [leaf.at[Len(callee)] EXCEPT !["obj"] = 0]]
    IN  Program((0 :> Method(main, 1, net)) @@ (1 :> leaf))

MainAlphabet   == {I("Ldc_I4"), I("Add"), I("Newobj"), I("STloc"), Ins("Call", 1),
                   Ins("Brtrue", 3), I("Ret")}
CalleeAlphabet == {I("Ldc_I4"), I("Neg"), Ins("LDloc", 1), Ins("STloc", 1), I("Ret")}

Enumerated == {TwoMethods(main, callee) : main \in [1 .. 3 -> MainAlphabet],
                                          callee \in [1 .. 2 -> CalleeAlphabet]}

\* Method 1 calls itself or stops, without leaving anything behind.
Recursion ==
    LET net == [m \in {1} |-> Empty]
    IN  Program((0 :> Method(<<I("Newobj"), Ins("Call", 1), I("STloc")>>, 1, net))
        @@ (1 :> Method(<<I("Ldc_I4"), Ins("Brtrue", 4), I("Newobj"), Ins("Call", 1)>>, 1, net)))

\* As Recursion, but the callers need their operands after the call.
DeepOperands ==
    LET net == [m \in {1} |-> Empty]
    IN  Program((0 :> Method(<<I("Ldc_I4"), Ins("Call", 1), I("Neg"), Ins("Brtrue", 4)>>, 1, net))
        @@ (1 :> Method(<<I("Ldc_I4"), Ins("Brtrue", 5), I("Ldc_I4"), Ins("Call", 1),
                          Ins("Brtrue", 5)>>, 2, net)))

\* Code that uses every stack, a loop, a call of a method without a body, and
\* a field; Ldc_R8 with the high word it looks for, then without.
Mixed ==
    LET leaf == Method(<<I("Ldc_R4"), I("Ldc_R4"), I("Add_R4"), I("Ldnull"), I("Pop")>>, 0, <<>>)
        net  == [m \in {1} |-> leaf.at[5]]
    IN  Program((0 :> Method(<<I("Ldc_I4"), I("Conv_U4"), I("Newarr"), I("STloc"),
                       I("Ldc_R8"), I("Nop"), I("Neg_R8"), Ins("Call", 1), Ins("Call", 7),
                       I("Ldc_R4"), Ins("Bge_R4", 12), I("Nop"),
                       I("LDloc"), I("Ldlen"), Ins("Brfalse", 12), I("Ret")>>, 1, net))
        @@ (1 :> leaf))

Skipping ==
    Program((0 :> Method(<<I("Ldc_R8"), I("Neg_R8"), I("Newobj"), I("Ldfld"), I("STloc")>>, 1, <<>>)))

\* Each method calls the next: three activations, one more than MaxFrames.
Chain ==
    Program([m \in 0 .. 3 |->
        Method(IF m < 3 THEN <<I("Ldnull"), Ins("Call", m + 1), I("STloc")>> ELSE <<I("Nop")>>,
               1, [k \in 1 .. 3 |-> Empty])])

\* tests/test_complete.cpp:241-247 (Dup) and :249-257 (LocalVars).
TestDup ==
    Program((0 :> Method(<<I("Ldc_I4"), I("Dup"), I("Add"), I("Ret")>>, 0, <<>>)))
TestLocalVars ==
    Program((0 :> Method(<<I("Ldc_I4"), I("STloc"), I("LDloc"), I("Ret")>>, 1, <<>>)))

AllPrograms  == Enumerated \cup {Recursion, DeepOperands, Mixed, Skipping, Chain}
TestPrograms == {TestDup, TestLocalVars}

==============================================================================
