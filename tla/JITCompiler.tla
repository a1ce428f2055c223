------------------------------- MODULE JITCompiler -------------------------------
(***************************************************************************)
(* JITCompiler and NativeCodeEmitter, src/src/core/jit_compiler.{h,cpp}:   *)
(* one emitter, reused for every method, whose bytes are copied into the   *)
(* CompiledCode of the method; compiling a method again replaces the       *)
(* CompiledCode it had.                                                    *)
(*                                                                         *)
(* Bytes are kept as they are, because the properties are about which they *)
(* are and what an x86-64 processor reads in them.  Page protection and    *)
(* the counters nothing writes are left out.                               *)
(***************************************************************************)
EXTENDS Integers, Sequences

CONSTANTS
    JITMethods,     \* method indices
    Bodies,         \* [max_locals, code : sequences of [op, n]]
    InitialSize,    \* size of the emitter's first buffer: 4096
    MaxCompiles     \* bound: calls of Compile

ASSUME JITConstantsAssumption ==
    /\ InitialSize \in Nat \ {0} /\ MaxCompiles \in Nat
    /\ Bodies \subseteq [max_locals : Nat, code : Seq([op : STRING, n : Int])]

VARIABLES
    code_,          \* the emitter's buffer, whole
    offset_,        \* how much of it is written
    compiled,       \* compiled_methods_: method -> the bytes of its CompiledCode
    body,           \* history: what each method in compiled_methods_ was compiled from
    compiles        \* bound: calls of Compile

jitVars == <<code_, offset_, compiled, body, compiles>>

Unwritten == 256

JITInit ==
    /\ code_ = [i \in 1 .. InitialSize |-> Unwritten] /\ offset_ = 0
    /\ compiled = <<>> /\ body = <<>> /\ compiles = 0

-------------------------------------------------------------------------------
\* The buffer is doubled until "needed" bytes, of which there are at most eight,
\* fit behind the offset.
NewSize(em, needed) ==
    LET enough == {k \in {2, 4, 8, 16} : k * Len(em.code) >= em.offset + needed}
    IN  Len(em.code) * (CHOOSE k \in enough : \A j \in enough : k <= j)

\* Mutant of Grow: the bytes written so far are not copied.
GrowUncopied(em, needed) == [i \in 1 .. NewSize(em, needed) |-> Unwritten]

\* Grow: the bytes before the offset are copied.
Grow(em, needed) ==
    [i \in 1 .. NewSize(em, needed) |-> IF i <= em.offset THEN em.code[i] ELSE Unwritten]

\* Mutant of Emitted: Emit32 and Emit64 make room for one byte, and what does
\* not fit is lost.
EmittedPastEnd(em, bs) ==
    LET room == IF em.offset + 1 > Len(em.code) THEN Grow(em, 1) ELSE em.code
    IN  [code   |-> [i \in DOMAIN room |-> IF i \in em.offset + 1 .. em.offset + Len(bs)
                                           THEN bs[i - em.offset] ELSE room[i]],
         offset |-> IF em.offset + Len(bs) > Len(room) THEN Len(room) ELSE em.offset + Len(bs)]

\* Emit, Emit32, Emit64: one, four or eight bytes.
Emitted(em, bs) ==
    LET room == IF em.offset + Len(bs) > Len(em.code) THEN Grow(em, Len(bs)) ELSE em.code
    IN  [code   |-> [i \in DOMAIN room |-> IF i \in em.offset + 1 .. em.offset + Len(bs)
                                           THEN bs[i - em.offset] ELSE room[i]],
         offset |-> em.offset + Len(bs)]

\* A 32-bit word, the low byte first.
Word(n) == <<n % 256, (n \div 256) % 256, (n \div 65536) % 256, (n \div 16777216) % 256>>

Emit(em, byte)            == Emitted(em, <<byte>>)
Emit32(em, n)             == Emitted(em, Word(n))
Emit64(em, n)             == Emitted(em, Word(n) \o Word((n \div 65536) \div 65536))
EmitModRM(em, mod, r, rm) == Emit(em, 64 * mod + 8 * r + rm)

\* The registers Compile uses.  They are below 8, so that no REX prefix is ever
\* emitted, not even one that makes an instruction a 64-bit one.
RAX == 0
RBX == 3
RSP == 4
RBP == 5

MovRegImm32(em, r, n)     == Emit32(Emit(em, 184 + r), n)
MovRegImm64(em, r, n)     == Emit64(Emit(em, 184 + r), n)
MovRegMem(em, r, base, n) == Emit(EmitModRM(Emit(em, 139), 1, r, base), n % 256)
PushReg(em, r)            == Emit(em, 80 + r)
PopReg(em, r)             == Emit(em, 88 + r)
AddRegReg(em, dst, src)   == EmitModRM(Emit(em, 1), 3, src, dst)
SubRegReg(em, dst, src)   == EmitModRM(Emit(em, 41), 3, src, dst)
ImulRegReg(em, dst, src)  == EmitModRM(Emit(Emit(em, 15), 175), 3, dst, src)
Ret(em)                   == Emit(em, 195)

\* What Compile emits before the body.  The size of the locals is a 32-bit one.
FrameMade(em)       == EmitModRM(Emit(Emit(MovRegImm64(PushReg(em, RBP), RBP, 0), 72), 137),
                                 3, RSP, RBP)
LocalsMade(em, size) == Emit32(EmitModRM(Emit(Emit(em, 72), 129), 3, 5, RSP), size)
PrologueMade(em, locals) ==
    IF Word(8 * locals) = Word(0) THEN FrameMade(em) ELSE LocalsMade(FrameMade(em), 8 * locals)

\* Constants go to eax (n is the opcode less 0x17 for a short one, and the operand
\* for Ldc_I4 and Ldc_I4_S, which are one case), an arithmetic instruction pops rbx
\* first, and any other opcode, Ret included, emits nothing.
Constants == {"Ldc_I4_short", "Ldc_I4"}
Translated(em, i) ==
    CASE i.op \in Constants -> MovRegImm32(em, RAX, i.n)
      [] i.op = "Add" -> AddRegReg(PopReg(em, RBX), RAX, RBX)
      [] i.op = "Sub" -> SubRegReg(PopReg(em, RBX), RAX, RBX)
      [] i.op = "Mul" -> ImulRegReg(PopReg(em, RBX), RAX, RBX)
      [] OTHER -> em

EpilogueMade(em) == Ret(PopReg(MovRegMem(em, RSP, RBP, 0), RBP))

\* What Compile leaves in the emitter em, which has nothing written in it.
CompiledIn(em, b) ==
    LET upTo[k \in 0 .. Len(b.code)] ==
            IF k = 0 THEN PrologueMade(em, b.max_locals) ELSE Translated(upTo[k - 1], b.code[k])
    IN  EpilogueMade(upTo[Len(b.code)])

Output(em) == SubSeq(em.code, 1, em.offset)

\* emitter_.Reset(): the buffer stays as large as it is, with what is in it.
Restarted == [code |-> code_, offset |-> 0]

-------------------------------------------------------------------------------
Put(m, k, v) == [x \in DOMAIN m \cup {k} |-> IF x = k THEN v ELSE m[x]]
Without(m, ks) == [x \in DOMAIN m \ ks |-> m[x]]

\* Compile(method, m)
Compile(m, b) ==
    LET out == CompiledIn(Restarted, b)
    IN  /\ compiles < MaxCompiles
        /\ compiles' = compiles + 1
        /\ code_' = out.code /\ offset_' = out.offset
        /\ compiled' = Put(compiled, m, Output(out))
        /\ body' = Put(body, m, b)

\* The bytes a caller gets for m: those of the CompiledCode, or none.
GetCompiledCode(m) == IF m \in DOMAIN compiled THEN compiled[m] ELSE <<>>

Invalidate(ms) ==
    /\ compiled' = Without(compiled, ms) /\ body' = Without(body, ms)
    /\ UNCHANGED <<code_, offset_, compiles>>

InvalidateMethod(m) == Invalidate({m})
InvalidateAll       == Invalidate(JITMethods)

JITNext ==
    \/ \E m \in JITMethods :
          \/ \E b \in Bodies : Compile(m, b)
          \/ InvalidateMethod(m)
    \/ InvalidateAll

JITSpec == JITInit /\ [][JITNext]_jitVars

-------------------------------------------------------------------------------
JITTypeOK ==
    /\ offset_ \in 0 .. Len(code_) /\ compiles \in 0 .. MaxCompiles
    /\ DOMAIN compiled = DOMAIN body /\ DOMAIN compiled \subseteq JITMethods
    /\ \A m \in DOMAIN compiled : \A i \in DOMAIN compiled[m] : compiled[m][i] \in 0 .. 255

\* A buffer nothing was ever written in and that never has to grow: Compile emits
\* at most 25 bytes around the body, and five for an instruction.
Roomy(b) == [code |-> [i \in 1 .. 25 + 5 * Len(b.code) |-> Unwritten], offset |-> 0]

\* The bytes GetCompiledCode gives for a method are a function of the body it was
\* last compiled from and of nothing else: not of what the buffer held before,
\* longer methods included, nor of where it had to grow, in the middle of an
\* instruction too, nor of the methods compiled and invalidated since
\* (jit_compiler.cpp:23-38, 154-168, 239-281).  Whether they are the right bytes
\* is CodeAsCommented.
CodeIsOfBody ==
    \A m \in JITMethods :
        GetCompiledCode(m) =
            IF m \in DOMAIN body THEN Output(CompiledIn(Roomy(body[m]), body[m])) ELSE <<>>

-------------------------------------------------------------------------------
\* Instructions, each as the set of its encodings, the operand at the end left off.
\* Those that the comments of Compile name (jit_compiler.cpp:170, 173, 181, 211,
\* 234) are of the width of the registers named there; no comment says how Sub and
\* Mul are done, and they may be either.
Instruction(code, size) == [code |-> code, size |-> size]
PushRbp   == {Instruction(<<85>>, 1)}
MovRbpRsp == {Instruction(<<72, 137, 229>>, 3), Instruction(<<72, 139, 236>>, 3)}
SubRspImm == {Instruction(<<72, 129, 236>>, 7)}
MovEaxImm == {Instruction(<<184>>, 5)}
PopRbx    == {Instruction(<<91>>, 1)}
AddRaxRbx == {Instruction(<<72, 1, 216>>, 3), Instruction(<<72, 3, 195>>, 3)}
SubRbx    == {Instruction(<<41, 216>>, 2), Instruction(<<72, 41, 216>>, 3)}
MulRbx    == {Instruction(<<15, 175, 195>>, 3), Instruction(<<72, 15, 175, 195>>, 4)}
MovRspRbp == {Instruction(<<72, 137, 236>>, 3), Instruction(<<72, 139, 229>>, 3)}
PopRbp    == {Instruction(<<93>>, 1)}
RetNear   == {Instruction(<<195>>, 1)}

\* The list of instructions a body is to become: each as its encodings and the
\* operand it ends with.
AsCommented(b) ==
    LET Of(i) ==
            CASE i.op \in Constants -> << <<MovEaxImm, Word(i.n)>> >>
              [] i.op = "Add" -> << <<PopRbx, <<>>>>, <<AddRaxRbx, <<>>>> >>
              [] i.op = "Sub" -> << <<PopRbx, <<>>>>, <<SubRbx, <<>>>> >>
              [] i.op = "Mul" -> << <<PopRbx, <<>>>>, <<MulRbx, <<>>>> >>
              [] OTHER -> <<>>
        size == Word(8 * b.max_locals)
        locals == IF size = Word(0) THEN <<>> ELSE << <<SubRspImm, size>> >>
        upTo[k \in 0 .. Len(b.code)] ==
            IF k = 0 THEN << <<PushRbp, <<>>>>, <<MovRbpRsp, <<>>>> >> \o locals
                     ELSE upTo[k - 1] \o Of(b.code[k])
    IN  upTo[Len(b.code)] \o << <<MovRspRbp, <<>>>>, <<PopRbp, <<>>>>, <<RetNear, <<>>>> >>

\* A processor that reads bs from the start meets the instructions of list in
\* turn: before[k] is where the k-th begins, or beyond bs.
ReadsAs(bs, list) ==
    LET At(p, note) ==
            {i \in note[1] : /\ p + i.size <= Len(bs)
                             /\ SubSeq(bs, p + 1, p + Len(i.code)) = i.code
                             /\ SubSeq(bs, p + i.size - Len(note[2]) + 1, p + i.size) = note[2]}
        before[k \in 1 .. Len(list) + 1] ==
            IF k = 1 THEN 0
            ELSE LET p == before[k - 1]
                     fit == At(p, list[k - 1])
                 IN  IF fit = {} THEN Len(bs) + 1 ELSE p + (CHOOSE i \in fit : TRUE).size
    IN  before[Len(list) + 1] = Len(bs)

\* What the comments of Compile say it emits is what a processor reads: "Prologue:
\* push rbp, mov rbp, rsp" (jit_compiler.cpp:170), "pop rbx, add rax, rbx" (211),
\* "Epilogue: mov rsp, rbp; pop rbp; ret" (234).  The code does not do so:
\* MovRegImm64 without REX.W is a mov ebp, imm32 and two additions to [rax], the
\* arithmetic is 32-bit, and MovRegMem loads esp from the stack.
CodeAsCommented == \A m \in DOMAIN compiled : ReadsAs(compiled[m], AsCommented(body[m]))

==============================================================================
