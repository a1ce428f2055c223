-------------------------------- MODULE ILParser --------------------------------
(***************************************************************************)
(* ILParser, src/src/core/il_parser.{h,cpp}: the bytes of an IL method     *)
(* cut into instructions, one DecodeInstruction per step.                  *)
(*                                                                         *)
(* The method is given as the instructions a C# compiler wrote, each with  *)
(* the bytes ECMA-335 gives it.                                            *)
(***************************************************************************)
EXTENDS Integers, SequencesExt

CONSTANTS
    ILMethods,      \* methods: sequences of [code : bytes of the opcode, arg : its operand's]
    CutShort,       \* how many bytes the file lacks at its end
    BytesBehind     \* what may lie in memory behind the bytes

Prefix == 254

\* An opcode is a byte, or the prefix and a byte.
Opcodes == {<<b>> : b \in (0 .. 255) \ {Prefix}} \cup {<<Prefix, b>> : b \in 0 .. 255}

ASSUME ParserConstantsAssumption ==
    /\ \A m \in ILMethods : m \in Seq([code : Opcodes, arg : Seq(0 .. 255)])
    /\ CutShort \subseteq Nat /\ BytesBehind \subseteq 0 .. 255

VARIABLES
    method,         \* the instructions written
    data,           \* the bytes given to Parse
    behind,         \* the byte that follows them, again and again
    position,       \* offset
    parsed,         \* body.instructions
    overran         \* a byte beyond the data was read

parserVars == <<method, data, behind, position, parsed, overran>>

Bytes(i) == i.code \o i.arg

\* The bytes of the first k instructions, and how many lie before the k-th.
Whole ==
    LET upTo[k \in 0 .. Len(method)] ==
            IF k = 0 THEN <<>> ELSE upTo[k - 1] \o Bytes(method[k])
    IN  upTo
Start(k) == Len(Whole[k - 1])

ParserInit ==
    /\ method \in ILMethods
    /\ \E n \in CutShort :
          data = SubSeq(Whole[Len(method)], 1, Len(Whole[Len(method)]) - n)
    /\ behind \in BytesBehind
    /\ position = 0 /\ parsed = <<>> /\ overran = FALSE

-------------------------------------------------------------------------------
\* Operand bytes that DecodeInstruction takes, by the opcode it has read: LDarg_S,
\* LDloc_S, STloc_S, Ldc_I4_S and the short branches; the long forms, calls and
\* whatever has a token, Throw included; Ldc_R4; Ldc_R8.
OneByte   == {14, 17, 19, 32} \cup 43 .. 55
FourBytes == {15, 18, 20, 33, 34, 40, 41} \cup 56 .. 68
             \cup {113, 115, 116, 117, 122, 123, 125, 126, 128, 129, 140, 141}
             \cup {65030, 65031, 65045, 65046}
Ldc_R8Op  == 35

Width(op) == IF op \in OneByte THEN 1
             ELSE IF op \in FourBytes THEN 4
             ELSE IF op = Ldc_R8Op THEN 8 ELSE 0

\* data[i], read whether or not it is there.
ByteAt(i) == IF i < Len(data) THEN data[i + 1] ELSE behind

\* The opcode at "at", and the number of bytes it takes.
OpcodeAt(at) == IF ByteAt(at) = Prefix THEN 65024 + ByteAt(at + 1) ELSE ByteAt(at)
OpcodeSize(at) == IF ByteAt(at) = Prefix THEN 2 ELSE 1

\* Of the eight bytes of Ldc_R8 the second word is kept.
Kept(op, taken) == IF op = Ldc_R8Op THEN SubSeq(taken, 5, 8) ELSE taken

\* Mutant of DecodeInstruction: a prefixed opcode counts as one byte.
DecodeOneByteOpcode ==
    LET op == OpcodeAt(position)
    IN  /\ parsed' = Append(parsed, [opcode |-> op, offset |-> position, operand |-> <<>>])
        /\ position' = position + 1 + Width(op)
        /\ overran' = (overran \/ position' > Len(data))
        /\ UNCHANGED <<method, data, behind>>

DecodeInstruction ==
    LET op    == OpcodeAt(position)
        from  == position + OpcodeSize(position)
        taken == [i \in 1 .. Width(op) |-> ByteAt(from + i - 1)]
    IN  /\ parsed' = Append(parsed, [opcode |-> op, offset |-> position,
                                     operand |-> Kept(op, taken)])
        /\ position' = from + Width(op)
        /\ overran' = (overran \/ position' > Len(data))
        /\ UNCHANGED <<method, data, behind>>

\* Parse
ParserNext == position < Len(data) /\ DecodeInstruction

ParserSpec == ParserInit /\ [][ParserNext]_parserVars

-------------------------------------------------------------------------------
ParserTypeOK ==
    /\ position \in 0 .. Len(data) + 9 /\ overran \in BOOLEAN
    /\ \A k \in DOMAIN parsed : parsed[k].opcode \in Nat /\ parsed[k].offset \in 0 .. Len(data)

\* What ECMA-335 calls the instruction, and whether the parser gives it as many
\* operand bytes.
Named(i)  == IF i.code[1] = Prefix THEN 65024 + i.code[2] ELSE i.code[1]
InStep(i) == Width(Named(i)) = Len(i.arg)

\* All that an Instruction has room for: the last four bytes.
LastWord(bs) == IF Len(bs) > 4 THEN SubSeq(bs, Len(bs) - 3, Len(bs)) ELSE bs

\* Up to and including the first instruction whose operand the parser measures
\* wrongly, instructions are found where they were written, with their opcodes
\* and, up to that one, their operands, prefixes and operand bytes that look
\* like opcodes notwithstanding; when there is no such instruction and the
\* file is whole, nothing is read behind the bytes (il_parser.cpp:7-17, 34-143).
ParserInStep ==
    /\ \A k \in DOMAIN method \cap DOMAIN parsed :
          (Start(k + 1) <= Len(data) /\ \A j \in 1 .. k - 1 : InStep(method[j])) =>
              /\ parsed[k].offset = Start(k)
              /\ parsed[k].opcode = Named(method[k])
              /\ InStep(method[k]) => parsed[k].operand = LastWord(method[k].arg)
    /\ ((\A k \in DOMAIN method : InStep(method[k])) /\ Len(data) = Start(Len(method) + 1)) =>
          /\ ~overran
          /\ position = Len(data) => Len(parsed) = Len(method)

==============================================================================
