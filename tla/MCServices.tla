------------------------------- MODULE MCServices -------------------------------
(***************************************************************************)
(* The parts around the interpreters on small sets of sizes, types, frames *)
(* and bytes, files and type arguments; the hash of the loader is that of  *)
(* the code.  One run checks them all.                                     *)
(***************************************************************************)
EXTENDS Services, GenericHash

\* Sixteen words do not fit a block together with their header; sixty-four
\* wrap to the header alone.
ArrayShapesDef == {[elem |-> 4, count |-> 4], [elem |-> 8, count |-> 8]}

Written(c, a) == [code |-> c, arg |-> a]

\* Instructions as a compiler writes them: operands with the prefix byte in
\* them, prefixed opcodes, and ldc.i4.s, ldc.i4, ldstr and throw, which the
\* parser measures differently.
Alphabet ==
    {Written(<<0>>, <<>>), Written(<<17>>, <<254>>), Written(<<40>>, <<35, 0, 254, 6>>),
     Written(<<34>>, <<0, 0, 128, 63>>), Written(<<35>>, <<1, 2, 3, 4, 5, 6, 7, 8>>),
     Written(<<254, 1>>, <<>>), Written(<<254, 22>>, <<1, 0, 0, 27>>),
     Written(<<43>>, <<251>>), Written(<<31>>, <<42>>), Written(<<32>>, <<1, 0, 0, 0>>),
     Written(<<114>>, <<1, 0, 0, 112>>), Written(<<122>>, <<>>)}
ILMethodsDef == UNION {[1 .. n -> Alphabet] : n \in 0 .. 3}

Op(op)   == [op |-> op, n |-> 0]
Long(n)  == [op |-> "Ldc_I4", n |-> n]
Short(n) == [op |-> "Ldc_I4_short", n |-> n]

\* Bodies of different lengths; operands that hold the bytes of opcodes.
BodiesDef ==
    {[max_locals |-> 0, code |-> <<Op("Ret")>>],
     [max_locals |-> 3, code |-> <<Short(8), Long(195), Op("Add"), Op("Ret")>>],
     [max_locals |-> 0, code |-> <<Long(70000), Short(0), Op("Sub"), Op("Nop"),
                                   Long(23808), Op("Mul"), Op("Ret")>>]}

Type(n)          == [name |-> n]
Method(n, t, ps) == [name |-> n, declaringType |-> t, parameterCount |-> ps]
File(ts, ms)     == [ok |-> TRUE, types |-> ts, methods |-> ms, images |-> <<"image">>]

\* A file, one that has grown in front, one in which two types have a name, a
\* short one, and one that is refused.
FilesDef ==
    {File(<<Type("A"), Type("B")>>, <<Method("run", 0, 1), Method("run", 1, 0)>>),
     File(<<Type("C"), Type("A"), Type("B")>>,
          <<Method("run", 2, 0), Method("run", 1, 2), Method("run", 1, 1)>>),
     File(<<Type("A"), Type("A")>>, <<Method("run", 0, 0), Method("stop", 1, 1)>>),
     File(<<Type("B")>>, <<Method("run", 0, 1), Method("stop", 0, 0)>>),
     [File(<<Type("A")>>, <<>>) EXCEPT !.ok = FALSE]}

\* (0, <<63>>) and (1, <<0>>) have the same hash, in 64 bits too.
InstanceArgsDef == {<<0>>, <<63>>}

\* The hash of the code, computed once for each instance.
Hashes == {[base |-> base, args |-> args, hash |-> InstanceHash(base, args)] :
              base \in Bases, args \in InstanceArgs}
InstHashDef(base, args) == (CHOOSE h \in Hashes : h.base = base /\ h.args = args).hash

TypeArgsDef == {<<>>, <<2>>, <<2, 1>>}
AOTArgsDef  == {<<3, 3>>}

==============================================================================
