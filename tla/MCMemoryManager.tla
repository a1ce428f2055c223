---------------------------- MODULE MCMemoryManager ----------------------------
(***************************************************************************)
(* MemoryManager with a chunk of four words and room for four chunks.      *)
(***************************************************************************)
EXTENDS MemoryManager

AddressesDef == {8, 12, 14, 18}
ArraysDef    == {[elem |-> 1, count |-> 3], [elem |-> 2, count |-> 3]}

==============================================================================
