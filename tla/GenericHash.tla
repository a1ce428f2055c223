------------------------------ MODULE GenericHash ------------------------------
(***************************************************************************)
(* The key under which IL2CPPMetadataLoader keeps an instance of a generic *)
(* method or type: a hash of the index and the type arguments, in words of *)
(* HashMod.  Nothing but the hash is compared.                             *)
(***************************************************************************)
EXTENDS Naturals, Sequences, Bitwise

CONSTANTS HashMod,      \* 2^64
          Golden        \* 0x9e3779b9

\* hash ^= t + 0x9e3779b9 + (hash << 6) + (hash >> 2), std::hash<uint32_t> being
\* the identity.
Mixed(hash, t) == hash ^^ ((t + Golden + hash * 64 + hash \div 4) % HashMod)

InstanceHash(base, args) ==
    LET hash[i \in 0 .. Len(args)] == IF i = 0 THEN base ELSE Mixed(hash[i - 1], args[i])
    IN  hash[Len(args)]

==============================================================================
