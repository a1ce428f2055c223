----------------------------- MODULE GenericSharing -----------------------------
(***************************************************************************)
(* GenericSharingManager, src/src/core/generic_sharing.cpp: instances of   *)
(* generic methods and classes, found by key, and the tables of shared     *)
(* methods and runtime contexts whose rows they name.                      *)
(*                                                                         *)
(* Indices are those of the code, from 0; row i is element i + 1.  The     *)
(* invokers and method pointers are null in every row and left out.        *)
(***************************************************************************)
EXTENDS Naturals, Sequences, FiniteSets

CONSTANTS
    Tokens,         \* method and type tokens
    TypeArgs,       \* lists of type arguments
    WordMod,        \* 2^32
    MaxOperations   \* bound: instances and registrations

ASSUME SharingAssumption ==
    /\ WordMod \in Nat \ {0}
    /\ Tokens \subseteq 0 .. WordMod - 1
    /\ TypeArgs \subseteq Seq(0 .. WordMod - 1)
    /\ MaxOperations \in Nat

VARIABLES
    method_inst_cache,      \* key -> index
    generic_methods,
    class_inst_cache,       \* key -> index
    generic_classes,
    shared_methods,
    rgctx_table,
    aot_generic_methods,    \* the keys; nothing reads the pointers
    registered              \* history: what was registered

methodVars  == <<method_inst_cache, generic_methods, shared_methods, rgctx_table>>
classVars   == <<class_inst_cache, generic_classes>>
aotVars     == <<aot_generic_methods, registered>>
sharingVars == <<methodVars, classVars, aotVars>>

GenericInstKey == [method_token : Tokens, type_args : TypeArgs]
Key(token, args) == [method_token |-> token, type_args |-> args]

\* An unordered_map with one more entry.
With(map, k, v) == [x \in DOMAIN map \cup {k} |-> IF x = k THEN v ELSE map[x]]

SharingInit ==
    /\ method_inst_cache = <<>> /\ class_inst_cache = <<>>
    /\ generic_methods = <<>> /\ generic_classes = <<>>
    /\ shared_methods = <<>> /\ rgctx_table = <<>>
    /\ aot_generic_methods = {} /\ registered = {}

FirstArg(args) == IF args = <<>> THEN 0 ELSE args[1]

\* Mutant of NewMethod: the index of the shared method is taken after the push.
NewMethodLate(k) ==
    /\ generic_methods' = Append(generic_methods,
            [key |-> k, shared_method_index |-> Len(shared_methods) + 1])
    /\ method_inst_cache' = With(method_inst_cache, k, Len(generic_methods))
    /\ shared_methods' = Append(shared_methods,
            [method_index |-> k.method_token, type_index |-> FirstArg(k.type_args),
             rgctx_index |-> Len(rgctx_table)])
    /\ rgctx_table' = Append(rgctx_table,
            [type_index |-> FirstArg(k.type_args), method_index |-> k.method_token])

\* Mutant of NewMethod: the instance is not cached.
NewMethodUncached(k) ==
    /\ generic_methods' = Append(generic_methods,
            [key |-> k, shared_method_index |-> Len(shared_methods)])
    /\ shared_methods' = Append(shared_methods,
            [method_index |-> k.method_token, type_index |-> FirstArg(k.type_args),
             rgctx_index |-> Len(rgctx_table)])
    /\ rgctx_table' = Append(rgctx_table,
            [type_index |-> FirstArg(k.type_args), method_index |-> k.method_token])
    /\ UNCHANGED method_inst_cache

NewMethod(k) ==
    /\ generic_methods' = Append(generic_methods,
            [key |-> k, shared_method_index |-> Len(shared_methods)])
    /\ method_inst_cache' = With(method_inst_cache, k, Len(generic_methods))
    /\ shared_methods' = Append(shared_methods,
            [method_index |-> k.method_token, type_index |-> FirstArg(k.type_args),
             rgctx_index |-> Len(rgctx_table)])
    /\ rgctx_table' = Append(rgctx_table,
            [type_index |-> FirstArg(k.type_args), method_index |-> k.method_token])

Bounded == Len(generic_methods) + Len(generic_classes) + Cardinality(registered) < MaxOperations

\* A key that is cached changes nothing.
InstantiateGenericMethod(token, args) ==
    /\ Bounded
    /\ Key(token, args) \notin DOMAIN method_inst_cache
    /\ NewMethod(Key(token, args))
    /\ UNCHANGED <<classVars, aotVars>>

InstantiateGenericClass(token, args) ==
    LET k == Key(token, args)
    IN  /\ Bounded
        /\ k \notin DOMAIN class_inst_cache
        /\ generic_classes' = Append(generic_classes,
                [key |-> k, shared_type_index |-> Len(generic_classes)])
        /\ class_inst_cache' = With(class_inst_cache, k, Len(generic_classes))
        /\ UNCHANGED <<methodVars, aotVars>>

\* Mutant of AOTKey: the token is shifted out by the first argument too.
AOTKeyShort(token, args) ==
    (token * WordMod * WordMod + FirstArg(args)) % (WordMod * WordMod)

\* The key in 64 bits: each argument shifts what was there by 32.
AOTKey(token, args) ==
    LET key[i \in 0 .. Len(args)] ==
            IF i = 0 THEN token
            ELSE (key[i - 1] * WordMod + args[i]) % (WordMod * WordMod)
    IN  key[Len(args)]

RegisterAOTGenericMethod(token, args) ==
    /\ Bounded
    /\ aot_generic_methods' = aot_generic_methods \cup {AOTKey(token, args)}
    /\ registered' = registered \cup {Key(token, args)}
    /\ UNCHANGED <<methodVars, classVars>>

-------------------------------------------------------------------------------
(* Queries *)

NoEntry == [method_index |-> WordMod, type_index |-> WordMod, rgctx_index |-> WordMod]

\* GetSharedMethod: nullptr, here NoEntry, when a row is missing.
GetSharedMethod(k) ==
    IF k \notin DOMAIN method_inst_cache THEN NoEntry
    ELSE LET idx == method_inst_cache[k]
         IN  IF idx >= Len(generic_methods) THEN NoEntry
             ELSE LET shared_idx == generic_methods[idx + 1].shared_method_index
                  IN  IF shared_idx >= Len(shared_methods) THEN NoEntry
                      ELSE shared_methods[shared_idx + 1]

GetSharedType(k) ==
    IF k \in DOMAIN class_inst_cache /\ class_inst_cache[k] < Len(generic_classes)
    THEN generic_classes[class_inst_cache[k] + 1] ELSE NoEntry

IsAOTGeneric(token) ==
    \E key \in aot_generic_methods : key \div WordMod = token \/ key % WordMod = token

\* GetInstantiations: the rows of the method, which the code copies out in order.
GetInstantiations(token) ==
    {i \in DOMAIN generic_methods : generic_methods[i].key.method_token = token}

SharingNext ==
    \E token \in Tokens, args \in TypeArgs :
        \/ InstantiateGenericMethod(token, args)
        \/ InstantiateGenericClass(token, args)
        \/ RegisterAOTGenericMethod(token, args)

SharingSpec == SharingInit /\ [][SharingNext]_sharingVars

-------------------------------------------------------------------------------
(* Properties *)

SharingTypeOK ==
    /\ method_inst_cache \in [DOMAIN method_inst_cache -> Nat]
    /\ class_inst_cache \in [DOMAIN class_inst_cache -> Nat]
    /\ DOMAIN method_inst_cache \cup DOMAIN class_inst_cache \subseteq GenericInstKey
    /\ generic_methods \in Seq([key : GenericInstKey, shared_method_index : Nat])
    /\ generic_classes \in Seq([key : GenericInstKey, shared_type_index : Nat])
    /\ shared_methods \in Seq([method_index : Nat, type_index : Nat, rgctx_index : Nat])
    /\ rgctx_table \in Seq([type_index : Nat, method_index : Nat])
    /\ aot_generic_methods \subseteq 0 .. WordMod * WordMod - 1
    /\ registered \subseteq GenericInstKey

\* Whatever was instantiated before and after it, an instance leads through
\* generic_methods_ and shared_methods_ to an entry of its own method and first
\* type argument, and from there to a runtime context of the same; a class
\* leads to its own row.
InstancesFit ==
    /\ \A k \in DOMAIN method_inst_cache :
        LET entry == GetSharedMethod(k)
        IN  /\ entry # NoEntry
            /\ entry.method_index = k.method_token
            /\ entry.type_index = FirstArg(k.type_args)
            /\ entry.rgctx_index < Len(rgctx_table)
            /\ rgctx_table[entry.rgctx_index + 1] =
                    [type_index |-> entry.type_index, method_index |-> entry.method_index]
    /\ \A k \in DOMAIN class_inst_cache :
            GetSharedType(k) = [key |-> k, shared_type_index |-> class_inst_cache[k]]

\* GetInstantiations lists each instance of the method once, and no other.
InstantiationsComplete ==
    \A token \in Tokens :
        LET found == GetInstantiations(token)
        IN  /\ {generic_methods[i].key : i \in found} =
                    {k \in DOMAIN method_inst_cache : k.method_token = token}
            /\ \A i, j \in found : generic_methods[i].key = generic_methods[j].key => i = j

\* Both tables keep the promise of InstanceTable.
methodKeys == [i \in 1 .. Len(generic_methods) |-> generic_methods[i].key]
classKeys  == [i \in 1 .. Len(generic_classes) |-> generic_classes[i].key]

MethodTable == INSTANCE InstanceTable WITH Keys <- GenericInstKey, rows <- methodKeys
ClassTable  == INSTANCE InstanceTable WITH Keys <- GenericInstKey, rows <- classKeys

ImplementsTables == MethodTable!Spec /\ ClassTable!Spec

\* A method registered with no type argument, or one, is recognised whatever is
\* registered besides: two keys never hide each other.
AOTFound ==
    \A k \in registered : Len(k.type_args) <= 1 => IsAOTGeneric(k.method_token)

\* "Check if method is AOT generic" (src/src/core/generic_sharing.h:84): the
\* methods that are recognised are those that were registered.
AOTExact ==
    \A token \in Tokens :
        IsAOTGeneric(token) <=> \E k \in registered : k.method_token = token

==============================================================================
