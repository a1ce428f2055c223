-------------------------- MODULE GenericSharingProofs --------------------------
(***************************************************************************)
(* The tables of GenericSharingManager stay aligned, for every set of      *)
(* tokens and type arguments, after any sequence of calls.                 *)
(***************************************************************************)
EXTENDS GenericSharing, MetadataLoaderProofs

SharedRow(k, i) ==
    [method_index |-> k.method_token, type_index |-> FirstArg(k.type_args), rgctx_index |-> i]
ContextRow(k) == [type_index |-> FirstArg(k.type_args), method_index |-> k.method_token]

\* Row i of the three tables of methods was written by one call, for the key
\* that the cache sends to i.
MethodsAligned ==
    /\ generic_methods \in Seq([key : GenericInstKey, shared_method_index : Nat])
    /\ shared_methods \in Seq([method_index : Nat, type_index : Nat, rgctx_index : Nat])
    /\ rgctx_table \in Seq([type_index : Nat, method_index : Nat])
    /\ Len(shared_methods) = Len(generic_methods)
    /\ Len(rgctx_table) = Len(generic_methods)
    /\ \A i \in 1 .. Len(generic_methods) :
        LET k == generic_methods[i].key
        IN  /\ k \in DOMAIN method_inst_cache
            /\ method_inst_cache[k] = i - 1
            /\ generic_methods[i].shared_method_index = i - 1
            /\ shared_methods[i] = SharedRow(k, i - 1)
            /\ rgctx_table[i] = ContextRow(k)
    /\ \A k \in DOMAIN method_inst_cache :
            /\ method_inst_cache[k] \in 0 .. Len(generic_methods) - 1
            /\ generic_methods[method_inst_cache[k] + 1].key = k

ClassesAligned ==
    /\ generic_classes \in Seq([key : GenericInstKey, shared_type_index : Nat])
    /\ \A i \in 1 .. Len(generic_classes) :
        LET k == generic_classes[i].key
        IN  /\ k \in DOMAIN class_inst_cache
            /\ class_inst_cache[k] = i - 1
            /\ generic_classes[i].shared_type_index = i - 1
    /\ \A k \in DOMAIN class_inst_cache :
            /\ class_inst_cache[k] \in 0 .. Len(generic_classes) - 1
            /\ generic_classes[class_inst_cache[k] + 1].key = k

AllAligned == MethodsAligned /\ ClassesAligned

-------------------------------------------------------------------------------
\* What Append does to a sequence, element by element.
LEMMA Appended ==
    ASSUME NEW S, NEW s \in Seq(S), NEW x \in S
    PROVE  /\ Append(s, x) \in Seq(S)
           /\ Len(Append(s, x)) = Len(s) + 1
           /\ Append(s, x)[Len(s) + 1] = x
           /\ \A i \in 1 .. Len(s) : Append(s, x)[i] = s[i]
           /\ DOMAIN Append(s, x) = 1 .. Len(s) + 1
  OBVIOUS

\* An element of a sequence is of the sequence's set.
LEMMA RowOf ==
    ASSUME NEW S, NEW s \in Seq(S), NEW i \in 1 .. Len(s)
    PROVE  s[i] \in S
  OBVIOUS

\* The type index of a row is a number.
LEMMA FirstArgIsWord ==
    ASSUME NEW args \in TypeArgs
    PROVE  FirstArg(args) \in Nat
  <1>1. args \in Seq(0 .. WordMod - 1) /\ WordMod \in Nat
    BY SharingAssumption DEF SharingAssumption
  <1>2. CASE args = <<>>
    BY <1>2 DEF FirstArg
  <1>3. CASE args # <<>>
    <2>1. args[1] \in 0 .. WordMod - 1
      BY <1>1, <1>3
    <2> QED  BY <2>1, <1>1, <1>3 DEF FirstArg
  <1> QED  BY <1>2, <1>3

\* A token with its arguments is a key, whose rows have the rows' types.
LEMMA KeyRows ==
    ASSUME NEW token \in Tokens, NEW args \in TypeArgs, NEW i \in Nat
    PROVE  /\ Key(token, args) \in GenericInstKey
           /\ SharedRow(Key(token, args), i) \in [method_index : Nat, type_index : Nat, rgctx_index : Nat]
           /\ ContextRow(Key(token, args)) \in [type_index : Nat, method_index : Nat]
  <1>1. token \in Nat
    BY SharingAssumption DEF SharingAssumption
  <1>2. FirstArg(args) \in Nat
    BY FirstArgIsWord
  <1> QED  BY <1>1, <1>2 DEF Key, GenericInstKey, SharedRow, ContextRow

\* Before the first call there are no rows.
LEMMA SharingStarts == SharingInit => AllAligned
  BY DEF SharingInit, AllAligned, MethodsAligned, ClassesAligned

\* A new method instance is appended to all three tables.
LEMMA SharedMethodStep ==
    ASSUME AllAligned, NEW token \in Tokens, NEW args \in TypeArgs,
           InstantiateGenericMethod(token, args)
    PROVE  AllAligned'
  <1> DEFINE k == Key(token, args)
             n == Len(generic_methods)
             inst == [key |-> k, shared_method_index |-> Len(shared_methods)]
  <1>1. /\ k \notin DOMAIN method_inst_cache
        /\ n \in Nat /\ Len(shared_methods) = n /\ Len(rgctx_table) = n
        /\ generic_methods' = Append(generic_methods, inst)
        /\ method_inst_cache' = With(method_inst_cache, k, n)
        /\ shared_methods' = Append(shared_methods, SharedRow(k, n))
        /\ rgctx_table' = Append(rgctx_table, ContextRow(k))
        /\ UNCHANGED classVars
    BY DEF InstantiateGenericMethod, NewMethod, AllAligned, MethodsAligned, SharedRow, ContextRow
  <1>2. inst \in [key : GenericInstKey, shared_method_index : Nat]
    BY <1>1, KeyRows
  <1>3. /\ generic_methods' \in Seq([key : GenericInstKey, shared_method_index : Nat])
        /\ Len(generic_methods') = n + 1
        /\ generic_methods'[n + 1] = inst
        /\ \A i \in 1 .. n : generic_methods'[i] = generic_methods[i]
    BY <1>1, <1>2, Appended DEF AllAligned, MethodsAligned
  <1>4. /\ shared_methods' \in Seq([method_index : Nat, type_index : Nat, rgctx_index : Nat])
        /\ Len(shared_methods') = n + 1
        /\ shared_methods'[n + 1] = SharedRow(k, n)
        /\ \A i \in 1 .. n : shared_methods'[i] = shared_methods[i]
    <2> DEFINE T == [method_index : Nat, type_index : Nat, rgctx_index : Nat]
    <2>1. shared_methods \in Seq(T) /\ SharedRow(k, n) \in T
      BY <1>1, KeyRows DEF AllAligned, MethodsAligned
    <2> HIDE DEF T, k, n
    <2>2. /\ Append(shared_methods, SharedRow(k, n)) \in Seq(T)
          /\ Len(Append(shared_methods, SharedRow(k, n))) = n + 1
          /\ Append(shared_methods, SharedRow(k, n))[n + 1] = SharedRow(k, n)
          /\ \A i \in 1 .. n : Append(shared_methods, SharedRow(k, n))[i] = shared_methods[i]
      BY <2>1, <1>1, Appended
    <2> QED  BY <2>2, <1>1 DEF T
  <1>5. /\ rgctx_table' \in Seq([type_index : Nat, method_index : Nat])
        /\ Len(rgctx_table') = n + 1
        /\ rgctx_table'[n + 1] = ContextRow(k)
        /\ \A i \in 1 .. n : rgctx_table'[i] = rgctx_table[i]
    <2> DEFINE T == [type_index : Nat, method_index : Nat]
    <2>1. rgctx_table \in Seq(T) /\ ContextRow(k) \in T
      BY <1>1, KeyRows DEF AllAligned, MethodsAligned
    <2> HIDE DEF T, k, n
    <2>2. /\ Append(rgctx_table, ContextRow(k)) \in Seq(T)
          /\ Len(Append(rgctx_table, ContextRow(k))) = n + 1
          /\ Append(rgctx_table, ContextRow(k))[n + 1] = ContextRow(k)
          /\ \A i \in 1 .. n : Append(rgctx_table, ContextRow(k))[i] = rgctx_table[i]
      BY <2>1, <1>1, Appended
    <2> QED  BY <2>2, <1>1 DEF T
  <1>6. /\ DOMAIN method_inst_cache' = DOMAIN method_inst_cache \cup {k}
        /\ method_inst_cache'[k] = n
        /\ \A x \in DOMAIN method_inst_cache : method_inst_cache'[x] = method_inst_cache[x]
    BY <1>1 DEF With
  <1> HIDE DEF k, n
  <1>7. ASSUME NEW i \in 1 .. n + 1
        PROVE  /\ generic_methods'[i].key \in DOMAIN method_inst_cache'
               /\ method_inst_cache'[generic_methods'[i].key] = i - 1
               /\ generic_methods'[i].shared_method_index = i - 1
               /\ shared_methods'[i] = SharedRow(generic_methods'[i].key, i - 1)
               /\ rgctx_table'[i] = ContextRow(generic_methods'[i].key)
    <2>1. CASE i \in 1 .. n
      <3>1. /\ generic_methods[i].key \in DOMAIN method_inst_cache
            /\ method_inst_cache[generic_methods[i].key] = i - 1
            /\ generic_methods[i].shared_method_index = i - 1
            /\ shared_methods[i] = SharedRow(generic_methods[i].key, i - 1)
            /\ rgctx_table[i] = ContextRow(generic_methods[i].key)
        BY <2>1 DEF AllAligned, MethodsAligned, n
      <3> QED  BY <2>1, <3>1, <1>3, <1>4, <1>5, <1>6
    <2>2. CASE i = n + 1
      BY <2>2, <1>1, <1>3, <1>4, <1>5, <1>6
    <2>3. i \in 1 .. n \/ i = n + 1
      BY <1>1
    <2> QED  BY <2>1, <2>2, <2>3, Zenon
  <1>8. ASSUME NEW x \in DOMAIN method_inst_cache'
        PROVE  /\ method_inst_cache'[x] \in 0 .. n
               /\ generic_methods'[method_inst_cache'[x] + 1].key = x
    <2>1. CASE x = k
      BY <2>1, <1>1, <1>3, <1>6
    <2>2. CASE x # k
      <3>1. /\ x \in DOMAIN method_inst_cache
            /\ method_inst_cache[x] \in 0 .. n - 1
            /\ generic_methods[method_inst_cache[x] + 1].key = x
        BY <2>2, <1>6 DEF AllAligned, MethodsAligned, n
      <3>2. method_inst_cache[x] + 1 \in 1 .. n
        BY <3>1, <1>1
      <3> QED  BY <3>1, <3>2, <1>1, <1>3, <1>6
    <2> QED  BY <2>1, <2>2
  <1>9. MethodsAligned'
    <2>1. 1 .. Len(generic_methods') = 1 .. n + 1 /\ 0 .. Len(generic_methods') - 1 = 0 .. n
      BY <1>1, <1>3
    <2>2. Len(shared_methods') = Len(generic_methods') /\ Len(rgctx_table') = Len(generic_methods')
      BY <1>3, <1>4, <1>5
    <2> QED  BY <1>3, <1>4, <1>5, <1>7, <1>8, <2>1, <2>2, Zenon DEF MethodsAligned
  <1>10. ClassesAligned'
    BY <1>1 DEF AllAligned, ClassesAligned, classVars
  <1> QED  BY <1>9, <1>10 DEF AllAligned

\* A new class instance is appended to its table.
LEMMA SharedClassStep ==
    ASSUME AllAligned, NEW token \in Tokens, NEW args \in TypeArgs,
           InstantiateGenericClass(token, args)
    PROVE  AllAligned'
  <1> DEFINE k == Key(token, args)
             n == Len(generic_classes)
             inst == [key |-> k, shared_type_index |-> n]
  <1>1. /\ k \notin DOMAIN class_inst_cache
        /\ n \in Nat
        /\ generic_classes' = Append(generic_classes, inst)
        /\ class_inst_cache' = With(class_inst_cache, k, n)
        /\ UNCHANGED methodVars
    BY DEF InstantiateGenericClass, AllAligned, ClassesAligned
  <1>2. inst \in [key : GenericInstKey, shared_type_index : Nat]
    BY <1>1, KeyRows
  <1>3. /\ generic_classes' \in Seq([key : GenericInstKey, shared_type_index : Nat])
        /\ Len(generic_classes') = n + 1
        /\ generic_classes'[n + 1] = inst
        /\ \A i \in 1 .. n : generic_classes'[i] = generic_classes[i]
    BY <1>1, <1>2, Appended DEF AllAligned, ClassesAligned
  <1>4. /\ DOMAIN class_inst_cache' = DOMAIN class_inst_cache \cup {k}
        /\ class_inst_cache'[k] = n
        /\ \A x \in DOMAIN class_inst_cache : class_inst_cache'[x] = class_inst_cache[x]
    BY <1>1 DEF With
  <1> HIDE DEF k, n
  <1>5. ASSUME NEW i \in 1 .. n + 1
        PROVE  /\ generic_classes'[i].key \in DOMAIN class_inst_cache'
               /\ class_inst_cache'[generic_classes'[i].key] = i - 1
               /\ generic_classes'[i].shared_type_index = i - 1
    <2>1. CASE i \in 1 .. n
      <3>1. /\ generic_classes[i].key \in DOMAIN class_inst_cache
            /\ class_inst_cache[generic_classes[i].key] = i - 1
            /\ generic_classes[i].shared_type_index = i - 1
        BY <2>1 DEF AllAligned, ClassesAligned, n
      <3> QED  BY <2>1, <3>1, <1>3, <1>4
    <2>2. CASE i = n + 1
      BY <2>2, <1>1, <1>3, <1>4
    <2>3. i \in 1 .. n \/ i = n + 1
      BY <1>1
    <2> QED  BY <2>1, <2>2, <2>3, Zenon
  <1>6. ASSUME NEW x \in DOMAIN class_inst_cache'
        PROVE  /\ class_inst_cache'[x] \in 0 .. n
               /\ generic_classes'[class_inst_cache'[x] + 1].key = x
    <2>1. CASE x = k
      BY <2>1, <1>1, <1>3, <1>4
    <2>2. CASE x # k
      <3>1. /\ x \in DOMAIN class_inst_cache
            /\ class_inst_cache[x] \in 0 .. n - 1
            /\ generic_classes[class_inst_cache[x] + 1].key = x
        BY <2>2, <1>4 DEF AllAligned, ClassesAligned, n
      <3>2. class_inst_cache[x] + 1 \in 1 .. n
        BY <3>1, <1>1
      <3> QED  BY <3>1, <3>2, <1>1, <1>3, <1>4
    <2> QED  BY <2>1, <2>2
  <1>7. ClassesAligned'
    <2>1. 1 .. Len(generic_classes') = 1 .. n + 1 /\ 0 .. Len(generic_classes') - 1 = 0 .. n
      BY <1>1, <1>3
    <2> QED  BY <1>3, <1>5, <1>6, <2>1, Zenon DEF ClassesAligned
  <1>8. MethodsAligned'
    BY <1>1 DEF AllAligned, MethodsAligned, methodVars
  <1> QED  BY <1>7, <1>8 DEF AllAligned

\* Every call keeps the tables aligned.
LEMMA SharingSteps == AllAligned /\ [SharingNext]_sharingVars => AllAligned'
  <1> SUFFICES ASSUME AllAligned, [SharingNext]_sharingVars PROVE AllAligned'
    OBVIOUS
  <1>1. CASE UNCHANGED sharingVars
    BY <1>1 DEF AllAligned, MethodsAligned, ClassesAligned, sharingVars, methodVars, classVars
  <1>2. ASSUME NEW token \in Tokens, NEW args \in TypeArgs,
               RegisterAOTGenericMethod(token, args)
        PROVE  AllAligned'
    BY <1>2 DEF RegisterAOTGenericMethod, AllAligned, MethodsAligned, ClassesAligned,
                methodVars, classVars
  <1> QED  BY <1>1, <1>2, SharedMethodStep, SharedClassStep DEF SharingNext

\* The tables are aligned after any sequence of calls.
THEOREM TablesAligned == SharingSpec => []AllAligned
  BY SharingStarts, SharingSteps, PTL DEF SharingSpec

\* An instance leads to the shared method and the runtime context of its own
\* method and first argument, a class to its own row, for every set of tokens
\* and arguments (GetSharedMethod, GetSharedType).
THEOREM EachInstanceFits == SharingSpec => []InstancesFit
  <1>1. AllAligned => InstancesFit
    <2> SUFFICES ASSUME AllAligned PROVE InstancesFit
      OBVIOUS
    <2>1. ASSUME NEW k \in DOMAIN method_inst_cache
          PROVE  LET entry == GetSharedMethod(k)
                 IN  /\ entry # NoEntry
                     /\ entry.method_index = k.method_token
                     /\ entry.type_index = FirstArg(k.type_args)
                     /\ entry.rgctx_index < Len(rgctx_table)
                     /\ rgctx_table[entry.rgctx_index + 1] =
                            [type_index |-> entry.type_index, method_index |-> entry.method_index]
      <3> DEFINE i == method_inst_cache[k] + 1
      <3>1. /\ i \in 1 .. Len(generic_methods) /\ i - 1 = method_inst_cache[k]
            /\ generic_methods[i].key = k
            /\ Len(generic_methods) \in Nat
        <4>1. /\ method_inst_cache[k] \in 0 .. Len(generic_methods) - 1
              /\ generic_methods[i].key = k
              /\ Len(generic_methods) \in Nat
          BY DEF AllAligned, MethodsAligned
        <4> QED  BY <4>1
      <3> HIDE DEF i
      <3>2. /\ generic_methods[i].shared_method_index = i - 1
            /\ shared_methods[i] = SharedRow(k, i - 1)
            /\ rgctx_table[i] = ContextRow(k)
            /\ Len(shared_methods) = Len(generic_methods)
            /\ Len(rgctx_table) = Len(generic_methods)
            /\ generic_methods[i] \in [key : GenericInstKey, shared_method_index : Nat]
        <4>1. /\ generic_methods[i].shared_method_index = i - 1
              /\ shared_methods[i] = SharedRow(generic_methods[i].key, i - 1)
              /\ rgctx_table[i] = ContextRow(generic_methods[i].key)
          BY <3>1, Zenon DEF AllAligned, MethodsAligned
        <4>2. generic_methods \in Seq([key : GenericInstKey, shared_method_index : Nat])
          BY DEF AllAligned, MethodsAligned
        <4>3. generic_methods[i] \in [key : GenericInstKey, shared_method_index : Nat]
          BY <4>2, <3>1, RowOf
        <4> QED  BY <4>1, <4>3, <3>1, Zenon DEF AllAligned, MethodsAligned
      <3>3. GetSharedMethod(k) = SharedRow(k, i - 1)
        <4>1. ~(method_inst_cache[k] >= Len(generic_methods)) /\ ~(i - 1 >= Len(shared_methods))
              /\ (i - 1) + 1 = i
          BY <3>1, <3>2
        <4> QED  BY <4>1, <3>1, <3>2 DEF GetSharedMethod
      <3>4. k.method_token # WordMod
        BY <3>1, <3>2, SharingAssumption DEF GenericInstKey, SharingAssumption
      <3>5. i - 1 < Len(rgctx_table) /\ (i - 1) + 1 = i
        BY <3>1, <3>2
      <3> QED  BY <3>2, <3>3, <3>4, <3>5 DEF SharedRow, ContextRow, NoEntry
    <2>2. ASSUME NEW k \in DOMAIN class_inst_cache
          PROVE  GetSharedType(k) = [key |-> k, shared_type_index |-> class_inst_cache[k]]
      <3> DEFINE i == class_inst_cache[k] + 1
      <3>1. /\ i \in 1 .. Len(generic_classes) /\ i - 1 = class_inst_cache[k]
            /\ class_inst_cache[k] < Len(generic_classes)
            /\ generic_classes[i].key = k
        <4>1. /\ class_inst_cache[k] \in 0 .. Len(generic_classes) - 1
              /\ generic_classes[i].key = k
              /\ Len(generic_classes) \in Nat
          BY DEF AllAligned, ClassesAligned
        <4> QED  BY <4>1
      <3> HIDE DEF i
      <3>2. /\ generic_classes[i].shared_type_index = i - 1
            /\ generic_classes[i] \in [key : GenericInstKey, shared_type_index : Nat]
        <4>1. generic_classes[i].shared_type_index = i - 1
          BY <3>1, Zenon DEF AllAligned, ClassesAligned
        <4>2. generic_classes \in Seq([key : GenericInstKey, shared_type_index : Nat])
          BY DEF AllAligned, ClassesAligned
        <4>3. generic_classes[i] \in [key : GenericInstKey, shared_type_index : Nat]
          BY <4>2, <3>1, RowOf
        <4> QED  BY <4>1, <4>3
      <3> QED  BY <3>1, <3>2 DEF GetSharedType
    <2> QED  BY <2>1, <2>2 DEF InstancesFit
  <1> QED  BY <1>1, TablesAligned, PTL

-------------------------------------------------------------------------------
\* Appending an instance of key k appends k to the sequence of keys.
LEMMA KeysAppended ==
    ASSUME NEW S, NEW s \in Seq(S), NEW x \in S
    PROVE  [i \in 1 .. Len(Append(s, x)) |-> Append(s, x)[i].key] =
                Append([i \in 1 .. Len(s) |-> s[i].key], x.key)
  <1> DEFINE f == [i \in 1 .. Len(s) |-> s[i].key]
             n == Len(s)
  <1>1. n \in Nat /\ f \in Seq({y.key : y \in S}) /\ Len(f) = n
    OBVIOUS
  <1>2. Append(f, x.key) = [i \in 1 .. n + 1 |-> IF i = n + 1 THEN x.key ELSE f[i]]
    BY <1>1
  <1>3. /\ Len(Append(s, x)) = n + 1
        /\ Append(s, x)[n + 1] = x
        /\ \A i \in 1 .. n : Append(s, x)[i] = s[i]
    BY Appended
  <1>4. \A i \in 1 .. n + 1 : Append(s, x)[i].key = IF i = n + 1 THEN x.key ELSE f[i]
    BY <1>1, <1>3
  <1> QED  BY <1>2, <1>3, <1>4

\* A call that makes a method instance adds its key to the table of methods.
LEMMA MethodAdds ==
    ASSUME AllAligned, NEW token \in Tokens, NEW args \in TypeArgs,
           InstantiateGenericMethod(token, args)
    PROVE  MethodTable!Add(Key(token, args)) /\ UNCHANGED classKeys
  <1> DEFINE k == Key(token, args)
             inst == [key |-> k, shared_method_index |-> Len(shared_methods)]
  <1>1. /\ k \notin DOMAIN method_inst_cache
        /\ generic_methods' = Append(generic_methods, inst)
        /\ UNCHANGED classVars
    BY DEF InstantiateGenericMethod, NewMethod
  <1>2. /\ generic_methods \in Seq([key : GenericInstKey, shared_method_index : Nat])
        /\ inst \in [key : GenericInstKey, shared_method_index : Nat]
    BY KeyRows DEF AllAligned, MethodsAligned
  <1>3. methodKeys' = Append(methodKeys, k)
    BY <1>1, <1>2, KeysAppended DEF methodKeys
  <1>4. \A i \in DOMAIN methodKeys : methodKeys[i] # k
    BY <1>1 DEF methodKeys, AllAligned, MethodsAligned
  <1> QED  BY <1>1, <1>3, <1>4 DEF MethodTable!Add, classKeys, classVars

LEMMA ClassAdds ==
    ASSUME AllAligned, NEW token \in Tokens, NEW args \in TypeArgs,
           InstantiateGenericClass(token, args)
    PROVE  ClassTable!Add(Key(token, args)) /\ UNCHANGED methodKeys
  <1> DEFINE k == Key(token, args)
             inst == [key |-> k, shared_type_index |-> Len(generic_classes)]
  <1>1. /\ k \notin DOMAIN class_inst_cache
        /\ generic_classes' = Append(generic_classes, inst)
        /\ UNCHANGED methodVars
    BY DEF InstantiateGenericClass
  <1>2. /\ generic_classes \in Seq([key : GenericInstKey, shared_type_index : Nat])
        /\ inst \in [key : GenericInstKey, shared_type_index : Nat]
    BY KeyRows DEF AllAligned, ClassesAligned
  <1>3. classKeys' = Append(classKeys, k)
    BY <1>1, <1>2, KeysAppended DEF classKeys
  <1>4. \A i \in DOMAIN classKeys : classKeys[i] # k
    BY <1>1 DEF classKeys, AllAligned, ClassesAligned
  <1> QED  BY <1>1, <1>3, <1>4 DEF ClassTable!Add, methodKeys, methodVars

\* Every call adds a key to one table, or leaves both alone.
LEMMA TableSteps ==
    AllAligned /\ [SharingNext]_sharingVars =>
        [MethodTable!Next]_methodKeys /\ [ClassTable!Next]_classKeys
  <1> SUFFICES ASSUME AllAligned, [SharingNext]_sharingVars
               PROVE  [MethodTable!Next]_methodKeys /\ [ClassTable!Next]_classKeys
    OBVIOUS
  <1>1. CASE UNCHANGED sharingVars
    BY <1>1 DEF sharingVars, methodVars, classVars, methodKeys, classKeys
  <1>2. ASSUME NEW token \in Tokens, NEW args \in TypeArgs,
               InstantiateGenericMethod(token, args)
        PROVE  MethodTable!Next /\ UNCHANGED classKeys
    <2>1. Key(token, args) \in GenericInstKey
      BY KeyRows
    <2> QED  BY <1>2, <2>1, MethodAdds DEF MethodTable!Next
  <1>3. ASSUME NEW token \in Tokens, NEW args \in TypeArgs,
               InstantiateGenericClass(token, args)
        PROVE  ClassTable!Next /\ UNCHANGED methodKeys
    <2>1. Key(token, args) \in GenericInstKey
      BY KeyRows
    <2> QED  BY <1>3, <2>1, ClassAdds DEF ClassTable!Next
  <1>4. ASSUME NEW token \in Tokens, NEW args \in TypeArgs,
               RegisterAOTGenericMethod(token, args)
        PROVE  UNCHANGED <<methodKeys, classKeys>>
    BY <1>4 DEF RegisterAOTGenericMethod, methodVars, classVars, methodKeys, classKeys
  <1> QED  BY <1>1, <1>2, <1>3, <1>4 DEF SharingNext

\* Both tables keep the promise of InstanceTable: a key gets the next row once
\* and keeps it, for every set of tokens and arguments.
THEOREM TablesKeepPromise == SharingSpec => ImplementsTables
  <1>1. SharingInit => MethodTable!Init /\ ClassTable!Init
    BY DEF SharingInit, MethodTable!Init, ClassTable!Init, methodKeys, classKeys
  <1> QED  BY <1>1, TableSteps, TablesAligned, PTL
           DEF SharingSpec, ImplementsTables, MethodTable!Spec, ClassTable!Spec

-------------------------------------------------------------------------------
\* Whatever was instantiated, GetInstantiations (generic_sharing.cpp:111-119)
\* finds every cached instance of a method, once, and none of another.
THEOREM EveryInstanceListed == SharingSpec => []InstantiationsComplete
  <1>1. AllAligned => InstantiationsComplete
    <2> SUFFICES ASSUME AllAligned, NEW token \in Tokens
                 PROVE  LET found == GetInstantiations(token)
                        IN  /\ {generic_methods[i].key : i \in found} =
                                    {k \in DOMAIN method_inst_cache : k.method_token = token}
                            /\ \A i, j \in found :
                                    generic_methods[i].key = generic_methods[j].key => i = j
      BY DEF InstantiationsComplete
    <2>1. /\ DOMAIN generic_methods = 1 .. Len(generic_methods)
          /\ Len(generic_methods) \in Nat
      BY DEF AllAligned, MethodsAligned
    <2>2. ASSUME NEW i \in DOMAIN generic_methods
          PROVE  /\ generic_methods[i].key \in DOMAIN method_inst_cache
                 /\ method_inst_cache[generic_methods[i].key] = i - 1
      BY <2>1, Zenon DEF AllAligned, MethodsAligned
    <2>3. ASSUME NEW k \in DOMAIN method_inst_cache
          PROVE  \E i \in DOMAIN generic_methods : generic_methods[i].key = k
      <3>1. /\ method_inst_cache[k] \in 0 .. Len(generic_methods) - 1
            /\ generic_methods[method_inst_cache[k] + 1].key = k
        BY DEF AllAligned, MethodsAligned
      <3>2. method_inst_cache[k] + 1 \in DOMAIN generic_methods
        BY <2>1, <3>1
      <3> QED  BY <3>1, <3>2, Zenon
    <2>4. \A i, j \in DOMAIN generic_methods :
            generic_methods[i].key = generic_methods[j].key => i = j
      <3> SUFFICES ASSUME NEW i \in DOMAIN generic_methods, NEW j \in DOMAIN generic_methods,
                          generic_methods[i].key = generic_methods[j].key
                   PROVE  i = j
        OBVIOUS
      <3>1. i - 1 = j - 1
        BY <2>2
      <3> QED  BY <2>1, <3>1
    <2> DEFINE found == GetInstantiations(token)
    <2>5. \A i : i \in found <=>
            i \in DOMAIN generic_methods /\ generic_methods[i].key.method_token = token
      BY Zenon DEF GetInstantiations
    <2> HIDE DEF found
    <2>6. \A k : k \in {generic_methods[i].key : i \in found} <=>
                  k \in DOMAIN method_inst_cache /\ k.method_token = token
      <3>1. ASSUME NEW i \in found
            PROVE  /\ generic_methods[i].key \in DOMAIN method_inst_cache
                   /\ generic_methods[i].key.method_token = token
        BY <2>2, <2>5, Zenon
      <3>2. ASSUME NEW k \in DOMAIN method_inst_cache, k.method_token = token
            PROVE  \E i \in found : generic_methods[i].key = k
        BY <2>3, <2>5, <3>2, Zenon
      <3> QED  BY <3>1, <3>2
    <2>7. \A i, j \in found : generic_methods[i].key = generic_methods[j].key => i = j
      BY <2>4, <2>5, Zenon
    <2>8. {generic_methods[i].key : i \in found} =
            {k \in DOMAIN method_inst_cache : k.method_token = token}
      BY <2>6
    <2> QED  BY <2>7, <2>8, Zenon DEF found
  <1> QED  BY <1>1, TablesAligned, PTL

-------------------------------------------------------------------------------
\* A set of numbers that holds 0, and with a number below m the next one, holds
\* all up to m: the induction over a list of arguments.
LEMMA FromZeroTo ==
    ASSUME NEW m \in Nat, NEW S, 0 \in S,
           \A k \in 0 .. m : k \in S /\ k < m => k + 1 \in S
    PROVE  0 .. m \subseteq S
<1> DEFINE Missed == (0 .. m) \ S
<1>1. SUFFICES ASSUME Missed # {} PROVE FALSE
    OBVIOUS
<1>2. PICK k \in Missed : \A j \in Missed : k <= j
    <2>1. Missed \in SUBSET Nat
        OBVIOUS
    <2> HIDE DEF Missed
    <2>2. QED
        BY <1>1, <2>1, HasLeast
<1>3. k # 0 /\ k \in 0 .. m
    BY <1>2
<1>4. k - 1 \in 0 .. m /\ k - 1 \in S
    BY <1>2, <1>3
<1>5. QED
    BY <1>2, <1>3, <1>4

\* The equation that AOTKey solves by recursion over the arguments.
Folding(token, args, key) ==
    [i \in 0 .. Len(args) |->
        IF i = 0 THEN token
        ELSE (key[i - 1] * WordMod + args[i]) % (WordMod * WordMod)]

\* What a key is made of.
LEMMA KeyParts ==
    ASSUME NEW token \in Tokens, NEW args \in TypeArgs
    PROVE  /\ WordMod \in Nat \ {0} /\ WordMod * WordMod \in Nat \ {0}
           /\ token \in 0 .. WordMod - 1
           /\ Len(args) \in Nat
           /\ \A i \in 1 .. Len(args) : args[i] \in 0 .. WordMod - 1
  <1>1. WordMod \in Nat \ {0} /\ token \in 0 .. WordMod - 1 /\ args \in Seq(0 .. WordMod - 1)
    BY SharingAssumption DEF SharingAssumption
  <1> QED  BY <1>1

\* There is such a function: one more argument extends it by one more value.
LEMMA KeyExists ==
    ASSUME NEW token \in Tokens, NEW args \in TypeArgs
    PROVE  \E key : key = Folding(token, args, key)
  <1> DEFINE W == WordMod * WordMod
             Upto(n, f) == \A i \in 0 .. n :
                    f[i] = IF i = 0 THEN token ELSE (f[i - 1] * WordMod + args[i]) % W
             S == {n \in 0 .. Len(args) : \E f \in [0 .. n -> Int] : Upto(n, f)}
  <1>1. /\ WordMod \in Nat \ {0} /\ W \in Nat \ {0} /\ token \in Int /\ Len(args) \in Nat
        /\ \A i \in 1 .. Len(args) : args[i] \in Int
    BY KeyParts
  <1> HIDE DEF W
  <1>2. 0 \in S
    <2>1. [i \in 0 .. 0 |-> token] \in [0 .. 0 -> Int] /\ Upto(0, [i \in 0 .. 0 |-> token])
      BY <1>1
    <2>2. 0 \in 0 .. Len(args)
      BY <1>1
    <2> HIDE DEF Upto
    <2> QED  BY <2>1, <2>2, Zenon
  <1>3. ASSUME NEW n \in 0 .. Len(args), n \in S, n < Len(args)
        PROVE  n + 1 \in S
    <2>1. PICK f \in [0 .. n -> Int] : Upto(n, f)
      BY <1>3
    <2> DEFINE v == (f[n] * WordMod + args[n + 1]) % W
               g == [i \in 0 .. n + 1 |-> IF i = n + 1 THEN v ELSE f[i]]
    <2>2. n \in Nat /\ n + 1 \in 1 .. Len(args) /\ n + 1 \in 0 .. Len(args)
      BY <1>1, <1>3
    <2>3. f[n] * WordMod + args[n + 1] \in Int
      BY <1>1, <2>2
    <2>4. v \in Int
      BY <1>1, <2>3
    <2> HIDE DEF v
    <2>5. g \in [0 .. n + 1 -> Int]
      BY <2>2, <2>4
    <2>6. Upto(n + 1, g)
      <3> SUFFICES ASSUME NEW i \in 0 .. n + 1
                   PROVE  g[i] = IF i = 0 THEN token ELSE (g[i - 1] * WordMod + args[i]) % W
        OBVIOUS
      <3>1. CASE i = n + 1
        <4>1. g[i] = v /\ i # 0 /\ i - 1 = n /\ g[i - 1] = f[n]
          BY <2>2, <3>1
        <4> QED  BY <4>1, <3>1 DEF v
      <3>2. CASE i \in 0 .. n
        <4>1. g[i] = f[i] /\ (i # 0 => g[i - 1] = f[i - 1])
          BY <2>2, <3>2
        <4> QED  BY <2>1, <3>2, <4>1
      <3> QED  BY <2>2, <3>1, <3>2
    <2> HIDE DEF g
    <2> QED  BY <2>2, <2>5, <2>6
  <1> HIDE DEF S
  <1>4. Len(args) \in S
    <2>1. 0 .. Len(args) \subseteq S
      BY <1>1, <1>2, <1>3, FromZeroTo
    <2> QED  BY <1>1, <2>1
  <1>5. PICK f \in [0 .. Len(args) -> Int] : Upto(Len(args), f)
    BY <1>4 DEF S
  <1> QED  BY <1>5 DEF Folding, W

\* So AOTKey obeys its recursion.
LEMMA KeyRecursion ==
    ASSUME NEW token \in Tokens, NEW args \in TypeArgs
    PROVE  \E key : key = Folding(token, args, key) /\ AOTKey(token, args) = key[Len(args)]
  <1> DEFINE key[i \in 0 .. Len(args)] ==
                IF i = 0 THEN token
                ELSE (key[i - 1] * WordMod + args[i]) % (WordMod * WordMod)
  <1>1. key = Folding(token, args, key)
    BY KeyExists, Zenon DEF Folding
  <1>2. AOTKey(token, args) = key[Len(args)]
    BY DEF AOTKey
  <1> QED  BY <1>1, <1>2, Zenon

\* Words and their products: the token survives one shift, whatever is added.
LEMMA Shifted ==
    ASSUME NEW W \in Nat \ {0}, NEW t \in 0 .. W - 1, NEW a \in 0 .. W - 1
    PROVE  /\ t % W = t /\ t \in 0 .. W * W - 1
           /\ ((t * W + a) % (W * W)) \div W = t
  <1>1. t * W + a < W * W /\ t < W * W /\ t * W + a \in Nat
    OBVIOUS
  <1>2. (t * W + a) \div W = t
    OBVIOUS
  <1>3. (t * W + a) % (W * W) = t * W + a
    <2>1. \A x, m \in Nat : x < m => x % m = x
      OBVIOUS
    <2>2. W * W \in Nat
      OBVIOUS
    <2> QED  BY <1>1, <2>1, <2>2, Zenon
  <1> QED  BY <1>1, <1>2, <1>3

\* A key is a word of 64 bits, whatever the number of arguments.
LEMMA KeyFits ==
    ASSUME NEW token \in Tokens, NEW args \in TypeArgs
    PROVE  AOTKey(token, args) \in 0 .. WordMod * WordMod - 1
  <1>1. PICK key : key = Folding(token, args, key) /\ AOTKey(token, args) = key[Len(args)]
    BY KeyRecursion
  <1> DEFINE W == WordMod * WordMod
             S == {i \in 0 .. Len(args) : key[i] \in 0 .. W - 1}
  <1>2. /\ WordMod \in Nat \ {0} /\ W \in Nat \ {0} /\ Len(args) \in Nat
        /\ token \in 0 .. W - 1
        /\ \A i \in 1 .. Len(args) : args[i] \in Int
    BY KeyParts, Shifted
  <1>3. \A i \in 0 .. Len(args) :
            key[i] = IF i = 0 THEN token ELSE (key[i - 1] * WordMod + args[i]) % W
    BY <1>1 DEF Folding
  <1> HIDE DEF W
  <1>4. 0 \in S
    BY <1>2, <1>3
  <1>5. ASSUME NEW i \in 0 .. Len(args), i \in S, i < Len(args)
        PROVE  i + 1 \in S
    <2>1. i + 1 \in 1 .. Len(args) /\ i + 1 \in 0 .. Len(args) /\ i + 1 # 0 /\ i + 1 - 1 = i
      BY <1>2, <1>5
    <2>2. key[i] * WordMod + args[i + 1] \in Int
      BY <1>2, <1>5, <2>1
    <2>3. key[i + 1] = (key[i] * WordMod + args[i + 1]) % W
      BY <1>3, <2>1
    <2> QED  BY <1>2, <2>1, <2>2, <2>3
  <1> HIDE DEF S
  <1>6. Len(args) \in S
    <2>1. 0 .. Len(args) \subseteq S
      BY <1>2, <1>4, <1>5, FromZeroTo
    <2> QED  BY <1>2, <2>1
  <1> QED  BY <1>1, <1>6 DEF S, W

\* The key of a method with no argument, or one, names its token.
LEMMA KeyNamesToken ==
    ASSUME NEW token \in Tokens, NEW args \in TypeArgs, Len(args) <= 1
    PROVE  \/ AOTKey(token, args) \div WordMod = token
           \/ AOTKey(token, args) % WordMod = token
  <1>1. PICK key : key = Folding(token, args, key) /\ AOTKey(token, args) = key[Len(args)]
    BY KeyRecursion
  <1>2. /\ WordMod \in Nat \ {0} /\ token \in 0 .. WordMod - 1 /\ Len(args) \in Nat
        /\ \A i \in 1 .. Len(args) : args[i] \in 0 .. WordMod - 1
    BY KeyParts
  <1>3. \A i \in 0 .. Len(args) :
            key[i] = IF i = 0 THEN token
                     ELSE (key[i - 1] * WordMod + args[i]) % (WordMod * WordMod)
    BY <1>1 DEF Folding
  <1>4. key[0] = token
    BY <1>2, <1>3
  <1>5. CASE Len(args) = 0
    <2>1. AOTKey(token, args) = token
      BY <1>1, <1>4, <1>5, Zenon
    <2> QED  BY <1>2, <2>1, Shifted
  <1>6. CASE Len(args) = 1
    <2>1. args[1] \in 0 .. WordMod - 1
      BY <1>2, <1>6
    <2>2. key[1] = (key[1 - 1] * WordMod + args[1]) % (WordMod * WordMod)
      BY <1>3, <1>6
    <2>3. 1 - 1 = 0
      OBVIOUS
    <2>4. key[1] = (token * WordMod + args[1]) % (WordMod * WordMod)
      BY <1>4, <2>2, <2>3, Zenon
    <2>5. ((token * WordMod + args[1]) % (WordMod * WordMod)) \div WordMod = token
      BY <1>2, <2>1, Shifted, Zenon
    <2> QED  BY <1>1, <1>6, <2>4, <2>5, Zenon
  <1>7. Len(args) = 0 \/ Len(args) = 1
    <2>1. Len(args) \in Nat
      BY <1>2, Zenon
    <2>2. \A n \in Nat : n <= 1 => n = 0 \/ n = 1
      OBVIOUS
    <2> QED  BY <2>1, <2>2, Zenon
  <1> QED  BY <1>5, <1>6, <1>7, Zenon

\* What was registered is in the table under its key.
Recorded ==
    /\ registered \subseteq GenericInstKey
    /\ aot_generic_methods = {AOTKey(k.method_token, k.type_args) : k \in registered}

LEMMA RecordedHolds == SharingSpec => []Recorded
  <1>1. SharingInit => Recorded
    BY DEF SharingInit, Recorded
  <1>2. Recorded /\ [SharingNext]_sharingVars => Recorded'
    <2> SUFFICES ASSUME Recorded, [SharingNext]_sharingVars PROVE Recorded'
      OBVIOUS
    <2>1. ASSUME NEW token \in Tokens, NEW args \in TypeArgs,
                 RegisterAOTGenericMethod(token, args)
          PROVE  Recorded'
      <3> DEFINE k == Key(token, args)
      <3>1. k \in GenericInstKey /\ k.method_token = token /\ k.type_args = args
        BY DEF Key, GenericInstKey
      <3>2. /\ registered' = registered \cup {k}
            /\ aot_generic_methods' = aot_generic_methods \cup {AOTKey(k.method_token, k.type_args)}
        BY <2>1, <3>1 DEF RegisterAOTGenericMethod
      <3> HIDE DEF k
      <3> QED  BY <3>1, <3>2 DEF Recorded
    <2>2. ASSUME UNCHANGED aotVars PROVE Recorded'
      BY <2>2 DEF Recorded, aotVars
    <2>3. CASE UNCHANGED sharingVars
      BY <2>2, <2>3 DEF sharingVars
    <2>4. ASSUME NEW token \in Tokens, NEW args \in TypeArgs,
                 InstantiateGenericMethod(token, args)
          PROVE  Recorded'
      BY <2>2, <2>4 DEF InstantiateGenericMethod
    <2>5. ASSUME NEW token \in Tokens, NEW args \in TypeArgs,
                 InstantiateGenericClass(token, args)
          PROVE  Recorded'
      BY <2>2, <2>5 DEF InstantiateGenericClass
    <2> QED  BY <2>1, <2>3, <2>4, <2>5 DEF SharingNext
  <1> QED  BY <1>1, <1>2, PTL DEF SharingSpec

\* A method registered with at most one type argument is recognised by
\* IsAOTGeneric (generic_sharing.cpp:156-170), whatever else is registered and
\* however long its arguments are.
THEOREM RegisteredAreFound == SharingSpec => []AOTFound
  <1>1. Recorded => AOTFound
    <2> SUFFICES ASSUME Recorded, NEW k \in registered, Len(k.type_args) <= 1
                 PROVE  IsAOTGeneric(k.method_token)
      BY DEF AOTFound
    <2>1. k.method_token \in Tokens /\ k.type_args \in TypeArgs
      BY DEF Recorded, GenericInstKey
    <2>2. AOTKey(k.method_token, k.type_args) \in aot_generic_methods
      BY DEF Recorded
    <2> QED  BY <2>1, <2>2, KeyNamesToken, Zenon DEF IsAOTGeneric
  <1> QED  BY <1>1, RecordedHolds, PTL

\* Every table keeps its type: indices are natural numbers, keys of methods and
\* classes are keys, and what is registered fits 64 bits.
THEOREM SharingTypes == SharingSpec => []SharingTypeOK
  <1> DEFINE Mapped == /\ method_inst_cache = [k \in DOMAIN method_inst_cache |-> method_inst_cache[k]]
                       /\ class_inst_cache = [k \in DOMAIN class_inst_cache |-> class_inst_cache[k]]
  <1>1. SharingInit => Mapped
    BY DEF SharingInit
  <1>2. Mapped /\ [SharingNext]_sharingVars => Mapped'
    <2> SUFFICES ASSUME Mapped, [SharingNext]_sharingVars PROVE Mapped'
      OBVIOUS
    <2>1. ASSUME NEW token \in Tokens, NEW args \in TypeArgs,
                 InstantiateGenericMethod(token, args)
          PROVE  Mapped'
      BY <2>1 DEF InstantiateGenericMethod, NewMethod, With, classVars
    <2>2. ASSUME NEW token \in Tokens, NEW args \in TypeArgs,
                 InstantiateGenericClass(token, args)
          PROVE  Mapped'
      BY <2>2 DEF InstantiateGenericClass, With, methodVars
    <2>3. ASSUME NEW token \in Tokens, NEW args \in TypeArgs,
                 RegisterAOTGenericMethod(token, args)
          PROVE  Mapped'
      BY <2>3 DEF RegisterAOTGenericMethod, methodVars, classVars
    <2>4. CASE UNCHANGED sharingVars
      BY <2>4 DEF sharingVars, methodVars, classVars
    <2> QED  BY <2>1, <2>2, <2>3, <2>4 DEF SharingNext
  <1>3. Mapped /\ AllAligned /\ Recorded => SharingTypeOK
    <2> SUFFICES ASSUME Mapped, AllAligned, Recorded PROVE SharingTypeOK
      OBVIOUS
    <2>6. /\ method_inst_cache = [k \in DOMAIN method_inst_cache |-> method_inst_cache[k]]
          /\ class_inst_cache = [k \in DOMAIN class_inst_cache |-> class_inst_cache[k]]
      OBVIOUS
    <2> HIDE DEF Mapped
    <2>1. method_inst_cache \in [DOMAIN method_inst_cache -> Nat]
      <3>1. \A k \in DOMAIN method_inst_cache : method_inst_cache[k] \in Nat
        BY DEF AllAligned, MethodsAligned
      <3> QED  BY <2>6, <3>1
    <2>2. class_inst_cache \in [DOMAIN class_inst_cache -> Nat]
      <3>1. \A k \in DOMAIN class_inst_cache : class_inst_cache[k] \in Nat
        BY DEF AllAligned, ClassesAligned
      <3> QED  BY <2>6, <3>1
    <2>3. DOMAIN method_inst_cache \subseteq GenericInstKey
      <3> SUFFICES ASSUME NEW k \in DOMAIN method_inst_cache PROVE k \in GenericInstKey
        OBVIOUS
      <3>1. /\ generic_methods \in Seq([key : GenericInstKey, shared_method_index : Nat])
            /\ method_inst_cache[k] \in 0 .. Len(generic_methods) - 1
            /\ generic_methods[method_inst_cache[k] + 1].key = k
        BY Zenon DEF AllAligned, MethodsAligned
      <3>2. method_inst_cache[k] + 1 \in 1 .. Len(generic_methods)
        BY <3>1
      <3>3. generic_methods[method_inst_cache[k] + 1] \in [key : GenericInstKey, shared_method_index : Nat]
        BY <3>1, <3>2, RowOf, Zenon
      <3> QED  BY <3>1, <3>3
    <2>4. DOMAIN class_inst_cache \subseteq GenericInstKey
      <3> SUFFICES ASSUME NEW k \in DOMAIN class_inst_cache PROVE k \in GenericInstKey
        OBVIOUS
      <3>1. /\ generic_classes \in Seq([key : GenericInstKey, shared_type_index : Nat])
            /\ class_inst_cache[k] \in 0 .. Len(generic_classes) - 1
            /\ generic_classes[class_inst_cache[k] + 1].key = k
        BY Zenon DEF AllAligned, ClassesAligned
      <3>2. class_inst_cache[k] + 1 \in 1 .. Len(generic_classes)
        BY <3>1
      <3>3. generic_classes[class_inst_cache[k] + 1] \in [key : GenericInstKey, shared_type_index : Nat]
        BY <3>1, <3>2, RowOf, Zenon
      <3> QED  BY <3>1, <3>3
    <2>5. aot_generic_methods \subseteq 0 .. WordMod * WordMod - 1
      <3>1. \A k \in registered : k.method_token \in Tokens /\ k.type_args \in TypeArgs
        BY DEF Recorded, GenericInstKey
      <3> QED  BY <3>1, KeyFits DEF Recorded
    <2> QED  BY <2>1, <2>2, <2>3, <2>4, <2>5
             DEF SharingTypeOK, AllAligned, MethodsAligned, ClassesAligned, Recorded
  <1> QED  BY <1>1, <1>2, <1>3, TablesAligned, RecordedHolds, PTL DEF SharingSpec

=================================================================================
