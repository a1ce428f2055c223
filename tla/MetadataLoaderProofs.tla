-------------------------- MODULE MetadataLoaderProofs --------------------------
(***************************************************************************)
(* Instances of generic methods and types have rows of their own, for all  *)
(* files, and for every hash function.                                     *)
(***************************************************************************)
EXTENDS MetadataLoader, WellFoundedInduction, TLAPS

HashOf(g) == InstHash(g.base, g.args)

\* One table: its rows, how many of them are definitions, the cache, and the
\* instances that were handed out; ok as long as none was made of no row.
TableOK(S, cache, rows, count, mine, ok) ==
    /\ rows \in Seq(S)
    /\ count \in Nat /\ count <= Len(rows)
    /\ \A g \in mine : /\ g.base \in Nat
                       /\ HashOf(g) \in DOMAIN cache
                       /\ cache[HashOf(g)] = g.index
    /\ ok => /\ \A h \in DOMAIN cache : cache[h] \in count .. Len(rows) - 1
             /\ \A h1, h2 \in DOMAIN cache : cache[h1] = cache[h2] => h1 = h2
             /\ \A h \in DOMAIN cache : \E g \in mine :
                    /\ HashOf(g) = h /\ g.base < Len(rows)
                    /\ rows[g.index + 1] = Copy(rows[g.base + 1], g.index)

Mine(kind) == {g \in given : g.kind = kind}

InstancesInv ==
    /\ sound \in BOOLEAN
    /\ \A g \in given : g.kind \in {"method", "type"}
    /\ TableOK(RuntimeType, generic_type_cache, runtime_types, Len(type_definitions),
               Mine("type"), sound)
    /\ TableOK(RuntimeMethod, generic_method_cache, runtime_methods, Len(method_definitions),
               Mine("method"), sound)

-------------------------------------------------------------------------------
\* What Append does to a sequence, element by element.
LEMMA RowAppended ==
    ASSUME NEW S, NEW s \in Seq(S), NEW x \in S
    PROVE  /\ Append(s, x) \in Seq(S)
           /\ Len(Append(s, x)) = Len(s) + 1
           /\ Append(s, x)[Len(s) + 1] = x
           /\ \A i \in 1 .. Len(s) : Append(s, x)[i] = s[i]
  OBVIOUS

\* One more instance in a table that is sound keeps it sound, unless it is made
\* of an index without a row.
LEMMA OneMoreInstance ==
    ASSUME NEW S, NEW cache, NEW rows, NEW count, NEW mine, NEW ok \in BOOLEAN,
           TableOK(S, cache, rows, count, mine, ok),
           NEW g, g.base \in Nat,
           HashOf(g) \notin DOMAIN cache,
           g.index = Len(rows),
           \A i \in 1 .. Len(rows) : Copy(rows[i], Len(rows)) \in S
    PROVE  TableOK(S, Entered(cache, HashOf(g), g.index), Instantiated(rows, g.base), count,
                   mine \cup {g}, ok /\ g.base < Len(rows))
  <1> DEFINE n == Len(rows)
             k == HashOf(g)
             c2 == Entered(cache, k, n)
             r2 == Instantiated(rows, g.base)
             copy == Copy(rows[g.base + 1], n)
  <1>1. rows \in Seq(S) /\ n \in Nat /\ count \in Nat /\ count <= n
    BY DEF TableOK
  <1>2. /\ DOMAIN c2 = DOMAIN cache \cup {k}
        /\ c2[k] = n
        /\ \A h \in DOMAIN cache : c2[h] = cache[h]
    BY DEF Entered
  <1>3. \A x \in mine \cup {g} : x.base \in Nat /\ HashOf(x) \in DOMAIN c2 /\ c2[HashOf(x)] = x.index
    BY <1>2 DEF TableOK
  <1>4. CASE ~(g.base < n)
    <2>1. r2 = rows
      BY <1>4 DEF Instantiated
    <2> QED  BY <1>1, <1>3, <1>4, <2>1 DEF TableOK
  <1>5. CASE g.base < n
    <2>1. r2 = Append(rows, copy) /\ g.base + 1 \in 1 .. n
      BY <1>1, <1>5 DEF Instantiated
    <2>2. copy \in S
      BY <2>1
    <2> HIDE DEF c2, k, copy, r2
    <2>3. /\ r2 \in Seq(S) /\ Len(r2) = n + 1 /\ r2[n + 1] = copy
          /\ \A i \in 1 .. n : r2[i] = rows[i]
      BY <1>1, <2>1, <2>2, RowAppended
    <2>4. SUFFICES ASSUME ok
                   PROVE  /\ \A h \in DOMAIN c2 : c2[h] \in count .. Len(r2) - 1
                          /\ \A h1, h2 \in DOMAIN c2 : c2[h1] = c2[h2] => h1 = h2
                          /\ \A h \in DOMAIN c2 : \E x \in mine \cup {g} :
                                /\ HashOf(x) = h /\ x.base < Len(r2)
                                /\ r2[x.index + 1] = Copy(r2[x.base + 1], x.index)
      <3>1. r2 \in Seq(S) /\ count <= Len(r2)
        BY <1>1, <2>3
      <3> QED  BY <1>1, <1>3, <2>4, <3>1, Zenon DEF TableOK, c2, k, r2
    <2>5. \A h \in DOMAIN cache : cache[h] \in count .. n - 1
      BY <2>4 DEF TableOK
    <2>6. \A h \in DOMAIN c2 : c2[h] \in count .. Len(r2) - 1
      BY <1>1, <1>2, <2>3, <2>5
    <2>7. \A h1, h2 \in DOMAIN c2 : c2[h1] = c2[h2] => h1 = h2
      <3>1. \A h \in DOMAIN cache : c2[h] # n
        BY <1>1, <1>2, <2>5
      <3>2. \A h1, h2 \in DOMAIN cache : cache[h1] = cache[h2] => h1 = h2
        BY <2>4 DEF TableOK
      <3> QED  BY <1>2, <3>1, <3>2, Zenon
    <2>8. ASSUME NEW h \in DOMAIN c2
          PROVE  \E x \in mine \cup {g} :
                    /\ HashOf(x) = h /\ x.base < Len(r2)
                    /\ r2[x.index + 1] = Copy(r2[x.base + 1], x.index)
      <3>1. CASE h = k
        <4>1. g.base < Len(r2) /\ r2[g.base + 1] = rows[g.base + 1]
          BY <1>1, <1>5, <2>1, <2>3
        <4>2. r2[g.index + 1] = Copy(r2[g.base + 1], g.index)
          BY <4>1, <2>3 DEF copy
        <4> QED  BY <3>1, <4>1, <4>2, Zenon DEF k
      <3>2. CASE h \in DOMAIN cache
        <4>1. PICK x \in mine :
                /\ HashOf(x) = h /\ x.base < n
                /\ rows[x.index + 1] = Copy(rows[x.base + 1], x.index)
          BY <3>2, <2>4 DEF TableOK
        <4>2. x.base \in Nat /\ x.index = cache[h]
          BY <4>1 DEF TableOK
        <4>3. x.base + 1 \in 1 .. n /\ x.index + 1 \in 1 .. n /\ x.base < Len(r2)
          BY <1>1, <2>3, <2>5, <3>2, <4>1, <4>2
        <4>4. r2[x.base + 1] = rows[x.base + 1] /\ r2[x.index + 1] = rows[x.index + 1]
          BY <2>3, <4>3
        <4> QED  BY <4>1, <4>3, <4>4, Zenon
      <3> QED  BY <3>1, <3>2, <1>2, Zenon
    <2> QED  BY <2>6, <2>7, <2>8, Zenon
  <1> QED  BY <1>4, <1>5

\* An instance that is cached already.
LEMMA SameInstance ==
    ASSUME NEW S, NEW cache, NEW rows, NEW count, NEW mine, NEW ok \in BOOLEAN,
           TableOK(S, cache, rows, count, mine, ok),
           NEW g, g.base \in Nat,
           NEW k, HashOf(g) = k, k \in DOMAIN cache,
           NEW index, index = cache[k], g.index = index
    PROVE  TableOK(S, Entered(cache, k, index), rows, count, mine \cup {g}, ok)
  <1> DEFINE c2 == Entered(cache, k, index)
  <1>1. DOMAIN c2 = DOMAIN cache /\ \A h \in DOMAIN cache : c2[h] = cache[h]
    BY DEF Entered
  <1> HIDE DEF c2
  <1>2. ok => \A h \in DOMAIN c2 : \E x \in mine \cup {g} :
                /\ HashOf(x) = h /\ x.base < Len(rows)
                /\ rows[x.index + 1] = Copy(rows[x.base + 1], x.index)
    BY <1>1, Zenon DEF TableOK
  <1> QED  BY <1>1, <1>2, Zenon DEF TableOK, c2

\* An instance that is handed out is one more of its kind.
LEMMA MineGrows ==
    ASSUME NEW g, given' = given \cup {g}
    PROVE  /\ Mine(g.kind)' = Mine(g.kind) \cup {g}
           /\ \A other : other # g.kind => Mine(other)' = Mine(other)
  BY DEF Mine

\* The copy of a row is a row.
LEMMA CopyTyped ==
    ASSUME NEW i \in Nat
    PROVE  /\ \A row \in RuntimeType : Copy(row, i) \in RuntimeType
           /\ \A row \in RuntimeMethod : Copy(row, i) \in RuntimeMethod
  BY DEF Copy, RuntimeType, RuntimeMethod

\* Without an instance, and with an empty cache, a table is sound.
LEMMA EmptyTable ==
    ASSUME NEW S, NEW cache, NEW rows \in Seq(S), NEW ok \in BOOLEAN,
           ok => cache = <<>>
    PROVE  TableOK(S, cache, rows, Len(rows), {}, ok)
  <1>1. ok => DOMAIN cache = {}
    OBVIOUS
  <1> QED  BY <1>1 DEF TableOK

LEMMA LoaderStarts == LoaderInit => InstancesInv
  <1> SUFFICES ASSUME LoaderInit PROVE InstancesInv
    OBVIOUS
  <1>1. Mine("type") = {} /\ Mine("method") = {}
    BY DEF LoaderInit, Mine
  <1>2. <<>> \in Seq(RuntimeType) /\ <<>> \in Seq(RuntimeMethod)
    OBVIOUS
  <1> QED  BY <1>1, <1>2, EmptyTable DEF LoaderInit, InstancesInv

\* A function on 1 .. n is a sequence of length n.
LEMMA FunctionIsSeq ==
    ASSUME NEW S, NEW n \in Nat, NEW f \in [1 .. n -> S]
    PROVE  f \in Seq(S) /\ Len(f) = n
  OBVIOUS

\* The rows that a load builds are as many as the definitions.
LEMMA TypeRowsTyped ==
    ASSUME NEW defs \in Seq(TypeDefinition)
    PROVE  TypeRows(defs) \in Seq(RuntimeType) /\ Len(TypeRows(defs)) = Len(defs)
  <1> DEFINE f == TypeRows(defs)
             n == Len(defs)
  <1>1. n \in Nat /\ DOMAIN defs = 1 .. n
    OBVIOUS
  <1>2. ASSUME NEW i \in 1 .. n
        PROVE  f[i] \in RuntimeType
    <2>1. defs[i] \in TypeDefinition /\ i - 1 \in Nat
      BY <1>1
    <2> QED  BY <1>1, <2>1 DEF TypeRows, TypeDefinition, RuntimeType
  <1>3. f = [i \in 1 .. n |-> f[i]]
    BY <1>1 DEF TypeRows
  <1> HIDE DEF f
  <1>4. f \in [1 .. n -> RuntimeType]
    BY <1>2, <1>3
  <1> QED  BY <1>1, <1>4, FunctionIsSeq DEF f

LEMMA MethodRowsTyped ==
    ASSUME NEW defs \in Seq(MethodDefinition)
    PROVE  MethodRows(defs) \in Seq(RuntimeMethod) /\ Len(MethodRows(defs)) = Len(defs)
  <1> DEFINE f == MethodRows(defs)
             n == Len(defs)
  <1>1. n \in Nat /\ DOMAIN defs = 1 .. n
    OBVIOUS
  <1>2. ASSUME NEW i \in 1 .. n
        PROVE  f[i] \in RuntimeMethod
    <2>1. defs[i] \in MethodDefinition /\ i - 1 \in Nat
      BY <1>1
    <2> QED  BY <1>1, <2>1 DEF MethodRows, MethodDefinition, RuntimeMethod
  <1>3. f = [i \in 1 .. n |-> f[i]]
    BY <1>1 DEF MethodRows
  <1> HIDE DEF f
  <1>4. f \in [1 .. n -> RuntimeMethod]
    BY <1>2, <1>3
  <1> QED  BY <1>1, <1>4, FunctionIsSeq DEF f

\* A load starts both tables anew.
LEMMA LoadStep ==
    ASSUME InstancesInv, NEW file \in Files, LoadGlobalMetadata(file)
    PROVE  InstancesInv'
  <1>1. file.types \in Seq(TypeDefinition) /\ file.methods \in Seq(MethodDefinition)
    BY LoaderAssumption DEF LoaderAssumption
  <1>2. /\ TypeRows(file.types) \in Seq(RuntimeType)
        /\ Len(TypeRows(file.types)) = Len(file.types)
    BY <1>1, TypeRowsTyped
  <1>3. /\ MethodRows(file.methods) \in Seq(RuntimeMethod)
        /\ Len(MethodRows(file.methods)) = Len(file.methods)
    BY <1>1, MethodRowsTyped
  <1>4. Mine("type")' = {} /\ Mine("method")' = {}
    BY DEF LoadGlobalMetadata, Mine
  <1>5. /\ sound' \in BOOLEAN
        /\ sound' => generic_type_cache' = <<>>
        /\ sound' => generic_method_cache' = <<>>
    BY DEF LoadGlobalMetadata
  <1>6. /\ runtime_types' = TypeRows(file.types) /\ type_definitions' = file.types
        /\ runtime_methods' = MethodRows(file.methods) /\ method_definitions' = file.methods
    BY DEF LoadGlobalMetadata
  <1>7. given' = {}
    BY DEF LoadGlobalMetadata
  <1> QED  BY <1>2, <1>3, <1>4, <1>5, <1>6, <1>7, EmptyTable DEF InstancesInv

\* An instantiation of a method keeps both tables sound, or gives up on them.
LEMMA MethodStep ==
    ASSUME InstancesInv, NEW base \in Bases, NEW args \in InstanceArgs,
           InstantiateMethod(base, args)
    PROVE  InstancesInv'
  <1> DEFINE h == InstHash(base, args)
             index == InstanceIndex(generic_method_cache, runtime_methods, h)
             g == [kind |-> "method", base |-> base, args |-> args, index |-> index]
  <1>1. /\ generic_method_cache' = Entered(generic_method_cache, h, index)
        /\ UNCHANGED <<definitions, runtime_types, generic_type_cache>>
        /\ given' = given \cup {g}
    BY DEF HandOut, InstantiateMethod
  <1>2. /\ Mine("method")' = Mine("method") \cup {g}
        /\ Mine("type")' = Mine("type")
    <2>1. g.kind = "method" /\ "type" # "method"
      OBVIOUS
    <2> HIDE DEF g
    <2> QED  BY <1>1, <2>1, MineGrows
  <1>3. g.base \in Nat /\ HashOf(g) = h /\ g.index = index
    BY LoaderAssumption DEF LoaderAssumption, HashOf
  <1>4. /\ sound \in BOOLEAN
        /\ TableOK(RuntimeMethod, generic_method_cache, runtime_methods, Len(method_definitions), Mine("method"), sound)
        /\ TableOK(RuntimeType, generic_type_cache, runtime_types, Len(type_definitions), Mine("type"), sound)
    BY DEF InstancesInv
  <1>7. \A x \in given' : x.kind \in {"method", "type"}
    <2>1. g.kind = "method" /\ \A x \in given : x.kind \in {"method", "type"}
      BY DEF InstancesInv
    <2> HIDE DEF g
    <2> QED  BY <1>1, <2>1
  <1> HIDE DEF g, h
  <1>5. CASE h \in DOMAIN generic_method_cache
    <2>1. index = generic_method_cache[h] /\ runtime_methods' = runtime_methods /\ sound' = sound
      BY <1>4, <1>5 DEF InstantiateMethod, InstanceIndex, h
    <2> HIDE DEF index
    <2>2. TableOK(RuntimeMethod, Entered(generic_method_cache, h, index), runtime_methods, Len(method_definitions),
                  Mine("method") \cup {g}, sound)
      BY <1>3, <1>4, <1>5, <2>1, SameInstance
    <2> QED  BY <1>1, <1>2, <1>4, <1>7, <2>1, <2>2 DEF InstancesInv, definitions
  <1>6. CASE h \notin DOMAIN generic_method_cache
    <2>1. /\ index = Len(runtime_methods)
          /\ runtime_methods' = Instantiated(runtime_methods, base)
          /\ sound' = (sound /\ base < Len(runtime_methods))
      BY <1>6 DEF InstantiateMethod, InstanceIndex, h
    <2>2. \A i \in 1 .. Len(runtime_methods) : Copy(runtime_methods[i], Len(runtime_methods)) \in RuntimeMethod
      <3>1. runtime_methods \in Seq(RuntimeMethod) /\ Len(runtime_methods) \in Nat
        BY <1>4 DEF TableOK
      <3> QED  BY <3>1, CopyTyped
    <2>3. g.base = base
      BY DEF g
    <2>4. TableOK(RuntimeMethod, Entered(generic_method_cache, h, index), Instantiated(runtime_methods, base),
                  Len(method_definitions), Mine("method") \cup {g}, sound /\ base < Len(runtime_methods))
      BY <1>3, <1>4, <1>6, <2>1, <2>2, <2>3, OneMoreInstance
    <2>5. TableOK(RuntimeType, generic_type_cache, runtime_types, Len(type_definitions), Mine("type"), sound')
      BY <1>4, <2>1 DEF TableOK
    <2> QED  BY <1>1, <1>2, <1>4, <1>7, <2>1, <2>4, <2>5 DEF InstancesInv, definitions
  <1> QED  BY <1>5, <1>6

\* An instantiation of a type keeps both tables sound, or gives up on them.
LEMMA TypeStep ==
    ASSUME InstancesInv, NEW base \in Bases, NEW args \in InstanceArgs,
           InstantiateType(base, args)
    PROVE  InstancesInv'
  <1> DEFINE h == InstHash(base, args)
             index == InstanceIndex(generic_type_cache, runtime_types, h)
             g == [kind |-> "type", base |-> base, args |-> args, index |-> index]
  <1>1. /\ generic_type_cache' = Entered(generic_type_cache, h, index)
        /\ UNCHANGED <<definitions, runtime_methods, generic_method_cache>>
        /\ given' = given \cup {g}
    BY DEF HandOut, InstantiateType
  <1>2. /\ Mine("type")' = Mine("type") \cup {g}
        /\ Mine("method")' = Mine("method")
    <2>1. g.kind = "type" /\ "method" # "type"
      OBVIOUS
    <2> HIDE DEF g
    <2> QED  BY <1>1, <2>1, MineGrows
  <1>3. g.base \in Nat /\ HashOf(g) = h /\ g.index = index
    BY LoaderAssumption DEF LoaderAssumption, HashOf
  <1>4. /\ sound \in BOOLEAN
        /\ TableOK(RuntimeType, generic_type_cache, runtime_types, Len(type_definitions), Mine("type"), sound)
        /\ TableOK(RuntimeMethod, generic_method_cache, runtime_methods, Len(method_definitions), Mine("method"), sound)
    BY DEF InstancesInv
  <1>7. \A x \in given' : x.kind \in {"method", "type"}
    <2>1. g.kind = "type" /\ \A x \in given : x.kind \in {"method", "type"}
      BY DEF InstancesInv
    <2> HIDE DEF g
    <2> QED  BY <1>1, <2>1
  <1> HIDE DEF g, h
  <1>5. CASE h \in DOMAIN generic_type_cache
    <2>1. index = generic_type_cache[h] /\ runtime_types' = runtime_types /\ sound' = sound
      BY <1>4, <1>5 DEF InstantiateType, InstanceIndex, h
    <2> HIDE DEF index
    <2>2. TableOK(RuntimeType, Entered(generic_type_cache, h, index), runtime_types, Len(type_definitions),
                  Mine("type") \cup {g}, sound)
      BY <1>3, <1>4, <1>5, <2>1, SameInstance
    <2> QED  BY <1>1, <1>2, <1>4, <1>7, <2>1, <2>2 DEF InstancesInv, definitions
  <1>6. CASE h \notin DOMAIN generic_type_cache
    <2>1. /\ index = Len(runtime_types)
          /\ runtime_types' = Instantiated(runtime_types, base)
          /\ sound' = (sound /\ base < Len(runtime_types))
      BY <1>6 DEF InstantiateType, InstanceIndex, h
    <2>2. \A i \in 1 .. Len(runtime_types) : Copy(runtime_types[i], Len(runtime_types)) \in RuntimeType
      <3>1. runtime_types \in Seq(RuntimeType) /\ Len(runtime_types) \in Nat
        BY <1>4 DEF TableOK
      <3> QED  BY <3>1, CopyTyped
    <2>3. g.base = base
      BY DEF g
    <2>4. TableOK(RuntimeType, Entered(generic_type_cache, h, index), Instantiated(runtime_types, base),
                  Len(type_definitions), Mine("type") \cup {g}, sound /\ base < Len(runtime_types))
      BY <1>3, <1>4, <1>6, <2>1, <2>2, <2>3, OneMoreInstance
    <2>5. TableOK(RuntimeMethod, generic_method_cache, runtime_methods, Len(method_definitions), Mine("method"), sound')
      BY <1>4, <2>1 DEF TableOK
    <2> QED  BY <1>1, <1>2, <1>4, <1>7, <2>1, <2>4, <2>5 DEF InstancesInv, definitions
  <1> QED  BY <1>5, <1>6

\* InstancesOwnRows, of the instances of one kind.
RowsOwn(kind, rows, count) ==
    \A g \in given :
        g.kind = kind =>
            /\ g.index \in count .. Len(rows) - 1
            /\ \A h \in given :
                IF h.kind = g.kind /\ InstHash(h.base, h.args) # InstHash(g.base, g.args)
                THEN h.index # g.index
                ELSE TRUE
            /\ (\A h \in given : h.kind = g.kind
                    /\ InstHash(h.base, h.args) = InstHash(g.base, g.args) => h = g)
               => rows[g.index + 1] = Copy(rows[g.base + 1], g.index)

\* A sound table gives instances rows of their own.
LEMMA OwnRows ==
    ASSUME NEW S, NEW cache, NEW rows, NEW count, NEW kind,
           TableOK(S, cache, rows, count, Mine(kind), TRUE)
    PROVE  RowsOwn(kind, rows, count)
  <1> SUFFICES ASSUME NEW g \in given, g.kind = kind
               PROVE  /\ g.index \in count .. Len(rows) - 1
                      /\ \A h \in given :
                          IF h.kind = g.kind /\ InstHash(h.base, h.args) # InstHash(g.base, g.args)
                          THEN h.index # g.index
                          ELSE TRUE
                      /\ (\A h \in given : h.kind = g.kind
                              /\ InstHash(h.base, h.args) = InstHash(g.base, g.args) => h = g)
                         => rows[g.index + 1] = Copy(rows[g.base + 1], g.index)
    BY Zenon DEF RowsOwn
  <1>1. \A h \in given : h.kind = kind =>
            HashOf(h) \in DOMAIN cache /\ cache[HashOf(h)] = h.index
    BY DEF TableOK, Mine
  <1>2. g.index \in count .. Len(rows) - 1
    BY <1>1 DEF TableOK
  <1>3. \A h \in given : h.kind = g.kind /\ HashOf(h) # HashOf(g) => h.index # g.index
    BY <1>1 DEF TableOK
  <1>4. PICK x \in Mine(kind) : /\ HashOf(x) = HashOf(g)
                                /\ rows[x.index + 1] = Copy(rows[x.base + 1], x.index)
    BY <1>1 DEF TableOK
  <1>5. x \in given /\ x.kind = kind
    BY DEF Mine
  <1> QED  BY <1>2, <1>3, <1>4, <1>5, Zenon DEF HashOf

LEMMA LoaderSteps == InstancesInv /\ [LoaderNext]_loaderVars => InstancesInv'
  <1> SUFFICES ASSUME InstancesInv, [LoaderNext]_loaderVars PROVE InstancesInv'
    OBVIOUS
  <1>1. CASE UNCHANGED loaderVars
    BY <1>1 DEF InstancesInv, Mine, loaderVars, definitions
  <1> QED  BY <1>1, LoadStep, MethodStep, TypeStep DEF LoaderNext

\* The tables and the caches agree on who has which row.
THEOREM InstancesInvariant == LoaderSpec => []InstancesInv
  BY LoaderStarts, LoaderSteps, PTL DEF LoaderSpec

\* InstantiateGenericMethod and InstantiateGenericType never hand out one row for
\* two hashes, nor a definition's row, for all files, arguments and hashes, until
\* a load meets cached instances or an instance is made of no row.
THEOREM RowsAreOwn == LoaderSpec => []InstancesOwnRows
  <1>1. InstancesInv => InstancesOwnRows
    <2> SUFFICES ASSUME InstancesInv, sound PROVE InstancesOwnRows
      BY Zenon DEF InstancesOwnRows
    <2>1. RowsOwn("type", runtime_types, Len(type_definitions))
      BY OwnRows DEF InstancesInv
    <2>2. RowsOwn("method", runtime_methods, Len(method_definitions))
      BY OwnRows DEF InstancesInv
    <2>3. \A g \in given : g.kind = "type" \/ (g.kind = "method" /\ g.kind # "type")
      BY DEF InstancesInv
    <2> QED  BY <2>1, <2>2, <2>3 DEF InstancesOwnRows, RowsOwn
  <1> QED  BY <1>1, InstancesInvariant, PTL

-------------------------------------------------------------------------------
\* Every set of natural numbers that has an element has a least one.
LEMMA HasLeast ==
    ASSUME NEW S \in SUBSET Nat, S # {}
    PROVE  \E m \in S : \A k \in S : m <= k
<1> DEFINE R == OpToRel(<, Nat)
<1>1. \A x, y \in Nat : x < y => <<x, y>> \in R
    BY DEF OpToRel
<1>2. IsWellFoundedOn(R, Nat)
    BY NatLessThanWellFounded
<1> HIDE DEF R
<1>3. S \subseteq Nat
    OBVIOUS
<1>4. PICK x \in S : \A y \in S : ~(<<y, x>> \in R)
    BY <1>2, <1>3, WFMin, Zenon
<1>5. \A y \in S : ~(y < x)
    BY <1>1, <1>3, <1>4, Zenon
<1>6. QED
    BY <1>3, <1>5

\* A name that is in a table has a last definition there, which the loop of
\* BuildTypeCaches leaves in the cache.
LEMMA LastNamed ==
    ASSUME NEW S, NEW defs \in Seq(S), NEW n \in NamesOf(defs)
    PROVE  \E i \in 0 .. Len(defs) - 1 :
                /\ defs[i + 1].name = n
                /\ \A j \in i + 2 .. Len(defs) : defs[j].name # n
  <1> DEFINE L == Len(defs)
             Left == {m \in 0 .. L - 1 : defs[L - m].name = n}
  <1>1. L \in Nat /\ DOMAIN defs = 1 .. L
    OBVIOUS
  <1> HIDE DEF L
  <1>2. PICK k \in 1 .. L : defs[k].name = n
    BY <1>1 DEF NamesOf
  <1>3. Left # {}
    <2>1. L - k \in 0 .. L - 1 /\ L - (L - k) = k
      BY <1>1, <1>2
    <2> QED  BY <1>2, <2>1
  <1>4. Left \in SUBSET Nat
    BY <1>1
  <1>5. PICK m \in Left : \A j \in Left : m <= j
    <2> HIDE DEF Left
    <2> QED  BY <1>3, <1>4, HasLeast
  <1> DEFINE i == L - m - 1
  <1>6. i \in 0 .. L - 1 /\ i + 1 = L - m
    BY <1>1, <1>5
  <1>7. defs[i + 1].name = n
    BY <1>5, <1>6
  <1>8. ASSUME NEW j \in i + 2 .. L
        PROVE  defs[j].name # n
    <2>1. L - j \in 0 .. L - 1 /\ L - (L - j) = j /\ ~(m <= L - j)
      BY <1>1, <1>5
    <2>2. L - j \notin Left
      BY <1>5, <2>1
    <2> QED  BY <2>1, <2>2
  <1> HIDE DEF i
  <1> QED  BY <1>6, <1>7, <1>8 DEF L

\* What a name cache holds after a load: for the names of the file the place of
\* a definition, for the others what it held.
AfterLoad(c, cache, defs) ==
    /\ DOMAIN c = DOMAIN cache \cup NamesOf(defs)
    /\ \A n \in NamesOf(defs) : /\ c[n] \in 0 .. Len(defs) - 1
                                /\ defs[c[n] + 1].name = n
    /\ \A n \in DOMAIN cache \ NamesOf(defs) : c[n] = cache[n]

LEMMA CachedNames ==
    ASSUME NEW S, NEW defs \in Seq(S), NEW cache
    PROVE  AfterLoad(Cached(cache, defs), cache, defs)
  <1> DEFINE Last(n, i) == /\ defs[i + 1].name = n
                           /\ \A j \in i + 2 .. Len(defs) : defs[j].name # n
             c == Cached(cache, defs)
  <1>1. DOMAIN c = DOMAIN cache \cup NamesOf(defs)
    BY DEF Cached
  <1>2. ASSUME NEW n \in NamesOf(defs)
        PROVE  c[n] \in 0 .. Len(defs) - 1 /\ Last(n, c[n])
    <2>1. c[n] = CHOOSE i \in 0 .. Len(defs) - 1 : Last(n, i)
      BY Zenon DEF Cached
    <2>2. \E i \in 0 .. Len(defs) - 1 : Last(n, i)
      BY LastNamed
    <2> HIDE DEF Last, c
    <2> QED  BY <2>1, <2>2, Zenon
  <1>3. \A n \in DOMAIN cache \ NamesOf(defs) : c[n] = cache[n]
    BY DEF Cached
  <1> HIDE DEF c
  <1> QED  BY <1>1, <1>2, <1>3, Zenon DEF c, AfterLoad

\* The definitions are typed, a name leads to a definition that has it, and the
\* first rows are those of the definitions, in order.
DefinitionsInv ==
    /\ type_definitions \in Seq(TypeDefinition)
    /\ method_definitions \in Seq(MethodDefinition)
    /\ \A n \in NamesOf(type_definitions) :
            /\ n \in DOMAIN type_name_cache
            /\ type_name_cache[n] \in 0 .. Len(type_definitions) - 1
            /\ type_definitions[type_name_cache[n] + 1].name = n
    /\ \A i \in 1 .. Len(method_definitions) :
            runtime_methods[i] = MethodRows(method_definitions)[i]

\* An instance is appended: the rows before it stay.
LEMMA RowsStay ==
    ASSUME NEW S, NEW rows \in Seq(S), NEW base, NEW i \in 1 .. Len(rows)
    PROVE  Instantiated(rows, base)[i] = rows[i]
  BY DEF Instantiated

LEMMA DefinitionsSteps ==
    DefinitionsInv /\ InstancesInv /\ [LoaderNext]_loaderVars => DefinitionsInv'
  <1> SUFFICES ASSUME DefinitionsInv, InstancesInv, [LoaderNext]_loaderVars
               PROVE  DefinitionsInv'
    OBVIOUS
  <1>1. ASSUME NEW file \in Files, LoadGlobalMetadata(file)
        PROVE  DefinitionsInv'
    <2>1. /\ file.types \in Seq(TypeDefinition) /\ file.methods \in Seq(MethodDefinition)
          /\ type_definitions' = file.types /\ method_definitions' = file.methods
          /\ runtime_methods' = MethodRows(file.methods)
          /\ type_name_cache' = Cached(type_name_cache, file.types)
      BY <1>1, LoaderAssumption DEF LoaderAssumption, LoadGlobalMetadata
    <2>2. \A n \in NamesOf(file.types) :
            /\ n \in DOMAIN type_name_cache'
            /\ type_name_cache'[n] \in 0 .. Len(file.types) - 1
            /\ file.types[type_name_cache'[n] + 1].name = n
      <3> DEFINE c == Cached(type_name_cache, file.types)
      <3>1. AfterLoad(c, type_name_cache, file.types)
        BY <2>1, CachedNames, Zenon
      <3>2. type_name_cache' = c
        BY <2>1
      <3> HIDE DEF c
      <3> QED  BY <3>1, <3>2 DEF AfterLoad
    <2> QED  BY <2>1, <2>2, Zenon DEF DefinitionsInv
  <1>2. ASSUME UNCHANGED <<definitions, nameCaches, runtime_methods>>
        PROVE  DefinitionsInv'
    BY <1>2 DEF DefinitionsInv, definitions, nameCaches
  <1>3. ASSUME NEW base \in Bases, NEW args \in InstanceArgs, InstantiateMethod(base, args)
        PROVE  DefinitionsInv'
    <2>1. /\ UNCHANGED <<definitions, nameCaches>>
          /\ \/ runtime_methods' = runtime_methods
             \/ runtime_methods' = Instantiated(runtime_methods, base)
      BY <1>3 DEF InstantiateMethod
    <2>2. /\ runtime_methods \in Seq(RuntimeMethod)
          /\ Len(method_definitions) \in Nat /\ Len(runtime_methods) \in Nat
          /\ Len(method_definitions) <= Len(runtime_methods)
      BY DEF InstancesInv, TableOK
    <2>3. \A i \in 1 .. Len(method_definitions) : runtime_methods'[i] = runtime_methods[i]
      <3> SUFFICES ASSUME NEW i \in 1 .. Len(method_definitions)
                   PROVE  runtime_methods'[i] = runtime_methods[i]
        OBVIOUS
      <3>1. i \in 1 .. Len(runtime_methods)
        BY <2>2
      <3> QED  BY <2>1, <2>2, <3>1, RowsStay
    <2>4. /\ type_definitions' = type_definitions /\ method_definitions' = method_definitions
          /\ type_name_cache' = type_name_cache
      BY <2>1 DEF definitions, nameCaches
    <2> QED  BY <2>3, <2>4 DEF DefinitionsInv
  <1>4. ASSUME NEW base \in Bases, NEW args \in InstanceArgs, InstantiateType(base, args)
        PROVE  DefinitionsInv'
    BY <1>2, <1>4 DEF InstantiateType
  <1>5. CASE UNCHANGED loaderVars
    BY <1>2, <1>5 DEF loaderVars
  <1> QED  BY <1>1, <1>3, <1>4, <1>5 DEF LoaderNext

THEOREM DefinitionsInvariant == LoaderSpec => []DefinitionsInv
  <1>1. LoaderInit => DefinitionsInv
    <2> SUFFICES ASSUME LoaderInit PROVE DefinitionsInv
      OBVIOUS
    <2>1. NamesOf(<<>>) = {} /\ Len(<<>>) = 0
      BY DEF NamesOf
    <2> QED  BY <2>1 DEF LoaderInit, DefinitionsInv
  <1> QED  BY <1>1, DefinitionsSteps, InstancesInvariant, PTL DEF LoaderSpec

\* GetMethodIndex (il2cpp_metadata.cpp) finds the row of every method of the
\* current file through the names, whatever was loaded before and instantiated
\* since, unless another type has the name of its type.
THEOREM EveryMethodFound == LoaderSpec => []MethodsAreFound
  <1>1. DefinitionsInv /\ InstancesInv => MethodsAreFound
    <2> SUFFICES ASSUME DefinitionsInv, InstancesInv,
                        NEW i \in DOMAIN method_definitions,
                        method_definitions[i].declaringType + 1 \in DOMAIN type_definitions,
                        \A j \in DOMAIN type_definitions :
                            type_definitions[j].name =
                                type_definitions[method_definitions[i].declaringType + 1].name
                            => j = method_definitions[i].declaringType + 1
                 PROVE  LET def   == method_definitions[i]
                            found == GetMethodIndex(
                                        GetTypeIndex(type_definitions[def.declaringType + 1].name),
                                        def.name, def.parameterCount)
                        IN  /\ found \in 0 .. Len(runtime_methods) - 1
                            /\ runtime_methods[found + 1] =
                                [index |-> found, name |-> def.name,
                                 declaring_type |-> def.declaringType]
                            /\ def.parameterCount # 0 =>
                                method_definitions[found + 1].parameterCount = def.parameterCount
      BY Zenon DEF MethodsAreFound
    <2> DEFINE def   == method_definitions[i]
               type  == def.declaringType + 1
               name  == type_definitions[type].name
               index == GetTypeIndex(name)
               accepted == {k \in DOMAIN method_definitions :
                                Accepts(method_definitions[k], index, def.name, def.parameterCount)}
               found == GetMethodIndex(index, def.name, def.parameterCount)
    <2>1. /\ DOMAIN method_definitions = 1 .. Len(method_definitions)
          /\ DOMAIN type_definitions = 1 .. Len(type_definitions)
          /\ Len(method_definitions) \in Nat /\ Len(type_definitions) \in Nat
          /\ def \in MethodDefinition
      BY DEF DefinitionsInv
    <2>2. def.declaringType \in Nat
      BY <2>1 DEF MethodDefinition
    <2>3. /\ Len(runtime_methods) \in Nat /\ Len(runtime_types) \in Nat
          /\ Len(method_definitions) <= Len(runtime_methods)
          /\ Len(type_definitions) <= Len(runtime_types)
      BY DEF InstancesInv, TableOK
    <2>4. index = def.declaringType /\ index \in 0 .. Len(runtime_types) - 1
      <3>1. name \in NamesOf(type_definitions)
        BY DEF NamesOf
      <3>2. /\ name \in DOMAIN type_name_cache
            /\ index = type_name_cache[name]
            /\ index \in 0 .. Len(type_definitions) - 1
            /\ type_definitions[index + 1].name = name
        <4> HIDE DEF name
        <4> QED  BY <3>1 DEF DefinitionsInv, GetTypeIndex
      <3> HIDE DEF index
      <3>3. index + 1 = type
        BY <2>1, <3>2
      <3> HIDE DEF name, def
      <3> QED  BY <2>1, <2>2, <2>3, <3>2, <3>3
    <2> HIDE DEF index
    <2>5. i \in accepted
      BY <2>4 DEF Accepts
    <2>6. PICK f \in accepted : \A j \in accepted : f <= j
      <3>1. accepted \in SUBSET Nat
        BY <2>1
      <3> HIDE DEF accepted
      <3> QED  BY <2>5, <3>1, HasLeast
    <2> DEFINE first == CHOOSE k \in accepted : \A j \in accepted : k <= j
    <2>7. first \in accepted
      <3> HIDE DEF accepted
      <3> QED  BY <2>6, Zenon
    <2>8. found = first - 1
      BY <2>4, <2>5, Zenon DEF GetMethodIndex
    <2>9. /\ first \in 1 .. Len(method_definitions)
          /\ Accepts(method_definitions[first], index, def.name, def.parameterCount)
      <3> HIDE DEF first
      <3> QED  BY <2>1, <2>7
    <2> HIDE DEF first, accepted, found
    <2>10. found \in 0 .. Len(runtime_methods) - 1 /\ found + 1 = first
      BY <2>1, <2>3, <2>8, <2>9
    <2>11. runtime_methods[first] =
            [index |-> first - 1, name |-> method_definitions[first].name,
             declaring_type |-> method_definitions[first].declaringType]
      BY <2>1, <2>9 DEF DefinitionsInv, MethodRows
    <2>12. runtime_methods[found + 1] =
            [index |-> found, name |-> def.name, declaring_type |-> def.declaringType]
      BY <2>4, <2>8, <2>9, <2>10, <2>11, Zenon DEF Accepts
    <2>13. def.parameterCount # 0 =>
            method_definitions[found + 1].parameterCount = def.parameterCount
      BY <2>9, <2>10, Zenon DEF Accepts
    <2> QED  BY <2>10, <2>12, <2>13, Zenon DEF found, index
  <1> QED  BY <1>1, DefinitionsInvariant, InstancesInvariant, PTL

-------------------------------------------------------------------------------
\* The types of LoaderTypeOK, and of the caches of instances.
RowsNumbered(rows) == \A i \in 1 .. Len(rows) : rows[i].index = i - 1
NamesToNat(cache)  == \A n \in DOMAIN cache : n \in Names /\ cache[n] \in Nat
HashesToNat(cache) == \A h \in DOMAIN cache : cache[h] \in Nat

LoaderTypes ==
    /\ type_definitions \in Seq(TypeDefinition) /\ method_definitions \in Seq(MethodDefinition)
    /\ images \in Seq(Images)
    /\ runtime_types \in Seq(RuntimeType) /\ runtime_methods \in Seq(RuntimeMethod)
    /\ RowsNumbered(runtime_types) /\ RowsNumbered(runtime_methods)
    /\ NamesToNat(type_name_cache) /\ NamesToNat(method_name_cache)
    /\ HashesToNat(generic_type_cache) /\ HashesToNat(generic_method_cache)
    /\ given \subseteq [kind : {"method", "type"}, base : Bases, args : InstanceArgs, index : Nat]
    /\ loads \in 0 .. MaxLoads /\ sound \in BOOLEAN

\* A load leaves names of the files behind.
LEMMA CachedTyped ==
    ASSUME NEW S, \A d \in S : d.name \in Names,
           NEW defs \in Seq(S), NEW cache, NamesToNat(cache)
    PROVE  NamesToNat(Cached(cache, defs))
  <1> DEFINE c == Cached(cache, defs)
  <1>1. AfterLoad(c, cache, defs)
    BY CachedNames, Zenon
  <1>2. NamesOf(defs) \subseteq Names
    BY DEF NamesOf
  <1> HIDE DEF c
  <1>3. NamesToNat(c)
    BY <1>1, <1>2 DEF NamesToNat, AfterLoad
  <1> QED  BY <1>3 DEF c

\* An instance keeps rows typed and numbered, and the cache typed.
LEMMA InstanceTyped ==
    ASSUME NEW S, NEW rows \in Seq(S), \A row \in S, i \in Nat : Copy(row, i) \in S,
           \A row \in S, i \in Nat : Copy(row, i).index = i,
           NEW cache, NEW h, NEW base \in Nat,
           RowsNumbered(rows), HashesToNat(cache)
    PROVE  /\ Instantiated(rows, base) \in Seq(S)
           /\ RowsNumbered(Instantiated(rows, base))
           /\ InstanceIndex(cache, rows, h) \in Nat
           /\ HashesToNat(Entered(cache, h, InstanceIndex(cache, rows, h)))
  <1>1. Len(rows) \in Nat
    OBVIOUS
  <1>2. InstanceIndex(cache, rows, h) \in Nat
    BY <1>1 DEF InstanceIndex, HashesToNat
  <1>3. HashesToNat(Entered(cache, h, InstanceIndex(cache, rows, h)))
    <2> DEFINE index == InstanceIndex(cache, rows, h)
    <2> HIDE DEF index
    <2>1. index \in Nat => HashesToNat(Entered(cache, h, index))
      BY DEF Entered, HashesToNat
    <2> QED  BY <1>2, <2>1 DEF index
  <1>4. CASE base < Len(rows)
    <2> DEFINE copy == Copy(rows[base + 1], Len(rows))
               r2 == Append(rows, copy)
    <2>1. rows[base + 1] \in S
      BY <1>1, <1>4
    <2>2. copy \in S /\ copy.index = Len(rows)
      BY <1>1, <2>1
    <2> HIDE DEF copy
    <2>3. /\ r2 \in Seq(S) /\ Len(r2) = Len(rows) + 1 /\ r2[Len(rows) + 1] = copy
          /\ \A i \in 1 .. Len(rows) : r2[i] = rows[i]
      BY <2>2, RowAppended
    <2> HIDE DEF r2
    <2>4. RowsNumbered(r2)
      <3> SUFFICES ASSUME NEW i \in 1 .. Len(r2) PROVE r2[i].index = i - 1
        BY DEF RowsNumbered
      <3>1. CASE i = Len(rows) + 1
        <4>1. r2[i].index = Len(rows)
          BY <2>2, <2>3, <3>1, Zenon
        <4> QED  BY <1>1, <3>1, <4>1
      <3>2. CASE i # Len(rows) + 1
        <4>1. i \in 1 .. Len(rows)
          BY <1>1, <2>3, <3>2
        <4> QED  BY <2>3, <4>1 DEF RowsNumbered
      <3> QED  BY <3>1, <3>2
    <2>5. Instantiated(rows, base) = r2
      BY <1>4 DEF Instantiated, r2, copy
    <2> QED  BY <1>2, <1>3, <2>3, <2>4, <2>5
  <1>5. CASE ~(base < Len(rows))
    <2>1. Instantiated(rows, base) = rows
      BY <1>5 DEF Instantiated
    <2> QED  BY <1>2, <1>3, <2>1
  <1> QED  BY <1>4, <1>5

LEMMA LoaderTypesSteps == LoaderTypes /\ [LoaderNext]_loaderVars => LoaderTypes'
  <1> SUFFICES ASSUME LoaderTypes, [LoaderNext]_loaderVars PROVE LoaderTypes'
    OBVIOUS
  <1> USE LoaderAssumption
  <1>0. /\ \A row \in RuntimeType, i \in Nat : Copy(row, i) \in RuntimeType /\ Copy(row, i).index = i
        /\ \A row \in RuntimeMethod, i \in Nat :
                Copy(row, i) \in RuntimeMethod /\ Copy(row, i).index = i
    BY DEF Copy, RuntimeType, RuntimeMethod
  <1>1. ASSUME NEW file \in Files, LoadGlobalMetadata(file)
        PROVE  LoaderTypes'
    <2>1. /\ file.types \in Seq(TypeDefinition) /\ file.methods \in Seq(MethodDefinition)
          /\ file.images \in Seq(Images)
      BY DEF LoaderAssumption
    <2>2. /\ type_definitions' = file.types /\ method_definitions' = file.methods
          /\ images' = images \o file.images
          /\ runtime_types' = TypeRows(file.types) /\ runtime_methods' = MethodRows(file.methods)
          /\ type_name_cache' = Cached(type_name_cache, file.types)
          /\ method_name_cache' = Cached(method_name_cache, file.methods)
          /\ given' = {} /\ loads < MaxLoads /\ loads' = loads + 1
          /\ sound' \in BOOLEAN
          /\ UNCHANGED <<generic_method_cache, generic_type_cache>>
      BY <1>1 DEF LoadGlobalMetadata
    <2>3. /\ runtime_types' \in Seq(RuntimeType) /\ Len(runtime_types') = Len(file.types)
          /\ runtime_methods' \in Seq(RuntimeMethod) /\ Len(runtime_methods') = Len(file.methods)
      BY <2>1, <2>2, TypeRowsTyped, MethodRowsTyped
    <2>4. RowsNumbered(runtime_types') /\ RowsNumbered(runtime_methods')
      BY <2>1, <2>2, <2>3 DEF RowsNumbered, TypeRows, MethodRows
    <2>5. NamesToNat(type_name_cache') /\ NamesToNat(method_name_cache')
      <3>1. /\ \A d \in TypeDefinition : d.name \in Names
            /\ \A d \in MethodDefinition : d.name \in Names
        BY DEF TypeDefinition, MethodDefinition
      <3>2. NamesToNat(type_name_cache) /\ NamesToNat(method_name_cache)
        BY DEF LoaderTypes
      <3> QED  BY <2>1, <2>2, <3>1, <3>2, CachedTyped
    <2>6. images' \in Seq(Images)
      BY <2>1, <2>2 DEF LoaderTypes
    <2>7. loads' \in 0 .. MaxLoads
      BY <2>2 DEF LoaderTypes, LoaderAssumption
    <2>8. HashesToNat(generic_type_cache') /\ HashesToNat(generic_method_cache')
      BY <2>2 DEF LoaderTypes
    <2> QED  BY <2>1, <2>2, <2>3, <2>4, <2>5, <2>6, <2>7, <2>8, Zenon
             DEF LoaderTypes, RowsNumbered, NamesToNat, HashesToNat
  <1>2. ASSUME NEW base \in Bases, NEW args \in InstanceArgs, InstantiateMethod(base, args)
        PROVE  LoaderTypes'
    <2> DEFINE h == InstHash(base, args)
               index == InstanceIndex(generic_method_cache, runtime_methods, h)
               g == [kind |-> "method", base |-> base, args |-> args, index |-> index]
    <2>1. /\ generic_method_cache' = Entered(generic_method_cache, h, index)
          /\ \/ runtime_methods' = runtime_methods
             \/ runtime_methods' = Instantiated(runtime_methods, base)
          /\ given' = given \cup {g}
          /\ sound' \in BOOLEAN
          /\ UNCHANGED <<definitions, runtime_types, nameCaches, generic_type_cache, loads>>
      BY <1>2 DEF InstantiateMethod, HandOut, LoaderTypes
    <2>2. base \in Nat
      BY DEF LoaderAssumption
    <2>3. /\ Instantiated(runtime_methods, base) \in Seq(RuntimeMethod)
          /\ RowsNumbered(Instantiated(runtime_methods, base))
          /\ index \in Nat
          /\ HashesToNat(Entered(generic_method_cache, h, index))
      <3> HIDE DEF h
      <3> QED  BY <1>0, <2>2, InstanceTyped DEF LoaderTypes
    <2>4. given' \subseteq [kind : {"method", "type"}, base : Bases, args : InstanceArgs, index : Nat]
      BY <2>1, <2>3 DEF LoaderTypes
    <2> HIDE DEF h, index, g
    <2> QED  BY <2>1, <2>3, <2>4
             DEF LoaderTypes, RowsNumbered, NamesToNat, HashesToNat, definitions, nameCaches
  <1>3. ASSUME NEW base \in Bases, NEW args \in InstanceArgs, InstantiateType(base, args)
        PROVE  LoaderTypes'
    <2> DEFINE h == InstHash(base, args)
               index == InstanceIndex(generic_type_cache, runtime_types, h)
               g == [kind |-> "type", base |-> base, args |-> args, index |-> index]
    <2>1. /\ generic_type_cache' = Entered(generic_type_cache, h, index)
          /\ \/ runtime_types' = runtime_types
             \/ runtime_types' = Instantiated(runtime_types, base)
          /\ given' = given \cup {g}
          /\ sound' \in BOOLEAN
          /\ UNCHANGED <<definitions, runtime_methods, nameCaches, generic_method_cache, loads>>
      BY <1>3 DEF InstantiateType, HandOut, LoaderTypes
    <2>2. base \in Nat
      BY DEF LoaderAssumption
    <2>3. /\ Instantiated(runtime_types, base) \in Seq(RuntimeType)
          /\ RowsNumbered(Instantiated(runtime_types, base))
          /\ index \in Nat
          /\ HashesToNat(Entered(generic_type_cache, h, index))
      <3> HIDE DEF h
      <3> QED  BY <1>0, <2>2, InstanceTyped DEF LoaderTypes
    <2>4. given' \subseteq [kind : {"method", "type"}, base : Bases, args : InstanceArgs, index : Nat]
      BY <2>1, <2>3 DEF LoaderTypes
    <2> HIDE DEF h, index, g
    <2> QED  BY <2>1, <2>3, <2>4
             DEF LoaderTypes, RowsNumbered, NamesToNat, HashesToNat, definitions, nameCaches
  <1>4. CASE UNCHANGED loaderVars
    BY <1>4 DEF LoaderTypes, RowsNumbered, NamesToNat, HashesToNat, loaderVars, definitions, nameCaches
  <1> QED  BY <1>1, <1>2, <1>3, <1>4 DEF LoaderNext

\* The tables of the loader keep their types and every row its number, for all
\* files and any order of loads and instantiations.
THEOREM LoaderTypesKept == LoaderSpec => []LoaderTypeOK
  <1>1. LoaderInit => LoaderTypes
    BY LoaderAssumption
       DEF LoaderAssumption, LoaderInit, LoaderTypes, RowsNumbered, NamesToNat, HashesToNat
  <1>2. LoaderTypes => LoaderTypeOK
    <2> SUFFICES ASSUME LoaderTypes PROVE LoaderTypeOK
      OBVIOUS
    <2>1. /\ DOMAIN runtime_types = 1 .. Len(runtime_types)
          /\ DOMAIN runtime_methods = 1 .. Len(runtime_methods)
      BY DEF LoaderTypes
    <2> QED  BY <2>1, Zenon DEF LoaderTypes, LoaderTypeOK, RowsNumbered, NamesToNat
  <1> QED  BY <1>1, <1>2, LoaderTypesSteps, PTL DEF LoaderSpec

==============================================================================
