----------------------------- MODULE MetadataLoader -----------------------------
(***************************************************************************)
(* IL2CPPMetadataLoader, src/src/core/il2cpp_metadata.cpp: the tables of a *)
(* metadata file, the rows built from them, to which instances of generic  *)
(* methods and types are appended, and caches from names and instances to  *)
(* rows.  A file may be loaded after another.                              *)
(*                                                                         *)
(* Indices are those of the code, from 0; row i is element i + 1.  Names   *)
(* stand for the strings of the string table, which is replaced with the   *)
(* definitions, and their hashes are taken to differ.  The key of an       *)
(* instance is the hash the code computes.                                 *)
(***************************************************************************)
EXTENDS Integers, Sequences, FiniteSets

CONSTANTS
    Names,          \* strings of the string tables
    Images,         \* image definitions
    Files,          \* the metadata files; ok is what the header says
    Bases,          \* indices that are instantiated
    InstanceArgs,   \* lists of type arguments
    InstHash(_, _), \* the key of an instance of an index with arguments
    MaxLoads,       \* bound: loads
    MaxCached       \* bound: instances in the caches

TypeDefinition   == [name : Names]
MethodDefinition == [name : Names, declaringType : Nat, parameterCount : Nat]
RuntimeType      == [index : Nat, name : Names]
RuntimeMethod    == [index : Nat, name : Names, declaring_type : Nat]

ASSUME LoaderAssumption ==
    /\ Files \subseteq [ok : BOOLEAN, types : Seq(TypeDefinition),
                        methods : Seq(MethodDefinition), images : Seq(Images)]
    /\ Bases \subseteq Nat
    /\ MaxLoads \in Nat

VARIABLES
    type_definitions, method_definitions,
    images,
    runtime_types, runtime_methods,
    type_name_cache, method_name_cache,
    generic_method_cache, generic_type_cache,
    loads,          \* history: successful loads
    given,          \* history: [kind, base, args, index], instances handed out since the last
    sound           \* history: no load met cached instances, and none was made of no row

definitions == <<type_definitions, method_definitions, images>>
nameCaches  == <<type_name_cache, method_name_cache>>
loaderVars  == <<definitions, runtime_types, runtime_methods, nameCaches,
                 generic_method_cache, generic_type_cache, loads, given, sound>>

NoIndex == -1           \* UINT32_MAX

LoaderInit ==
    /\ type_definitions = <<>> /\ method_definitions = <<>> /\ images = <<>>
    /\ runtime_types = <<>> /\ runtime_methods = <<>>
    /\ type_name_cache = <<>> /\ method_name_cache = <<>>
    /\ generic_method_cache = <<>> /\ generic_type_cache = <<>>
    /\ loads = 0 /\ given = {} /\ sound = TRUE

\* The rows of BuildTypeCaches: resized to the definitions, each overwritten.
TypeRows(defs) ==
    [i \in DOMAIN defs |-> [index |-> i - 1, name |-> defs[i].name]]
MethodRows(defs) ==
    [i \in DOMAIN defs |-> [index |-> i - 1, name |-> defs[i].name,
                            declaring_type |-> defs[i].declaringType]]

NamesOf(defs) == {defs[i].name : i \in DOMAIN defs}

\* Mutant of Cached: an entry that is there stays (emplace for operator[]).
CachedOnce(cache, defs) ==
    [n \in DOMAIN cache \cup NamesOf(defs) |->
        IF n \in DOMAIN cache THEN cache[n]
        ELSE CHOOSE i \in 0 .. Len(defs) - 1 :
                /\ defs[i + 1].name = n
                /\ \A j \in i + 2 .. Len(defs) : defs[j].name # n]

\* A name cache after the loop over defs: the last definition of a name wins,
\* and the names of files loaded before stay.
Cached(cache, defs) ==
    [n \in DOMAIN cache \cup NamesOf(defs) |->
        IF n \notin NamesOf(defs) THEN cache[n]
        ELSE CHOOSE i \in 0 .. Len(defs) - 1 :
                /\ defs[i + 1].name = n
                /\ \A j \in i + 2 .. Len(defs) : defs[j].name # n]

\* LoadGlobalMetadata.  A file whose header is not valid replaces the raw
\* bytes, which nothing reads again, and no table.
LoadGlobalMetadata(file) ==
    /\ file.ok
    /\ loads < MaxLoads /\ loads' = loads + 1
    /\ type_definitions' = file.types
    /\ method_definitions' = file.methods
    /\ images' = images \o file.images
    /\ runtime_types' = TypeRows(file.types)
    /\ runtime_methods' = MethodRows(file.methods)
    /\ type_name_cache' = Cached(type_name_cache, file.types)
    /\ method_name_cache' = Cached(method_name_cache, file.methods)
    /\ given' = {}
    /\ sound' = (sound /\ generic_method_cache = <<>> /\ generic_type_cache = <<>>)
    /\ UNCHANGED <<generic_method_cache, generic_type_cache>>

\* An unordered_map with one more entry.
Entered(map, k, v) == [x \in DOMAIN map \cup {k} |-> IF x = k THEN v ELSE map[x]]

\* The row of an instance.
Copy(row, index) == [row EXCEPT !.index = index]

\* rows after an instance of rows[base + 1]; as they were when there is none.
Instantiated(rows, base) ==
    IF base < Len(rows) THEN Append(rows, Copy(rows[base + 1], Len(rows))) ELSE rows

HandOut(kind, base, args, index) ==
    given' = given \cup {[kind |-> kind, base |-> base, args |-> args, index |-> index]}

\* Mutant of InstanceIndex: the index of the row before the new one.
InstanceIndexOffByOne(cache, rows, h) == IF h \in DOMAIN cache THEN cache[h] ELSE Len(rows) - 1

\* The index that is returned, and cached when it is new.
InstanceIndex(cache, rows, h) == IF h \in DOMAIN cache THEN cache[h] ELSE Len(rows)

CachedInstances == Cardinality(DOMAIN generic_method_cache) + Cardinality(DOMAIN generic_type_cache)

InstantiateMethod(base, args) ==
    LET h     == InstHash(base, args)
        index == InstanceIndex(generic_method_cache, runtime_methods, h)
        new   == h \notin DOMAIN generic_method_cache
    IN  /\ new => CachedInstances < MaxCached
        /\ generic_method_cache' = Entered(generic_method_cache, h, index)
        /\ runtime_methods' = IF new THEN Instantiated(runtime_methods, base) ELSE runtime_methods
        /\ HandOut("method", base, args, index)
        /\ sound' = (sound /\ (new => base < Len(runtime_methods)))
        /\ UNCHANGED <<definitions, runtime_types, nameCaches, generic_type_cache, loads>>

InstantiateType(base, args) ==
    LET h     == InstHash(base, args)
        index == InstanceIndex(generic_type_cache, runtime_types, h)
        new   == h \notin DOMAIN generic_type_cache
    IN  /\ new => CachedInstances < MaxCached
        /\ generic_type_cache' = Entered(generic_type_cache, h, index)
        /\ runtime_types' = IF new THEN Instantiated(runtime_types, base) ELSE runtime_types
        /\ HandOut("type", base, args, index)
        /\ sound' = (sound /\ (new => base < Len(runtime_types)))
        /\ UNCHANGED <<definitions, runtime_methods, nameCaches, generic_method_cache, loads>>

LoaderNext ==
    \/ \E file \in Files : LoadGlobalMetadata(file)
    \/ \E base \in Bases, args \in InstanceArgs :
            InstantiateMethod(base, args) \/ InstantiateType(base, args)

LoaderSpec == LoaderInit /\ [][LoaderNext]_loaderVars

-------------------------------------------------------------------------------
(* Queries *)

GetTypeIndex(full_name) ==
    IF full_name \in DOMAIN type_name_cache THEN type_name_cache[full_name] ELSE NoIndex

\* The first definition that the loop of GetMethodIndex accepts; 0 parameters
\* stand for any number.
Accepts(def, type_index, method_name, param_count) ==
    /\ def.declaringType = type_index
    /\ def.name = method_name
    /\ param_count = 0 \/ def.parameterCount = param_count

GetMethodIndex(type_index, method_name, param_count) ==
    LET accepted == {i \in DOMAIN method_definitions :
                        Accepts(method_definitions[i], type_index, method_name, param_count)}
    IN  IF type_index \notin 0 .. Len(runtime_types) - 1 \/ accepted = {} THEN NoIndex
        ELSE (CHOOSE i \in accepted : \A j \in accepted : i <= j) - 1

-------------------------------------------------------------------------------
(* Properties *)

LoaderTypeOK ==
    /\ type_definitions \in Seq(TypeDefinition) /\ method_definitions \in Seq(MethodDefinition)
    /\ images \in Seq(Images)
    /\ runtime_types \in Seq(RuntimeType) /\ runtime_methods \in Seq(RuntimeMethod)
    /\ \A i \in DOMAIN runtime_types : runtime_types[i].index = i - 1
    /\ \A i \in DOMAIN runtime_methods : runtime_methods[i].index = i - 1
    /\ \A n \in DOMAIN type_name_cache : n \in Names /\ type_name_cache[n] \in Nat
    /\ \A n \in DOMAIN method_name_cache : n \in Names /\ method_name_cache[n] \in Nat
    /\ given \subseteq [kind : {"method", "type"}, base : Bases, args : InstanceArgs, index : Nat]
    /\ loads \in 0 .. MaxLoads /\ sound \in BOOLEAN

\* Whatever files were loaded before and whatever was instantiated since, every
\* method of the current file is found through the names of its type and its
\* own, in a row that was built for it or an overload of it, unless another
\* type has the same name.
MethodsAreFound ==
    \A i \in DOMAIN method_definitions :
        LET def  == method_definitions[i]
            type == def.declaringType + 1
        IN  (type \in DOMAIN type_definitions
                /\ \A j \in DOMAIN type_definitions :
                        type_definitions[j].name = type_definitions[type].name => j = type)
            => LET found == GetMethodIndex(GetTypeIndex(type_definitions[type].name),
                                           def.name, def.parameterCount)
               IN  /\ found \in 0 .. Len(runtime_methods) - 1
                   /\ runtime_methods[found + 1] =
                        [index |-> found, name |-> def.name, declaring_type |-> def.declaringType]
                   /\ def.parameterCount # 0 =>
                        method_definitions[found + 1].parameterCount = def.parameterCount

\* Two instances whose hashes differ never share a row, nor does an instance
\* share one with a definition, and its row is a copy of what it is an instance
\* of: as long as no load met cached instances and no instance was made of
\* an index without a row.
InstancesOwnRows ==
    sound =>
        \A g \in given :
            LET rows == IF g.kind = "type" THEN runtime_types ELSE runtime_methods
                defs == IF g.kind = "type" THEN type_definitions ELSE method_definitions
            IN  /\ g.index \in Len(defs) .. Len(rows) - 1
                /\ \A h \in given :
                    IF h.kind = g.kind /\ InstHash(h.base, h.args) # InstHash(g.base, g.args)
                    THEN h.index # g.index
                    ELSE TRUE
                /\ (\A h \in given : h.kind = g.kind
                        /\ InstHash(h.base, h.args) = InstHash(g.base, g.args) => h = g)
                   => rows[g.index + 1] = Copy(rows[g.base + 1], g.index)

==============================================================================
