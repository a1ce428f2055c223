------------------------------- MODULE TypeSystem -------------------------------
(***************************************************************************)
(* TypeSystem, src/src/core/type_system.{h,cpp}: types by name, members by *)
(* the name of their type, and look-up along the base types.               *)
(*                                                                         *)
(* A TypeInfo is an address.  Registering a name again destroys the        *)
(* TypeInfo it had; pointers to it stay where they were stored, and the    *)
(* allocator may give the address to the next TypeInfo.  Callers pass what *)
(* GetType returns at that time.  Sizes and kinds are left out: nothing    *)
(* depends on them.                                                        *)
(***************************************************************************)
EXTENDS Integers, SequencesExt

CONSTANTS
    TypeNames,      \* the names registered by callers
    BuiltIn,        \* the names the constructor registers and keeps the TypeInfo of
    MemberNames,    \* names of methods and fields
    TypeAddresses,  \* where the allocator may put a TypeInfo
    MaxTypeOps      \* bound: registrations after the constructor

NoType == 0

ASSUME TypeConstantsAssumption ==
    /\ NoType \notin TypeAddresses /\ BuiltIn \subseteq TypeNames /\ MaxTypeOps \in Nat
    /\ IsFiniteSet(TypeNames) /\ IsFiniteSet(TypeAddresses)

VARIABLES
    types,          \* types_: the address of each name, or NoType
    infos,          \* the TypeInfo that lies, or last lay, at each address
    kept,           \* object_type_, int32_type_, ...: what the constructor keeps
    live,           \* the addresses of TypeInfos that are not destroyed
    methods,        \* methods_: what was registered under "type::name"
    fields,         \* fields_, in the same way
    bases,          \* history: the base each name was last registered with
    stranded,       \* history: a TypeInfo was destroyed that something points to
    typeOps         \* bound: registrations made

typeVars == <<types, infos, kept, live, methods, fields, bases, stranded, typeOps>>

Info(n, b) == [name |-> n, base |-> b, fieldTypes |-> {}]
Registered == {n \in TypeNames : types[n] # NoType}
Keys       == TypeNames \X MemberNames

TypeInit ==
    /\ types \in [TypeNames -> {NoType} \cup TypeAddresses]
    /\ Registered = BuiltIn
    /\ \A n, o \in BuiltIn : n # o => types[n] # types[o]
    /\ kept = [n \in BuiltIn |-> types[n]]
    /\ live = {types[n] : n \in BuiltIn}
    /\ infos = [a \in live |-> Info(CHOOSE n \in BuiltIn : types[n] = a, NoType)]
    /\ methods = [k \in Keys |-> <<>>] /\ fields = [k \in Keys |-> <<>>]
    /\ bases = [n \in TypeNames |-> {}]
    /\ stranded = FALSE /\ typeOps = 0

GetType(n) == types[n]

-------------------------------------------------------------------------------
\* Something other than the TypeInfo at "except" points to a.
PointsTo(a, except) ==
    \/ \E n \in BuiltIn : kept[n] = a
    \/ \E x \in live \ {except} : infos[x].base = a \/ a \in infos[x].fieldTypes
    \/ \E k \in Keys : \E i \in DOMAIN fields[k] : fields[k][i] = a

\* The new TypeInfo is made first and takes the place of the old one, which is
\* destroyed then; the base is stored last, whether or not it was the old one.
Register(n, base) ==
    \E a \in TypeAddresses \ live :
        LET old == types[n]
        IN  /\ types' = [types EXCEPT ![n] = a]
            /\ live' = (live \ {old}) \cup {a}
            /\ infos' = [x \in DOMAIN infos \cup {a} |->
                            IF x = a THEN Info(n, base) ELSE infos[x]]
            /\ stranded' = (stranded \/ (old # NoType /\ (base = old \/ PointsTo(old, old))))

RegisterType(n) ==
    /\ Register(n, NoType)
    /\ bases' = [bases EXCEPT ![n] = {}]
    /\ UNCHANGED <<kept, methods, fields>>

\* RegisterClassType(n, GetType(b)).
RegisterClassType(n, b) ==
    /\ GetType(b) # NoType
    /\ Register(n, GetType(b))
    /\ bases' = [bases EXCEPT ![n] = {b}]
    /\ UNCHANGED <<kept, methods, fields>>

\* RegisterMethod(GetType(n), m): an overload goes behind those there are.  A
\* method is told apart by the number of the registration.
RegisterMethod(n, m) ==
    /\ GetType(n) # NoType
    /\ methods' = [methods EXCEPT ![<<infos[GetType(n)].name, m>>] = Append(@, typeOps)]
    /\ UNCHANGED <<types, infos, kept, live, fields, bases, stranded>>

\* RegisterField(GetType(n), f, GetType(t), ...).
RegisterField(n, f, t) ==
    /\ GetType(n) # NoType /\ GetType(t) # NoType
    /\ fields' = [fields EXCEPT ![<<infos[GetType(n)].name, f>>] = Append(@, GetType(t))]
    /\ infos' = [infos EXCEPT ![GetType(n)].fieldTypes = @ \cup {GetType(t)}]
    /\ UNCHANGED <<types, kept, live, methods, bases, stranded>>

TypeNext ==
    /\ typeOps < MaxTypeOps
    /\ typeOps' = typeOps + 1
    /\ \E n \in TypeNames :
        \/ RegisterType(n)
        \/ \E b \in TypeNames : RegisterClassType(n, b)
        \/ \E m \in MemberNames : RegisterMethod(n, m)
        \/ \E f \in MemberNames, t \in TypeNames : RegisterField(n, f, t)

TypeSpec == TypeInit /\ [][TypeNext]_typeVars

-------------------------------------------------------------------------------
\* The TypeInfos met on the way up from a, as far as "limit" calls go.  What a
\* destroyed one holds is left open, so the way is followed no further there.
Climb(a, limit) ==
    LET up[k \in 0 .. limit] ==
            IF k = 0 THEN a
            ELSE IF up[k - 1] \in live THEN infos[up[k - 1]].base ELSE NoType
    IN  up

\* Mutant of Lookup: the base types come first.
LookupBaseFirst(table, a, m) ==
    LET up    == Climb(a, Cardinality(TypeAddresses))
        owner == {k \in DOMAIN up : up[k] \in live /\ table[<<infos[up[k]].name, m>>] # <<>>}
    IN  IF owner = {} THEN <<>>
        ELSE SubSeq(table[<<infos[up[CHOOSE k \in owner : \A j \in owner : j <= k]].name, m>>], 1, 1)

\* GetMethod and GetField: the first entry of the nearest type that has one,
\* or nothing.
Lookup(table, a, m) ==
    LET up    == Climb(a, Cardinality(TypeAddresses))
        owner == {k \in DOMAIN up : up[k] \in live /\ table[<<infos[up[k]].name, m>>] # <<>>}
    IN  IF owner = {} THEN <<>>
        ELSE SubSeq(table[<<infos[up[CHOOSE k \in owner : \A j \in owner : k <= j]].name, m>>], 1, 1)

TypeTypeOK ==
    /\ types \in [TypeNames -> {NoType} \cup TypeAddresses]
    /\ kept \in [BuiltIn -> TypeAddresses]
    /\ live \subseteq DOMAIN infos /\ DOMAIN infos \subseteq TypeAddresses
    /\ \A a \in live : infos[a].name \in TypeNames
    /\ methods \in [Keys -> Seq(Nat)] /\ fields \in [Keys -> Seq(TypeAddresses)]
    /\ stranded \in BOOLEAN /\ typeOps \in 0 .. MaxTypeOps

\* What names say, without TypeInfos: the ancestors of n in order.
Lineage(n) ==
    LET line[k \in 0 .. Cardinality(TypeNames)] ==
            IF k = 0 THEN {n} ELSE UNION {bases[x] : x \in line[k - 1]}
    IN  line

\* By name: the first method registered for the nearest ancestor with one.
Declared(table, n, m) ==
    LET line  == Lineage(n)
        owner == {k \in DOMAIN line : \E x \in line[k] : table[<<x, m>>] # <<>>}
    IN  IF owner = {} THEN <<>>
        ELSE LET k == CHOOSE i \in owner : \A j \in owner : i <= j
             IN  SubSeq(table[<<CHOOSE x \in line[k] : TRUE, m>>], 1, 1)

\* Unless a TypeInfo was destroyed that something points to, GetMethod and
\* GetField end, meet no destroyed TypeInfo, and find the member that the
\* registered base names lead to first; and no field has a destroyed type
\* (type_system.cpp:32-41, 72-98).
LookupFollowsBases ==
    ~stranded =>
        /\ \A n \in BuiltIn : kept[n] = types[n]
        /\ \A n \in Registered :
            /\ infos[types[n]].name = n
            /\ LET up == Climb(types[n], Cardinality(TypeAddresses))
               IN  /\ \A k \in DOMAIN up : up[k] \in live \cup {NoType}
                   /\ up[Cardinality(TypeAddresses)] = NoType
            /\ infos[types[n]].fieldTypes \subseteq live
            /\ \A m \in MemberNames :
                  /\ Lookup(methods, types[n], m) = Declared(methods, n, m)
                  /\ Lookup(fields, types[n], m) = Declared(fields, n, m)
                  /\ \A i \in DOMAIN fields[<<n, m>>] : fields[<<n, m>>][i] \in live

==============================================================================
