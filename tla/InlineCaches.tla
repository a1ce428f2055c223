------------------------------ MODULE InlineCaches ------------------------------
(***************************************************************************)
(* The two inline caches: the entries of a virtual call,                   *)
(* InlineCacheManager (src/src/core/jit_compiler.cpp:338-361), and of a    *)
(* type check, InlineCache (src/src/core/runtime.h:15-52).                 *)
(*                                                                         *)
(* A call site keeps its entries in one of two ways: all of them at once,  *)
(* zeroed, with a count of four; or one more each time, the count being    *)
(* those in use and the rest whatever was in memory.  It asks first, and   *)
(* stores the target it resolves itself when there is none.                *)
(***************************************************************************)
EXTENDS Integers, SequencesExt

CONSTANTS
    TypeIds,        \* type ids checked, 0 among them or not
    CalledTypes,    \* type ids of the objects a virtual call is made on
    Targets,        \* methods a type id may resolve to
    NoTarget,       \* nullptr
    MaxChecks       \* bound: calls counted by the type check's cache

ASSUME CachesConstantsAssumption ==
    TypeIds \subseteq Nat /\ CalledTypes \subseteq Nat /\ NoTarget \notin Targets /\ MaxChecks \in Nat

VARIABLES
    entries,        \* the CacheEntry array of a call site
    count,          \* the count it passes
    growing,        \* which of the two ways
    resolved,       \* history: the target last stored for each type id
    checked,        \* InlineCache::entries, the type ids
    hit_count, miss_count,
    recorded        \* history: the type ids but 0 given to RecordHit, once each

siteVars  == <<entries, count, growing, resolved>>
checkVars == <<checked, hit_count, miss_count, recorded>>
cacheVars == <<siteVars, checkVars>>

MAXPIC_ENTRIES == 4
MAX_CACHE_ENTRIES == 4
Entry == [type_id : CalledTypes \cup {0}, version : {0, 1}, target : Targets \cup {NoTarget}]
Zeroed == [type_id |-> 0, version |-> 0, target |-> NoTarget]

SiteInit ==
    /\ \/ /\ growing = FALSE /\ count = MAXPIC_ENTRIES
          /\ entries = [i \in 1 .. MAXPIC_ENTRIES |-> Zeroed]
       \/ /\ growing = TRUE /\ count = 0
          /\ \E junk \in Entry : entries = [i \in 1 .. MAXPIC_ENTRIES |-> junk]
    /\ resolved = [t \in CalledTypes |-> NoTarget]

CheckInit ==
    /\ checked = [i \in 1 .. MAX_CACHE_ENTRIES |-> 0]
    /\ hit_count = 0 /\ miss_count = 0 /\ recorded = <<>>

-------------------------------------------------------------------------------
\* The first index in "is".
First(is) == CHOOSE i \in is : \A j \in is : i <= j

GetCachedTarget(t) ==
    LET hits == {i \in 1 .. count : entries[i].type_id = t /\ entries[i].version = 1}
    IN  IF hits = {} THEN NoTarget ELSE entries[First(hits)].target

\* Mutant of Place: a call site that is full replaces its last entry in place,
\* the target it had being kept.
PlaceKeepsTarget(t, x) ==
    LET open == {i \in 1 .. MAXPIC_ENTRIES : entries[i].version = 0 \/ i > count}
    IN  IF open = {} THEN [entries EXCEPT ![1].type_id = t]
        ELSE [entries EXCEPT ![First(open)] = [type_id |-> t, version |-> 1, target |-> x]]

\* An entry of version 0 or behind the count, or else the first.
Place(t, x) ==
    LET open == {i \in 1 .. MAXPIC_ENTRIES : entries[i].version = 0 \/ i > count}
    IN  [entries EXCEPT ![IF open = {} THEN 1 ELSE First(open)] =
            [type_id |-> t, version |-> 1, target |-> x]]

\* UpdateCache after GetCachedTarget returned null.
UpdateCache(t, x) ==
    /\ GetCachedTarget(t) = NoTarget
    /\ entries' = Place(t, x)
    /\ count' = IF count < MAXPIC_ENTRIES THEN count + 1 ELSE count
    /\ resolved' = [resolved EXCEPT ![t] = x]
    /\ UNCHANGED growing

-------------------------------------------------------------------------------
\* InlineCache::Check
Check(t) == \E i \in DOMAIN checked : checked[i] = t

\* RecordHit: the loop ends at the id itself or at a free entry, which takes it.
RecordHit(t) ==
    LET stops == {i \in DOMAIN checked : checked[i] \in {t, 0}}
    IN  /\ hit_count < MaxChecks
        /\ hit_count' = hit_count + 1
        /\ checked' = IF stops = {} THEN checked ELSE [checked EXCEPT ![First(stops)] = t]
        /\ recorded' = IF t \in ToSet(recorded) \cup {0} THEN recorded ELSE Append(recorded, t)
        /\ UNCHANGED miss_count

RecordMiss ==
    /\ miss_count < MaxChecks
    /\ miss_count' = miss_count + 1
    /\ UNCHANGED <<checked, hit_count, recorded>>

\* Reset
ResetCache ==
    /\ checked' = [i \in 1 .. MAX_CACHE_ENTRIES |-> 0]
    /\ hit_count' = 0 /\ miss_count' = 0 /\ recorded' = <<>>

SiteNext  == \E t \in CalledTypes, x \in Targets : UpdateCache(t, x)
CheckNext == \/ \E t \in TypeIds : RecordHit(t)
             \/ RecordMiss \/ ResetCache

CachesInit == SiteInit /\ CheckInit
CachesNext == (SiteNext /\ UNCHANGED checkVars) \/ (CheckNext /\ UNCHANGED siteVars)

CachesSpec == CachesInit /\ [][CachesNext]_cacheVars

-------------------------------------------------------------------------------
CachesTypeOK ==
    /\ entries \in [1 .. MAXPIC_ENTRIES -> Entry] /\ count \in 0 .. MAXPIC_ENTRIES
    /\ checked \in [1 .. MAX_CACHE_ENTRIES -> TypeIds \cup {0}]
    /\ hit_count \in 0 .. MaxChecks /\ miss_count \in 0 .. MaxChecks

\* A virtual call that hits gets the target stored last for that type, whatever
\* was evicted and stored again since, and never something that was not stored;
\* a type check, once the id is not 0, hits exactly for the first four ids
\* recorded since Reset: a full cache keeps them (jit_compiler.cpp:338-361,
\* runtime.h:33-49).
HitsAreLatest ==
    /\ \A t \in CalledTypes : GetCachedTarget(t) \in {NoTarget, resolved[t]}
    /\ \A t \in TypeIds \ {0} :
          Check(t) <=> \E i \in 1 .. MAX_CACHE_ENTRIES : i <= Len(recorded) /\ recorded[i] = t

==============================================================================
