------------------------------ MODULE UnityBridge ------------------------------
(***************************************************************************)
(* UnityBridge, src/src/bridge/unity_bridge.{h,cpp}: the mock scene, three *)
(* maps from ids to objects, transforms and components.                    *)
(*                                                                         *)
(* CreateGameObject reads the id of the transform through a pointer it has *)
(* moved from (252).  Where a load through null traps, the process ends;   *)
(* where it does not (WebAssembly), the transform is filed under whatever  *)
(* number the load returns.  Look-ups by operator[] add null entries.      *)
(* Names, positions, and the stubs for input, time and log are left out.   *)
(***************************************************************************)
EXTENDS Integers, SequencesExt

CONSTANTS
    StrayIds,       \* numbers a load through null may return
    AskedIds,       \* ids callers pass, valid or not
    MaxId           \* bound: ids given out

ASSUME SceneConstantsAssumption ==
    StrayIds \subseteq Nat /\ AskedIds \subseteq Nat /\ MaxId \in Nat

VARIABLES
    game_objects_,  \* id -> [transform, components, active]
    transforms_,    \* id -> the object it was made for, or NullEntry
    components_,    \* id -> the object it was added to, or NullEntry
    next_id_,
    crashed         \* the process ended on a null pointer

sceneVars == <<game_objects_, transforms_, components_, next_id_, crashed>>

NullEntry == 0

SceneInit ==
    /\ game_objects_ = <<>> /\ transforms_ = <<>> /\ components_ = <<>>
    /\ next_id_ = 1 /\ crashed = FALSE

\* m[k] = v, and what is left of m when the keys in ks are erased.
Set(m, k, v) == [x \in DOMAIN m \cup {k} |-> IF x = k THEN v ELSE m[x]]
Erase(m, ks) == [x \in DOMAIN m \ ks |-> m[x]]

\* m[k] as a look-up, for every k of ks: an entry that is missing is added.
Touch(m, ks) == [x \in DOMAIN m \cup ks |-> IF x \in DOMAIN m THEN m[x] ELSE NullEntry]

Objects == DOMAIN game_objects_

-------------------------------------------------------------------------------
CreateGameObject ==
    LET id == next_id_
    IN  /\ next_id_ + 1 <= MaxId
        /\ next_id_' = next_id_ + 2
        /\ game_objects_' = Set(game_objects_, id,
               [transform |-> id + 1, components |-> <<>>, active |-> TRUE])
        /\ \/ /\ crashed' = TRUE
              /\ UNCHANGED transforms_
           \/ /\ \E stray \in StrayIds : transforms_' = Set(transforms_, stray, id)
              /\ UNCHANGED crashed
        /\ UNCHANGED components_

\* Mutant of DestroyGameObject: the components stay.
DestroyObjectOnly(id) ==
    /\ id \in Objects
    /\ transforms_' = Erase(transforms_, {game_objects_[id].transform})
    /\ game_objects_' = Erase(game_objects_, {id})
    /\ UNCHANGED <<components_, next_id_, crashed>>

DestroyGameObject(id) ==
    /\ id \in Objects
    /\ components_' = Erase(components_, ToSet(game_objects_[id].components))
    /\ transforms_' = Erase(transforms_, {game_objects_[id].transform})
    /\ game_objects_' = Erase(game_objects_, {id})
    /\ UNCHANGED <<next_id_, crashed>>

SetActive(id, on) ==
    /\ id \in Objects
    /\ game_objects_' = [game_objects_ EXCEPT ![id].active = on]
    /\ UNCHANGED <<transforms_, components_, next_id_, crashed>>

AddComponent(id) ==
    /\ id \in Objects /\ next_id_ <= MaxId
    /\ next_id_' = next_id_ + 1
    /\ game_objects_' = [game_objects_ EXCEPT ![id].components = Append(@, next_id_)]
    /\ components_' = Set(components_, next_id_, id)
    /\ UNCHANGED <<transforms_, crashed>>

\* GetComponent(id, type_index): the argument is compared with the ids of the
\* components, and those before the one that matches are looked up.
GetComponent(id, type_index) ==
    /\ id \in Objects
    /\ LET list == game_objects_[id].components
           hits == {i \in DOMAIN list : list[i] = type_index}
       IN  components_' = Touch(components_,
               {list[i] : i \in {j \in DOMAIN list : \A h \in hits : j <= h}})
    /\ UNCHANGED <<game_objects_, transforms_, next_id_, crashed>>

\* Component::GetGameObject and Component::GetTransform.
ComponentCall(id) ==
    /\ components_' = Touch(components_, {id})
    /\ UNCHANGED <<game_objects_, transforms_, next_id_, crashed>>

\* Transform::Translate looks the id up with operator[].
Translate(id) ==
    /\ transforms_' = Touch(transforms_, {id})
    /\ UNCHANGED <<game_objects_, components_, next_id_, crashed>>

\* SetPosition, GetPosition and the four like them: an entry that is there is
\* used without a test for null.
MoveTransform(id) ==
    /\ id \in DOMAIN transforms_ /\ transforms_[id] = NullEntry
    /\ crashed' = TRUE
    /\ UNCHANGED <<game_objects_, transforms_, components_, next_id_>>

\* Raycast looks up the transform of every active object.
Raycast ==
    /\ transforms_' = Touch(transforms_, {game_objects_[o].transform :
                                              o \in {x \in Objects : game_objects_[x].active}})
    /\ UNCHANGED <<game_objects_, components_, next_id_, crashed>>

SceneNext ==
    /\ ~crashed
    /\ \/ CreateGameObject \/ Raycast
       \/ \E id \in AskedIds :
            \/ DestroyGameObject(id) \/ AddComponent(id)
            \/ ComponentCall(id) \/ Translate(id) \/ MoveTransform(id)
            \/ \E on \in BOOLEAN : SetActive(id, on)
            \/ \E t \in AskedIds : GetComponent(id, t)

SceneSpec == SceneInit /\ [][SceneNext]_sceneVars

-------------------------------------------------------------------------------
SceneTypeOK ==
    /\ \A o \in Objects : game_objects_[o].components \in Seq(Nat)
    /\ \A t \in DOMAIN transforms_ : transforms_[t] \in Nat
    /\ \A c \in DOMAIN components_ : components_[c] \in Nat
    /\ next_id_ \in 1 .. MaxId + 1 /\ crashed \in BOOLEAN

\* The ids that game objects and what belongs to them were given.
GivenOut == Objects \cup {game_objects_[o].transform : o \in Objects}
            \cup UNION {ToSet(game_objects_[o].components) : o \in Objects}

\* Whatever is looked up, destroyed or filed under a wrong id in between: a
\* component that is there belongs to an object that is there and lists it
\* once; an object's components are there; and no two things have one id
\* (unity_bridge.cpp:238-303).
SceneConsistent ==
    /\ \A c \in DOMAIN components_ :
          components_[c] # NullEntry =>
              /\ components_[c] \in Objects
              /\ c \in ToSet(game_objects_[components_[c]].components)
    /\ \A o \in Objects : \A c \in ToSet(game_objects_[o].components) :
          c \in DOMAIN components_ /\ components_[c] = o
    /\ \A id \in GivenOut : id < next_id_
    /\ \A o \in Objects :
          LET own == <<o, game_objects_[o].transform>> \o game_objects_[o].components
          IN  /\ IsInjective(own)
              /\ \A p \in Objects \ {o} :
                    ToSet(own) \cap ({p, game_objects_[p].transform}
                                     \cup ToSet(game_objects_[p].components)) = {}

==============================================================================
