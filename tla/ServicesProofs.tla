----------------------------- MODULE ServicesProofs -----------------------------
(***************************************************************************)
(* What the parts around the interpreters promise, for every value of      *)
(* their constants: the mock scene, the inline caches, the exception       *)
(* handlers, the arena with its pools, the type system, the IL parser and  *)
(* the JIT compiler; and, with the metadata loader and the generic sharing *)
(* manager, all of them together.                                          *)
(***************************************************************************)
EXTENDS Services, GenericSharingProofs, FiniteSetTheorems, WellFoundedInduction, TLAPS

-------------------------------------------------------------------------------
\* A set that has m and, with any number below n, the next, has all from m to n.
LEMMA UpTo ==
    ASSUME NEW m \in Nat, NEW n \in Nat, NEW S, m \in S,
           \A k \in m .. n : k \in S /\ k < n => k + 1 \in S
    PROVE  m .. n \subseteq S
  <1> DEFINE Missed == (m .. n) \ S
  <1> SUFFICES ASSUME Missed # {} PROVE FALSE
    OBVIOUS
  <1>1. PICK k \in Missed : \A j \in Missed : k <= j
    <2>1. Missed \in SUBSET Nat
      OBVIOUS
    <2> HIDE DEF Missed
    <2> QED  BY <2>1, HasLeast
  <1>2. k # m /\ k \in m .. n
    BY <1>1
  <1>3. k - 1 \in m .. n /\ k - 1 \in S
    BY <1>1, <1>2
  <1> QED  BY <1>1, <1>2, <1>3

-------------------------------------------------------------------------------
(* Lists without repetition *)

\* The elements of a list after Append, and whether it repeats one.
LEMMA ListAppended ==
    ASSUME NEW S, NEW s \in Seq(S), NEW x \in S
    PROVE  /\ Append(s, x) \in Seq(S)
           /\ ToSet(Append(s, x)) = ToSet(s) \cup {x}
           /\ IsInjective(s) /\ x \notin ToSet(s) => IsInjective(Append(s, x))
  <1> DEFINE a == Append(s, x)
             n == Len(s)
  <1>1. /\ a \in Seq(S) /\ n \in Nat
        /\ DOMAIN s = 1 .. n /\ DOMAIN a = 1 .. n + 1
        /\ a[n + 1] = x /\ \A i \in 1 .. n : a[i] = s[i]
    OBVIOUS
  <1> HIDE DEF a, n
  <1>2. \A i \in 1 .. n + 1 : i = n + 1 \/ i \in 1 .. n
    BY <1>1
  <1>3. n + 1 \in 1 .. n + 1 /\ \A i \in 1 .. n : i \in 1 .. n + 1
    BY <1>1
  <1>4. ToSet(a) = ToSet(s) \cup {x}
    BY <1>1, <1>2, <1>3 DEF ToSet
  <1>5. ASSUME IsInjective(s), x \notin ToSet(s)
        PROVE  IsInjective(a)
    <2>1. \A i \in 1 .. n : s[i] # x
      BY <1>1, <1>5 DEF ToSet
    <2> QED  BY <1>1, <1>2, <1>5, <2>1 DEF IsInjective
  <1> QED  BY <1>1, <1>4, <1>5 DEF a

\* The same with two elements in front.
LEMMA ListPrefixed ==
    ASSUME NEW S, NEW s \in Seq(S), NEW x \in S, NEW y \in S
    PROVE  /\ ToSet(<<x, y>> \o s) = {x, y} \cup ToSet(s)
           /\ IsInjective(s) /\ x # y /\ x \notin ToSet(s) /\ y \notin ToSet(s) =>
                    IsInjective(<<x, y>> \o s)
  <1> DEFINE a == <<x, y>> \o s
             n == Len(s)
  <1>1. /\ n \in Nat /\ DOMAIN s = 1 .. n /\ DOMAIN a = 1 .. n + 2
        /\ a[1] = x /\ a[2] = y /\ \A i \in 3 .. n + 2 : a[i] = s[i - 2]
    OBVIOUS
  <1> HIDE DEF a, n
  <1>2. \A i \in 1 .. n + 2 : i = 1 \/ i = 2 \/ (i \in 3 .. n + 2 /\ i - 2 \in 1 .. n)
    BY <1>1
  <1>3. /\ 1 \in 1 .. n + 2 /\ 2 \in 1 .. n + 2
        /\ \A i \in 1 .. n : i + 2 \in 1 .. n + 2 /\ a[i + 2] = s[i]
    <2>1. \A i \in 1 .. n : i + 2 \in 3 .. n + 2 /\ i + 2 \in 1 .. n + 2 /\ (i + 2) - 2 = i
      BY <1>1
    <2> QED  BY <1>1, <2>1
  <1>4. \A i \in 1 .. n + 2 : a[i] \in {x, y} \cup ToSet(s)
    BY <1>1, <1>2 DEF ToSet
  <1>5. \A e \in {x, y} \cup ToSet(s) : \E i \in 1 .. n + 2 : a[i] = e
    BY <1>1, <1>3 DEF ToSet
  <1>6. ToSet(a) = {x, y} \cup ToSet(s)
    <2>1. ToSet(a) = {a[i] : i \in 1 .. n + 2}
      BY <1>1, Zenon DEF ToSet
    <2> QED  BY <1>4, <1>5, <2>1
  <1>7. ASSUME IsInjective(s), x # y, x \notin ToSet(s), y \notin ToSet(s)
        PROVE  IsInjective(a)
    <2>1. \A i \in 1 .. n : s[i] # x /\ s[i] # y
      BY <1>1, <1>7 DEF ToSet
    <2> SUFFICES ASSUME NEW i \in 1 .. n + 2, NEW j \in 1 .. n + 2, a[i] = a[j]
                 PROVE  i = j
      BY <1>1 DEF IsInjective
    <2>2. CASE i \in 3 .. n + 2 /\ j \in 3 .. n + 2
      <3>1. i - 2 = j - 2
        BY <1>1, <1>2, <1>7, <2>2 DEF IsInjective
      <3> QED  BY <1>1, <3>1
    <2> QED  BY <1>1, <1>2, <1>7, <2>1, <2>2
  <1> QED  BY <1>6, <1>7 DEF a

-------------------------------------------------------------------------------
(* The scene *)

GameObject == [transform : Nat, components : Seq(Nat), active : BOOLEAN]

\* The components of an object, by their ids.
Listed(o) == ToSet(game_objects_[o].components)

\* Every object has its id and the next for its transform; its components are
\* filed under it, and have ids of their own.
ObjectFits(o) ==
    /\ o \in Nat \ {0} /\ o + 1 < next_id_
    /\ game_objects_[o].transform = o + 1 /\ o + 1 \notin Objects
    /\ \A c \in Listed(o) :
          /\ c \in Nat /\ c < next_id_
          /\ \A p \in Objects : c # p /\ c # p + 1
          /\ c \in DOMAIN components_ /\ components_[c] = o
    /\ IsInjective(game_objects_[o].components)

\* What is filed under an object is on its list.
FiledIsListed(c) ==
    components_[c] # NullEntry =>
        components_[c] \in Objects /\ c \in Listed(components_[c])

SceneInv ==
    /\ next_id_ \in 1 .. MaxId + 1 /\ crashed \in BOOLEAN
    /\ game_objects_ \in [Objects -> GameObject]
    /\ \A t \in DOMAIN transforms_ : transforms_[t] \in Nat
    /\ \A c \in DOMAIN components_ : components_[c] \in Nat
    /\ \A o \in Objects : ObjectFits(o)
    /\ \A c \in DOMAIN components_ : FiledIsListed(c)

\* SceneConsistent says less, and of the lists as they are.
LEMMA SceneInvSuffices == SceneInv => SceneConsistent /\ SceneTypeOK
  <1> SUFFICES ASSUME SceneInv PROVE SceneConsistent /\ SceneTypeOK
    OBVIOUS
  <1>1. ASSUME NEW o \in Objects
        PROVE  /\ game_objects_[o].components \in Seq(Nat)
               /\ game_objects_[o].transform \in Nat
               /\ ObjectFits(o)
    BY DEF SceneInv, GameObject
  <1>2. \A c \in DOMAIN components_ :
          components_[c] # NullEntry =>
              components_[c] \in Objects /\ c \in Listed(components_[c])
    BY DEF SceneInv, FiledIsListed
  <1>3. \A o \in Objects : \A c \in Listed(o) :
          c \in DOMAIN components_ /\ components_[c] = o
    BY <1>1 DEF ObjectFits
  <1>4. \A id \in GivenOut : id < next_id_
    <2>1. \A o \in Objects : /\ o < next_id_ /\ game_objects_[o].transform < next_id_
                             /\ \A c \in Listed(o) : c < next_id_
      BY <1>1, SceneConstantsAssumption DEF SceneConstantsAssumption, SceneInv, ObjectFits
    <2> QED  BY <2>1 DEF GivenOut, Listed
  <1>5. ASSUME NEW o \in Objects
        PROVE  LET own == <<o, game_objects_[o].transform>> \o game_objects_[o].components
               IN  /\ IsInjective(own)
                   /\ \A p \in Objects \ {o} :
                        ToSet(own) \cap ({p, game_objects_[p].transform} \cup Listed(p)) = {}
    <2> DEFINE t == game_objects_[o].transform
               own == <<o, t>> \o game_objects_[o].components
    <2>1. /\ o \in Nat /\ t \in Nat /\ o # t /\ t = o + 1
          /\ o \notin Listed(o) /\ t \notin Listed(o)
          /\ IsInjective(game_objects_[o].components)
      BY <1>1 DEF ObjectFits
    <2>2. IsInjective(own) /\ ToSet(own) = {o, t} \cup Listed(o)
      <3> HIDE DEF t
      <3> QED  BY <1>1, <2>1, ListPrefixed DEF Listed
    <2>3. ASSUME NEW p \in Objects \ {o}
          PROVE  ({o, t} \cup Listed(o)) \cap ({p, game_objects_[p].transform} \cup Listed(p)) = {}
      <3>1. /\ p \in Nat /\ game_objects_[p].transform = p + 1 /\ p + 1 # o /\ o + 1 # p
            /\ p # o /\ p + 1 # o + 1
        BY <1>1, <2>1 DEF ObjectFits
      <3>2. \A c \in Listed(p) : c # o /\ c # o + 1 /\ components_[c] = p
        BY <1>1 DEF ObjectFits
      <3>3. \A c \in Listed(o) : c # p /\ c # p + 1 /\ components_[c] = o
        BY <1>1 DEF ObjectFits
      <3> HIDE DEF t
      <3> QED  BY <2>1, <3>1, <3>2, <3>3
    <2> QED  BY <2>2, <2>3
  <1>6. SceneConsistent
    BY <1>2, <1>3, <1>4, <1>5, Zenon DEF SceneConsistent, Listed
  <1>7. SceneTypeOK
    BY <1>1 DEF SceneTypeOK, SceneInv
  <1> QED  BY <1>6, <1>7

\* A call that changes neither ids nor lists, and adds null entries at most.
LEMMA SceneKept ==
    ASSUME SceneInv, next_id_' = next_id_, crashed' \in BOOLEAN,
           game_objects_' \in [Objects -> GameObject],
           \A o \in Objects : /\ game_objects_'[o].transform = game_objects_[o].transform
                              /\ game_objects_'[o].components = game_objects_[o].components,
           \A t \in DOMAIN transforms_' : transforms_'[t] \in Nat,
           DOMAIN components_ \subseteq DOMAIN components_',
           \A c \in DOMAIN components_ : components_'[c] = components_[c],
           \A c \in DOMAIN components_' \ DOMAIN components_ : components_'[c] = NullEntry
    PROVE  SceneInv'
  <1>1. Objects' = Objects /\ \A o \in Objects : Listed(o)' = Listed(o)
    BY DEF Objects, Listed
  <1>3. ASSUME NEW o \in Objects
        PROVE  ObjectFits(o)'
    <2>1. ObjectFits(o)
      BY DEF SceneInv
    <2> QED  BY <1>1, <2>1 DEF ObjectFits
  <1>4. ASSUME NEW c \in DOMAIN components_'
        PROVE  FiledIsListed(c)'
    <2>1. c \in DOMAIN components_ => FiledIsListed(c)
      BY DEF SceneInv
    <2> QED  BY <1>1, <2>1 DEF FiledIsListed
  <1>5. \A c \in DOMAIN components_' : components_'[c] \in Nat
    BY DEF SceneInv, NullEntry
  <1> QED  BY <1>1, <1>3, <1>4, <1>5 DEF SceneInv

\* An entry that is touched is what it was, or null.
LEMMA Touched ==
    ASSUME NEW m, \A x \in DOMAIN m : m[x] \in Nat, NEW ks
    PROVE  \A x \in DOMAIN Touch(m, ks) : Touch(m, ks)[x] \in Nat
  BY DEF Touch, NullEntry

LEMMA CreateKeeps == SceneInv /\ CreateGameObject => SceneInv'
  <1> SUFFICES ASSUME SceneInv, CreateGameObject PROVE SceneInv'
    OBVIOUS
  <1>0. PICK id : id = next_id_
    OBVIOUS
  <1> DEFINE new == [transform |-> id + 1, components |-> <<>>, active |-> TRUE]
  <1>1. /\ id \in Nat \ {0} /\ MaxId \in Nat /\ id + 1 <= MaxId /\ next_id_' = id + 2
        /\ components_' = components_ /\ crashed' \in BOOLEAN
        /\ game_objects_' = Set(game_objects_, id, new)
    <2>1. next_id_ \in Nat \ {0} /\ MaxId \in Nat /\ crashed \in BOOLEAN
      BY SceneConstantsAssumption DEF SceneConstantsAssumption, SceneInv
    <2>2. /\ next_id_ + 1 <= MaxId /\ next_id_' = next_id_ + 2
          /\ components_' = components_ /\ (crashed' = TRUE \/ crashed' = crashed)
          /\ game_objects_' = Set(game_objects_, next_id_,
               [transform |-> next_id_ + 1, components |-> <<>>, active |-> TRUE])
      BY DEF CreateGameObject
    <2> QED  BY <1>0, <2>1, <2>2
  <1>2. \A t \in DOMAIN transforms_' : transforms_'[t] \in Nat
    <2>1. \A t \in DOMAIN transforms_ : transforms_[t] \in Nat
      BY DEF SceneInv
    <2>2. \A stray : \A t \in DOMAIN Set(transforms_, stray, id) :
                Set(transforms_, stray, id)[t] \in Nat
      BY <1>1, <2>1 DEF Set
    <2> QED  BY <1>0, <2>1, <2>2 DEF CreateGameObject
  <1>3. new \in GameObject /\ ToSet(new.components) = {} /\ IsInjective(new.components)
    BY <1>1 DEF GameObject, ToSet, IsInjective
  <1>4. \A o \in Objects : o \in Nat /\ o # id /\ o + 1 # id /\ o # id + 1 /\ o + 1 # id + 1
    BY <1>0, <1>1 DEF SceneInv, ObjectFits
  <1> HIDE DEF new
  <1>5. /\ Objects' = Objects \cup {id}
        /\ game_objects_' \in [Objects' -> GameObject]
        /\ game_objects_'[id] = new
        /\ \A o \in Objects : game_objects_'[o] = game_objects_[o]
    BY <1>1, <1>3, <1>4 DEF Set, SceneInv, Objects
  <1>6. /\ \A o \in Objects : Listed(o)' = Listed(o)
        /\ Listed(id)' = {}
    BY <1>3, <1>5 DEF Listed
  <1>7. ASSUME NEW o \in Objects
        PROVE  ObjectFits(o)'
    <2>1. ObjectFits(o)
      BY DEF SceneInv
    <2>2. \A c \in Listed(o) : c # id /\ c # id + 1
      BY <1>0, <1>1, <2>1 DEF ObjectFits
    <2>3. o + 1 < id + 2 /\ \A c \in Listed(o) : c < id + 2
      BY <1>0, <1>1, <2>1 DEF ObjectFits
    <2> QED  BY <1>1, <1>4, <1>5, <1>6, <2>1, <2>2, <2>3 DEF ObjectFits
  <1>8. ObjectFits(id)'
    <2>1. game_objects_'[id].transform = id + 1
      BY <1>5 DEF new
    <2>2. id + 1 \notin Objects'
      BY <1>1, <1>4, <1>5
    <2> QED  BY <1>1, <1>3, <1>5, <1>6, <2>1, <2>2 DEF ObjectFits
  <1>9. \A c \in DOMAIN components_' : FiledIsListed(c)'
    BY <1>1, <1>5, <1>6 DEF SceneInv, FiledIsListed
  <1>10. next_id_' \in 1 .. MaxId + 1
    BY <1>1
  <1>11. \A o \in Objects' : ObjectFits(o)'
    BY <1>5, <1>7, <1>8
  <1>12. \A c \in DOMAIN components_' : components_'[c] \in Nat
    BY <1>1 DEF SceneInv
  <1> QED  BY <1>1, <1>2, <1>5, <1>9, <1>10, <1>11, <1>12 DEF SceneInv

LEMMA DestroyKeeps ==
    ASSUME SceneInv, NEW id, DestroyGameObject(id)
    PROVE  SceneInv'
  <1>1. /\ id \in Objects /\ next_id_' = next_id_ /\ crashed' = crashed
        /\ components_' = Erase(components_, Listed(id))
        /\ transforms_' = Erase(transforms_, {game_objects_[id].transform})
        /\ game_objects_' = Erase(game_objects_, {id})
    BY DEF DestroyGameObject, Listed
  <1>2. /\ Objects' = Objects \ {id}
        /\ game_objects_' \in [Objects' -> GameObject]
        /\ \A o \in Objects' : game_objects_'[o] = game_objects_[o]
    BY <1>1 DEF Erase, Objects, SceneInv
  <1>3. \A o \in Objects' : Listed(o)' = Listed(o)
    BY <1>2 DEF Listed
  <1>4. /\ DOMAIN components_' = DOMAIN components_ \ Listed(id)
        /\ \A c \in DOMAIN components_' : components_'[c] = components_[c]
    BY <1>1 DEF Erase
  <1>5. \A o \in Objects : \A c \in Listed(o) : components_[c] = o
    BY DEF SceneInv, ObjectFits
  <1>6. ASSUME NEW o \in Objects'
        PROVE  ObjectFits(o)'
    <2>1. o \in Objects /\ o # id /\ ObjectFits(o)
      BY <1>2 DEF SceneInv
    <2>2. \A c \in Listed(o) : c \notin Listed(id)
      BY <1>1, <1>5, <2>1
    <2> QED  BY <1>1, <1>2, <1>3, <1>4, <2>1, <2>2 DEF ObjectFits
  <1>7. ASSUME NEW c \in DOMAIN components_'
        PROVE  FiledIsListed(c)'
    <2>1. c \in DOMAIN components_ /\ c \notin Listed(id) /\ FiledIsListed(c)
      BY <1>4 DEF SceneInv
    <2>2. components_[c] # NullEntry => components_[c] # id
      BY <2>1 DEF FiledIsListed
    <2> QED  BY <1>2, <1>3, <1>4, <2>1, <2>2 DEF FiledIsListed
  <1>8. \A t \in DOMAIN transforms_' : transforms_'[t] \in Nat
    BY <1>1 DEF Erase, SceneInv
  <1>9. \A c \in DOMAIN components_' : components_'[c] \in Nat
    BY <1>4 DEF SceneInv
  <1> QED  BY <1>1, <1>2, <1>6, <1>7, <1>8, <1>9 DEF SceneInv

LEMMA AddKeeps ==
    ASSUME SceneInv, NEW id, AddComponent(id)
    PROVE  SceneInv'
  <1> DEFINE c0 == next_id_
             old == game_objects_[id]
             new == [old EXCEPT !.components = Append(old.components, c0)]
  <1>1. /\ id \in Objects /\ c0 \in Nat \ {0} /\ c0 <= MaxId /\ MaxId \in Nat
        /\ next_id_' = c0 + 1
        /\ game_objects_' = [game_objects_ EXCEPT ![id] = new]
        /\ components_' = Set(components_, c0, id)
        /\ transforms_' = transforms_ /\ crashed' = crashed
    BY SceneConstantsAssumption DEF SceneConstantsAssumption, AddComponent, SceneInv
  <1>2. old \in GameObject /\ old.components \in Seq(Nat) /\ ObjectFits(id)
    BY <1>1 DEF SceneInv, GameObject
  <1>3. \A o \in Objects : ObjectFits(o) /\ o \in Nat /\ c0 # o /\ c0 # o + 1 /\ c0 \notin Listed(o)
    BY <1>1 DEF SceneInv, ObjectFits
  <1>4. /\ Append(old.components, c0) \in Seq(Nat)
        /\ ToSet(Append(old.components, c0)) = Listed(id) \cup {c0}
        /\ IsInjective(Append(old.components, c0))
    <2>1. IsInjective(old.components) /\ c0 \notin Listed(id)
      BY <1>1, <1>2, <1>3 DEF ObjectFits
    <2> QED  BY <1>1, <1>2, <2>1, ListAppended DEF Listed
  <1>5. /\ new \in GameObject /\ new.transform = old.transform
        /\ new.components = Append(old.components, c0)
    BY <1>2, <1>4 DEF GameObject
  <1> HIDE DEF new
  <1>6. /\ Objects' = Objects
        /\ game_objects_' \in [Objects -> GameObject]
        /\ game_objects_'[id] = new
        /\ \A o \in Objects \ {id} : game_objects_'[o] = game_objects_[o]
    BY <1>1, <1>5 DEF Objects, SceneInv
  <1>7. /\ Listed(id)' = Listed(id) \cup {c0}
        /\ \A o \in Objects \ {id} : Listed(o)' = Listed(o)
    BY <1>4, <1>5, <1>6 DEF Listed
  <1>8. /\ DOMAIN components_' = DOMAIN components_ \cup {c0}
        /\ components_'[c0] = id
        /\ \A c \in DOMAIN components_ \ {c0} : components_'[c] = components_[c]
    BY <1>1 DEF Set
  <1>9. ASSUME NEW o \in Objects
        PROVE  ObjectFits(o)'
    <2>1. /\ game_objects_'[o].transform = game_objects_[o].transform
          /\ IsInjective(game_objects_'[o].components)
      BY <1>3, <1>4, <1>5, <1>6 DEF ObjectFits
    <2>2. ASSUME NEW c \in Listed(o)'
          PROVE  /\ c \in Nat /\ c < next_id_'
                 /\ \A p \in Objects : c # p /\ c # p + 1
                 /\ c \in DOMAIN components_' /\ components_'[c] = o
      <3>1. CASE c = c0
        <4>1. o = id
          BY <1>3, <1>7, <3>1
        <4> QED  BY <1>1, <1>3, <1>8, <3>1, <4>1
      <3>2. CASE c # c0
        <4>1. c \in Listed(o)
          BY <1>7, <3>2
        <4>2. c \in Nat /\ c < c0
          BY <1>1, <1>3, <4>1 DEF ObjectFits
        <4> QED  BY <1>1, <1>3, <1>8, <3>2, <4>1, <4>2 DEF ObjectFits
      <3> QED  BY <3>1, <3>2
    <2>3. o \in Nat \ {0} /\ o + 1 < next_id_' /\ o + 1 \notin Objects
      BY <1>1, <1>3 DEF ObjectFits
    <2> QED  BY <1>3, <1>6, <2>1, <2>2, <2>3 DEF ObjectFits
  <1>10. ASSUME NEW c \in DOMAIN components_'
         PROVE  FiledIsListed(c)'
    <2>1. CASE c = c0
      BY <1>1, <1>6, <1>7, <1>8, <2>1 DEF FiledIsListed
    <2>2. CASE c # c0
      <3>1. c \in DOMAIN components_ /\ FiledIsListed(c) /\ components_'[c] = components_[c]
        BY <1>8, <2>2 DEF SceneInv
      <3> QED  BY <1>6, <1>7, <3>1 DEF FiledIsListed
    <2> QED  BY <2>1, <2>2
  <1>11. \A c \in DOMAIN components_' : components_'[c] \in Nat
    BY <1>1, <1>3, <1>8 DEF SceneInv
  <1>12. next_id_' \in 1 .. MaxId + 1
    BY <1>1
  <1> QED  BY <1>1, <1>6, <1>9, <1>10, <1>11, <1>12 DEF SceneInv

LEMMA SceneSteps == SceneInv /\ [SceneNext]_sceneVars => SceneInv'
  <1> SUFFICES ASSUME SceneInv, [SceneNext]_sceneVars PROVE SceneInv'
    OBVIOUS
  <1>1. /\ game_objects_ \in [Objects -> GameObject] /\ crashed \in BOOLEAN
        /\ \A t \in DOMAIN transforms_ : transforms_[t] \in Nat
    BY DEF SceneInv
  <1>2. \A ks : \A t \in DOMAIN Touch(transforms_, ks) : Touch(transforms_, ks)[t] \in Nat
    BY <1>1, Touched
  <1>3. ASSUME NEW id, SetActive(id, TRUE) \/ SetActive(id, FALSE)
        PROVE  SceneInv'
    <2>1. /\ id \in Objects
          /\ UNCHANGED <<transforms_, components_, next_id_, crashed>>
          /\ \/ game_objects_' = [game_objects_ EXCEPT ![id].active = TRUE]
             \/ game_objects_' = [game_objects_ EXCEPT ![id].active = FALSE]
      BY <1>3 DEF SetActive
    <2>2. /\ game_objects_' \in [Objects -> GameObject]
          /\ \A o \in Objects : /\ game_objects_'[o].transform = game_objects_[o].transform
                                /\ game_objects_'[o].components = game_objects_[o].components
      <3> DEFINE new(on) == [game_objects_[id] EXCEPT !.active = on]
      <3>1. \A on \in BOOLEAN : /\ new(on) \in GameObject
                               /\ new(on).transform = game_objects_[id].transform
                               /\ new(on).components = game_objects_[id].components
        <4>1. game_objects_[id] \in GameObject
          BY <1>1, <2>1
        <4> QED  BY <4>1 DEF GameObject
      <3>2. PICK on \in BOOLEAN : game_objects_' = [game_objects_ EXCEPT ![id] = new(on)]
        BY <2>1
      <3> HIDE DEF new
      <3> QED  BY <1>1, <2>1, <3>1, <3>2
    <2> QED  BY <1>1, <2>1, <2>2, SceneKept
  <1>4. ASSUME NEW ks, components_' = Touch(components_, ks),
               UNCHANGED <<game_objects_, transforms_, next_id_, crashed>>
        PROVE  SceneInv'
    <2>1. /\ DOMAIN components_ \subseteq DOMAIN components_'
          /\ \A c \in DOMAIN components_ : components_'[c] = components_[c]
          /\ \A c \in DOMAIN components_' \ DOMAIN components_ : components_'[c] = NullEntry
      BY <1>4 DEF Touch
    <2> QED  BY <1>1, <1>4, <2>1, SceneKept
  <1>5. ASSUME UNCHANGED <<game_objects_, components_, next_id_>>, crashed' \in BOOLEAN,
               \/ UNCHANGED transforms_
               \/ \E ks : transforms_' = Touch(transforms_, ks)
        PROVE  SceneInv'
    <2>1. \A t \in DOMAIN transforms_' : transforms_'[t] \in Nat
      BY <1>1, <1>2, <1>5
    <2> QED  BY <1>1, <1>5, <2>1, SceneKept
  <1>6. ASSUME NEW id, NEW t, GetComponent(id, t) PROVE SceneInv'
    BY <1>4, <1>6 DEF GetComponent
  <1>7. ASSUME NEW id, ComponentCall(id) PROVE SceneInv'
    BY <1>4, <1>7 DEF ComponentCall
  <1>8. ASSUME NEW id, Translate(id) \/ MoveTransform(id) PROVE SceneInv'
    BY <1>1, <1>5, <1>8 DEF Translate, MoveTransform
  <1>9. CASE Raycast
    BY <1>1, <1>5, <1>9 DEF Raycast
  <1>10. CASE UNCHANGED sceneVars
    BY <1>1, <1>5, <1>10 DEF sceneVars
  <1>11. ASSUME NEW id, NEW on \in BOOLEAN, SetActive(id, on) PROVE SceneInv'
    <2>1. on = TRUE \/ on = FALSE
      OBVIOUS
    <2> QED  BY <1>3, <1>11, <2>1
  <1> QED  BY <1>6, <1>7, <1>8, <1>9, <1>10, <1>11, CreateKeeps, DestroyKeeps, AddKeeps
           DEF SceneNext

LEMMA SceneStarts == SceneInit => SceneInv
  <1> SUFFICES ASSUME SceneInit PROVE SceneInv
    OBVIOUS
  <1>1. Objects = {} /\ DOMAIN components_ = {} /\ DOMAIN transforms_ = {}
    BY DEF SceneInit, Objects
  <1>2. game_objects_ \in [{} -> GameObject]
    BY <1>1 DEF SceneInit
  <1>3. next_id_ \in 1 .. MaxId + 1
    BY SceneConstantsAssumption DEF SceneConstantsAssumption, SceneInit
  <1>4. crashed \in BOOLEAN
    BY Zenon DEF SceneInit
  <1> QED  BY <1>1, <1>2, <1>3, <1>4 DEF SceneInv

\* Whatever is created, looked up, destroyed or filed under a wrong id
\* (unity_bridge.cpp:238-303), objects, transforms and components have ids of
\* their own, and a component is where its object lists it.
THEOREM SceneStaysConsistent == SceneSpec => []SceneConsistent
  BY SceneStarts, SceneSteps, SceneInvSuffices, PTL DEF SceneSpec

\* The maps of the scene keep their types.
THEOREM SceneTypes == SceneSpec => []SceneTypeOK
  BY SceneStarts, SceneSteps, SceneInvSuffices, PTL DEF SceneSpec

-------------------------------------------------------------------------------
(* The inline caches *)

\* First is the least of a set of indices that has one.
LEMMA FirstIsLeast ==
    ASSUME NEW is \in SUBSET Nat, is # {}
    PROVE  First(is) \in is /\ \A j \in is : First(is) <= j
  <1>1. \E i \in is : \A j \in is : i <= j
    BY HasLeast
  <1> QED  BY <1>1, Zenon DEF First

\* The type check's cache holds the first ids that were recorded, in order.
CheckInv ==
    /\ recorded \in Seq(TypeIds \ {0}) /\ IsInjective(recorded)
    /\ checked \in [1 .. MAX_CACHE_ENTRIES -> TypeIds \cup {0}]
    /\ \A i \in 1 .. MAX_CACHE_ENTRIES :
          checked[i] = IF i <= Len(recorded) THEN recorded[i] ELSE 0
    /\ hit_count \in 0 .. MaxChecks /\ miss_count \in 0 .. MaxChecks

LEMMA RecordHitKeeps ==
    ASSUME CheckInv, NEW t \in TypeIds, RecordHit(t)
    PROVE  CheckInv'
  <1> DEFINE n == Len(recorded)
             M == MAX_CACHE_ENTRIES
             stops == {i \in 1 .. M : checked[i] \in {t, 0}}
  <1>1. /\ n \in Nat /\ M = 4 /\ DOMAIN recorded = 1 .. n
        /\ \A i \in 1 .. n : recorded[i] \in TypeIds \ {0}
        /\ \A i, j \in 1 .. n : recorded[i] = recorded[j] => i = j
        /\ \A i \in 1 .. M : checked[i] = IF i <= n THEN recorded[i] ELSE 0
        /\ DOMAIN checked = 1 .. M
    BY DEF CheckInv, IsInjective, MAX_CACHE_ENTRIES
  <1>2. /\ checked' = IF stops = {} THEN checked ELSE [checked EXCEPT ![First(stops)] = t]
        /\ recorded' = IF t \in ToSet(recorded) \cup {0} THEN recorded ELSE Append(recorded, t)
        /\ hit_count' \in 0 .. MaxChecks /\ miss_count' \in 0 .. MaxChecks
    BY <1>1, CachesConstantsAssumption DEF CachesConstantsAssumption, CheckInv, RecordHit
  <1>3. stops # {} => First(stops) \in stops /\ \A j \in stops : First(stops) <= j
    <2>1. stops \in SUBSET Nat
      BY <1>1
    <2> HIDE DEF stops
    <2> QED  BY <2>1, FirstIsLeast
  <1>4. ToSet(recorded) = {recorded[i] : i \in 1 .. n}
    BY <1>1 DEF ToSet
  <1>5. checked' \in [1 .. M -> TypeIds \cup {0}]
    <2>1. checked \in [1 .. M -> TypeIds \cup {0}]
      BY DEF CheckInv
    <2> HIDE DEF stops, M
    <2> QED  BY <1>2, <2>1
  <1>6. /\ recorded' \in Seq(TypeIds \ {0}) /\ IsInjective(recorded')
        /\ t \notin ToSet(recorded) \cup {0} =>
                /\ Len(recorded') = n + 1 /\ recorded'[n + 1] = t
                /\ \A i \in 1 .. n : recorded'[i] = recorded[i]
    <2>1. recorded \in Seq(TypeIds \ {0}) /\ IsInjective(recorded)
      BY DEF CheckInv
    <2>2. CASE t \in ToSet(recorded) \cup {0}
      BY <1>2, <2>1, <2>2
    <2>3. CASE t \notin ToSet(recorded) \cup {0}
      <3>1. recorded' = Append(recorded, t) /\ t \in TypeIds \ {0}
        BY <1>2, <2>3
      <3>2. recorded' \in Seq(TypeIds \ {0}) /\ IsInjective(recorded')
        BY <2>1, <2>3, <3>1, ListAppended
      <3> QED  BY <2>1, <3>1, <3>2
    <2> QED  BY <2>2, <2>3
  <1>7. \A i \in 1 .. M : checked'[i] = IF i <= Len(recorded') THEN recorded'[i] ELSE 0
    <2> HIDE DEF stops, n, M
    <2>0. \A i : i \in stops <=> i \in 1 .. M /\ checked[i] \in {t, 0}
      BY DEF stops, M
    <2>1. CASE t \in ToSet(recorded) \cup {0}
      <3>1. recorded' = recorded
        BY <1>2, <2>1
      <3>2. checked' = checked
        <4>1. CASE stops = {}
          BY <1>2, <4>1
        <4>2. CASE stops # {}
          <5>1. checked[First(stops)] = t
            <6> DEFINE f == First(stops)
            <6>1. f \in 1 .. M /\ checked[f] \in {t, 0} /\ \A j \in stops : f <= j
              BY <1>3, <2>0, <4>2
            <6> HIDE DEF f
            <6> SUFFICES checked[f] = t
              BY DEF f
            <6>2. CASE t = 0
              BY <6>1, <6>2
            <6>3. CASE t # 0
              <7>1. PICK k \in 1 .. n : recorded[k] = t
                BY <1>4, <2>1, <6>3
              <7>2. CASE checked[f] = 0
                <8>1. ~(f <= n)
                  BY <1>1, <6>1, <7>2
                <8>2. k \in 1 .. M /\ checked[k] = t
                  BY <1>1, <6>1, <7>1, <8>1
                <8>3. f <= k
                  BY <2>0, <6>1, <8>2
                <8> QED  BY <1>1, <6>1, <7>1, <8>1, <8>3
              <7> QED  BY <6>1, <7>2
            <6> QED  BY <6>2, <6>3
          <5>2. checked' = [checked EXCEPT ![First(stops)] = t]
            BY <1>2, <4>2
          <5>3. checked \in [1 .. M -> TypeIds \cup {0}]
            BY DEF CheckInv, M
          <5> QED  BY <5>1, <5>2, <5>3
        <4> QED  BY <4>1, <4>2
      <3> QED  BY <1>1, <3>1, <3>2 DEF n
    <2>2. CASE t \notin ToSet(recorded) \cup {0}
      <3>1. /\ Len(recorded') = n + 1 /\ recorded'[n + 1] = t /\ t # 0
            /\ \A i \in 1 .. n : recorded'[i] = recorded[i] /\ recorded[i] # t
        BY <1>4, <1>6, <2>2 DEF n
      <3>2. \A i : i \in stops <=> i \in 1 .. M /\ ~(i <= n)
        BY <1>1, <2>0, <3>1
      <3>3. CASE n < M
        <4>1. n + 1 \in stops
          BY <1>1, <3>2, <3>3
        <4>2. First(stops) = n + 1
          BY <1>1, <1>3, <3>2, <4>1
        <4>3. checked' = [checked EXCEPT ![n + 1] = t]
          BY <1>2, <4>1, <4>2
        <4>4. \A i \in 1 .. M : checked'[i] = IF i = n + 1 THEN t ELSE checked[i]
          BY <1>1, <4>3
        <4> QED  BY <1>1, <3>1, <4>4
      <3>4. CASE ~(n < M)
        <4>1. stops = {}
          BY <1>1, <3>2, <3>4
        <4>2. checked' = checked
          BY <1>2, <4>1
        <4>3. \A i \in 1 .. M : i <= n /\ i \in 1 .. n /\ i <= n + 1
          BY <1>1, <3>4
        <4> QED  BY <1>1, <3>1, <4>2, <4>3
      <3> QED  BY <3>3, <3>4
    <2> QED  BY <2>1, <2>2
  <1> QED  BY <1>2, <1>5, <1>6, <1>7 DEF CheckInv

\* One call of the type check's cache.
LEMMA CheckSteps == CheckInv /\ [CheckNext]_checkVars => CheckInv'
  <1> SUFFICES ASSUME CheckInv, [CheckNext]_checkVars PROVE CheckInv'
    OBVIOUS
  <1>1. CASE RecordMiss
    BY <1>1, CachesConstantsAssumption DEF CachesConstantsAssumption, RecordMiss, CheckInv
  <1>2. CASE ResetCache
    <2>1. <<>> \in Seq(TypeIds \ {0}) /\ IsInjective(<<>>) /\ Len(<<>>) = 0
      BY DEF IsInjective
    <2> QED  BY <1>2, <2>1, CachesConstantsAssumption
             DEF CachesConstantsAssumption, ResetCache, CheckInv
  <1>3. CASE UNCHANGED checkVars
    BY <1>3 DEF checkVars, CheckInv
  <1> QED  BY <1>1, <1>2, <1>3, RecordHitKeeps DEF CheckNext

-------------------------------------------------------------------------------
\* The entries of a virtual call that are in use: each holds what was stored
\* last for its type, and no two are for one type.
InUse(i) == i <= count /\ entries[i].version = 1

SiteInv ==
    /\ entries \in [1 .. MAXPIC_ENTRIES -> Entry] /\ count \in 0 .. MAXPIC_ENTRIES
    /\ resolved \in [CalledTypes -> Targets \cup {NoTarget}]
    /\ growing \in BOOLEAN
    /\ growing => \A i \in 1 .. MAXPIC_ENTRIES : i <= count => InUse(i)
    /\ ~growing => count = MAXPIC_ENTRIES
    /\ \A i \in 1 .. MAXPIC_ENTRIES : InUse(i) =>
          /\ entries[i].type_id \in CalledTypes
          /\ entries[i].target \in Targets
          /\ entries[i].target = resolved[entries[i].type_id]
    /\ \A i, j \in 1 .. MAXPIC_ENTRIES :
          InUse(i) /\ InUse(j) /\ entries[i].type_id = entries[j].type_id => i = j

\* A look-up that finds an entry finds the only one for the type.
LEMMA TargetFound ==
    ASSUME SiteInv, NEW t
    PROVE  \/ /\ GetCachedTarget(t) = NoTarget
              /\ \A i \in 1 .. MAXPIC_ENTRIES : ~(InUse(i) /\ entries[i].type_id = t)
           \/ \E i \in 1 .. MAXPIC_ENTRIES : /\ InUse(i) /\ entries[i].type_id = t
                                             /\ GetCachedTarget(t) = entries[i].target
  <1> DEFINE hits == {i \in 1 .. count : entries[i].type_id = t /\ entries[i].version = 1}
  <1>1. count \in 0 .. MAXPIC_ENTRIES /\ MAXPIC_ENTRIES = 4
    BY DEF SiteInv, MAXPIC_ENTRIES
  <1>2. GetCachedTarget(t) = IF hits = {} THEN NoTarget ELSE entries[First(hits)].target
    BY DEF GetCachedTarget
  <1>3. \A i : i \in hits <=> i \in 1 .. MAXPIC_ENTRIES /\ InUse(i) /\ entries[i].type_id = t
    BY <1>1 DEF InUse
  <1>4. hits # {} => First(hits) \in hits
    <2>1. hits \in SUBSET Nat
      BY <1>1
    <2> HIDE DEF hits
    <2> QED  BY <2>1, FirstIsLeast
  <1> HIDE DEF hits
  <1> QED  BY <1>2, <1>3, <1>4

LEMMA UpdateKeeps ==
    ASSUME SiteInv, NEW t \in CalledTypes, NEW x \in Targets, UpdateCache(t, x)
    PROVE  SiteInv'
  <1> DEFINE M == MAXPIC_ENTRIES
             new == [type_id |-> t, version |-> 1, target |-> x]
             open == {i \in 1 .. M : entries[i].version = 0 \/ i > count}
             k == IF open = {} THEN 1 ELSE First(open)
  <1>1. M = 4 /\ count \in 0 .. M /\ entries \in [1 .. M -> Entry]
    BY DEF SiteInv, MAXPIC_ENTRIES
  <1>2. \A i \in 1 .. M : ~(InUse(i) /\ entries[i].type_id = t)
    BY TargetFound, CachesConstantsAssumption
       DEF CachesConstantsAssumption, SiteInv, UpdateCache
  <1>3. open # {} => First(open) \in open /\ \A j \in open : First(open) <= j
    <2>1. open \in SUBSET Nat
      BY <1>1
    <2> HIDE DEF open
    <2> QED  BY <2>1, FirstIsLeast
  <1>4. k \in 1 .. M
    BY <1>1, <1>3
  <1>5. /\ entries' = [entries EXCEPT ![k] = new]
        /\ count' = IF count < M THEN count + 1 ELSE count
        /\ resolved' = [resolved EXCEPT ![t] = x]
        /\ growing' = growing
    BY DEF UpdateCache, Place
  <1>6. growing /\ count < M => k = count + 1
    <2> SUFFICES ASSUME growing, count < M PROVE k = count + 1
      OBVIOUS
    <2>1. \A i \in 1 .. M : i <= count => entries[i].version = 1
      BY DEF SiteInv, InUse
    <2>2. \A i : i \in open <=> i \in 1 .. M /\ i > count
      BY <1>1, <2>1
    <2>3. count + 1 \in open
      BY <1>1, <2>2
    <2> HIDE DEF open
    <2>4. First(open) = count + 1
      BY <1>1, <1>3, <2>2, <2>3
    <2> QED  BY <2>3, <2>4
  <1>7. new \in Entry /\ new.type_id = t /\ new.version = 1 /\ new.target = x
    BY DEF Entry
  <1> HIDE DEF new, open, k
  <1>8. /\ entries' \in [1 .. M -> Entry] /\ entries'[k] = new
        /\ \A i \in 1 .. M : i # k => entries'[i] = entries[i]
    BY <1>1, <1>4, <1>5, <1>7
  <1>9. /\ count' \in 0 .. M
        /\ growing => (count < M => count' = count + 1)
        /\ count <= count' /\ k <= count' /\ (~growing => count' = M /\ count = M)
    BY <1>1, <1>4, <1>5, <1>6 DEF SiteInv
  <1>10. /\ resolved' \in [CalledTypes -> Targets \cup {NoTarget}]
         /\ resolved'[t] = x /\ \A u \in CalledTypes : u # t => resolved'[u] = resolved[u]
    BY <1>5 DEF SiteInv
  <1>11. \A i \in 1 .. M : InUse(i)' => i = k \/ InUse(i)
    <2> SUFFICES ASSUME NEW i \in 1 .. M, InUse(i)', i # k PROVE InUse(i)
      OBVIOUS
    <2>1. entries[i].version = 1 /\ i <= count'
      BY <1>8 DEF InUse
    <2>2. i <= count
      BY <1>1, <1>5, <1>6, <1>9, <2>1 DEF SiteInv
    <2> QED  BY <2>1, <2>2 DEF InUse
  <1>12. \A i \in 1 .. M : InUse(i)' =>
          /\ entries'[i].type_id \in CalledTypes
          /\ entries'[i].target \in Targets
          /\ entries'[i].target = resolved'[entries'[i].type_id]
    <2> SUFFICES ASSUME NEW i \in 1 .. M, InUse(i)'
                 PROVE  /\ entries'[i].type_id \in CalledTypes
                        /\ entries'[i].target \in Targets
                        /\ entries'[i].target = resolved'[entries'[i].type_id]
      OBVIOUS
    <2>1. CASE i = k
      BY <1>7, <1>8, <1>10, <2>1
    <2>2. CASE i # k
      <3>1. InUse(i) /\ entries'[i] = entries[i]
        BY <1>8, <1>11, <2>2
      <3>2. entries[i].type_id # t
        BY <1>2, <3>1
      <3> QED  BY <1>10, <3>1, <3>2 DEF SiteInv
    <2> QED  BY <2>1, <2>2
  <1>13. \A i, j \in 1 .. M :
          InUse(i)' /\ InUse(j)' /\ entries'[i].type_id = entries'[j].type_id => i = j
    <2>1. \A i \in 1 .. M : InUse(i)' /\ i # k =>
            InUse(i) /\ entries'[i] = entries[i] /\ entries[i].type_id # t
      BY <1>2, <1>8, <1>11
    <2> QED  BY <1>7, <1>8, <2>1 DEF SiteInv
  <1>14. growing' => \A i \in 1 .. M : i <= count' => InUse(i)'
    <2> SUFFICES ASSUME growing, NEW i \in 1 .. M, i <= count' PROVE InUse(i)'
      BY <1>5
    <2>1. CASE i = k
      BY <1>7, <1>8, <2>1 DEF InUse
    <2>2. CASE i # k
      <3>1. i <= count
        BY <1>1, <1>5, <1>6, <2>2
      <3> QED  BY <1>8, <2>2, <3>1 DEF InUse, SiteInv
    <2> QED  BY <2>1, <2>2
  <1> QED  BY <1>5, <1>8, <1>9, <1>10, <1>12, <1>13, <1>14 DEF SiteInv

LEMMA SiteSteps == SiteInv /\ [SiteNext]_siteVars => SiteInv'
  <1>1. SiteInv /\ UNCHANGED siteVars => SiteInv'
    BY DEF siteVars, SiteInv, InUse
  <1> QED  BY <1>1, UpdateKeeps DEF SiteNext

LEMMA CachesStart == CachesInit => SiteInv /\ CheckInv
  <1> SUFFICES ASSUME CachesInit PROVE SiteInv /\ CheckInv
    OBVIOUS
  <1>1. CheckInv
    <2>1. <<>> \in Seq(TypeIds \ {0}) /\ IsInjective(<<>>) /\ Len(<<>>) = 0
      BY DEF IsInjective
    <2> QED  BY <2>1, CachesConstantsAssumption
             DEF CachesConstantsAssumption, CachesInit, CheckInit, CheckInv
  <1>2. Zeroed \in Entry /\ Zeroed.version = 0
    BY DEF Zeroed, Entry
  <1>3. CASE growing = FALSE
    <2>1. /\ count = MAXPIC_ENTRIES /\ entries = [i \in 1 .. MAXPIC_ENTRIES |-> Zeroed]
          /\ resolved = [u \in CalledTypes |-> NoTarget]
      BY <1>3 DEF CachesInit, SiteInit
    <2>2. \A i \in 1 .. MAXPIC_ENTRIES : ~InUse(i)
      BY <1>2, <2>1 DEF InUse
    <2>3. growing \in BOOLEAN /\ ~growing
      BY <1>3, Zenon
    <2>4. entries \in [1 .. MAXPIC_ENTRIES -> Entry]
      BY <1>2, <2>1
    <2> QED  BY <1>1, <2>1, <2>2, <2>3, <2>4 DEF SiteInv, MAXPIC_ENTRIES
  <1>4. CASE growing = TRUE
    <2>1. /\ count = 0 /\ entries \in [1 .. MAXPIC_ENTRIES -> Entry]
          /\ resolved = [u \in CalledTypes |-> NoTarget]
      BY <1>4 DEF CachesInit, SiteInit
    <2>2. \A i \in 1 .. MAXPIC_ENTRIES : ~(i <= count) /\ ~InUse(i)
      BY <2>1 DEF InUse, MAXPIC_ENTRIES
    <2> QED  BY <1>1, <1>4, <2>1, <2>2 DEF SiteInv, MAXPIC_ENTRIES
  <1> QED  BY <1>3, <1>4 DEF CachesInit, SiteInit

LEMMA CachesInvariant == CachesSpec => [](SiteInv /\ CheckInv)
  <1>1. (SiteInv /\ CheckInv) /\ [CachesNext]_cacheVars => (SiteInv /\ CheckInv)'
    <2>1. [CachesNext]_cacheVars => [SiteNext]_siteVars /\ [CheckNext]_checkVars
      BY DEF CachesNext, cacheVars
    <2> QED  BY <2>1, SiteSteps, CheckSteps
  <1> QED  BY <1>1, CachesStart, PTL DEF CachesSpec

\* A virtual call gets the target stored last for its type, whatever was evicted
\* and stored again since, and a type check hits exactly for the first four ids
\* recorded (jit_compiler.cpp:338-361, runtime.h:33-49).
THEOREM HitsStayLatest == CachesSpec => []HitsAreLatest
  <1>1. SiteInv /\ CheckInv => HitsAreLatest
    <2> SUFFICES ASSUME SiteInv, CheckInv PROVE HitsAreLatest
      OBVIOUS
    <2>1. \A t \in CalledTypes : GetCachedTarget(t) \in {NoTarget, resolved[t]}
      BY TargetFound DEF SiteInv
    <2>2. ASSUME NEW t \in TypeIds \ {0}
          PROVE  Check(t) <=> \E i \in 1 .. MAX_CACHE_ENTRIES :
                                i <= Len(recorded) /\ recorded[i] = t
      BY DEF CheckInv, Check
    <2> QED  BY <2>1, <2>2 DEF HitsAreLatest
  <1> QED  BY <1>1, CachesInvariant, PTL

\* The caches keep their types.
THEOREM CachesTypes == CachesSpec => []CachesTypeOK
  <1>1. SiteInv /\ CheckInv => CachesTypeOK
    BY DEF SiteInv, CheckInv, CachesTypeOK
  <1> QED  BY <1>1, CachesInvariant, PTL

-------------------------------------------------------------------------------
(* The exception handler *)

\* The frame newer is of an activation at least as deep as older's, and inside
\* older's region when they are of the same.
Stacked(newer, older) ==
    /\ newer.activation >= older.activation
    /\ newer.activation = older.activation =>
          older.try_start <= newer.try_start /\ newer.try_end <= older.try_end

HandlerInv ==
    /\ frame_stack_ \in Seq(Frame) /\ Len(frame_stack_) <= MaxFrames
    /\ current_exception_ \in Exceptions \cup {NoException}
    /\ activation \in 1 .. MaxActivations
    /\ \A i \in 1 .. Len(frame_stack_) : frame_stack_[i].activation <= activation
    /\ \A i, j \in 1 .. Len(frame_stack_) :
          i < j => Stacked(frame_stack_[i], frame_stack_[j])

LEMMA PushKeeps ==
    ASSUME HandlerInv, NEW f \in Frame, PushFrame(f)
    PROVE  HandlerInv'
  <1> DEFINE old == frame_stack_
             n == Len(old)
  <1>1. /\ old \in Seq(Frame) /\ n \in Nat /\ DOMAIN old = 1 .. n
        /\ f.activation = activation /\ n < MaxFrames
        /\ UNCHANGED <<current_exception_, activation>>
    BY DEF HandlerInv, PushFrame
  <1>2. /\ frame_stack_' \in Seq(Frame) /\ Len(frame_stack_') = n + 1
        /\ frame_stack_'[1] = f
        /\ \A i \in 2 .. n + 1 : frame_stack_'[i] = old[i - 1]
    BY <1>1 DEF PushFrame
  <1>3. \A i \in 1 .. n : Stacked(f, old[i]) /\ old[i].activation <= activation
    <2> SUFFICES ASSUME NEW i \in 1 .. n
                 PROVE  Stacked(f, old[i]) /\ old[i].activation <= activation
      OBVIOUS
    <2>1. old[i].activation <= activation /\ old[i] \in Frame
      BY DEF HandlerInv
    <2>2. old[i].activation \in Nat /\ activation \in Nat
      BY <2>1 DEF Frame, HandlerInv
    <2>3. old[i].activation = activation =>
            old[i].try_start <= f.try_start /\ f.try_end <= old[i].try_end
      BY <1>1 DEF PushFrame, Own
    <2> QED  BY <1>1, <2>1, <2>2, <2>3 DEF Stacked
  <1>4. ASSUME NEW i \in 1 .. n + 1, NEW j \in 1 .. n + 1, i < j
        PROVE  Stacked(frame_stack_'[i], frame_stack_'[j])
    <2>1. frame_stack_'[j] = old[j - 1] /\ j - 1 \in 1 .. n
      BY <1>1, <1>2, <1>4
    <2>2. CASE i = 1
      BY <1>2, <1>3, <2>1, <2>2
    <2>3. CASE i # 1
      <3>1. frame_stack_'[i] = old[i - 1] /\ i - 1 \in 1 .. n /\ i - 1 < j - 1
        BY <1>1, <1>2, <1>4, <2>3
      <3> QED  BY <2>1, <3>1 DEF HandlerInv
    <2> QED  BY <2>2, <2>3
  <1>5. \A i \in 1 .. n + 1 : frame_stack_'[i].activation <= activation'
    <2>1. activation <= activation
      BY DEF HandlerInv
    <2>2. \A i \in 1 .. n + 1 : i = 1 \/ (i \in 2 .. n + 1 /\ i - 1 \in 1 .. n)
      BY <1>1
    <2> QED  BY <1>1, <1>2, <1>3, <2>1, <2>2
  <1>6. Len(frame_stack_') <= MaxFrames
    BY <1>1, <1>2, HandlerConstantsAssumption DEF HandlerConstantsAssumption
  <1> QED  BY <1>1, <1>2, <1>4, <1>5, <1>6 DEF HandlerInv

LEMMA PopKeeps == HandlerInv /\ PopFrame => HandlerInv'
  <1> SUFFICES ASSUME HandlerInv, PopFrame PROVE HandlerInv'
    OBVIOUS
  <1> DEFINE old == frame_stack_
             n == Len(old)
  <1>1. old \in Seq(Frame) /\ n \in Nat /\ DOMAIN old = 1 .. n /\ n # 0 /\ old # <<>>
    BY DEF HandlerInv, PopFrame, Own
  <1>2. /\ frame_stack_' \in Seq(Frame) /\ Len(frame_stack_') = n - 1
        /\ \A i \in 1 .. n - 1 : frame_stack_'[i] = old[i + 1]
        /\ UNCHANGED <<current_exception_, activation>>
    BY <1>1 DEF PopFrame
  <1>3. \A i \in 1 .. n - 1 : i + 1 \in 1 .. n
    BY <1>1
  <1>4. \A i, j \in 1 .. n - 1 : i < j => i + 1 < j + 1
    BY <1>1
  <1>5. \A i, j \in 1 .. n - 1 : i < j => Stacked(frame_stack_'[i], frame_stack_'[j])
    BY <1>2, <1>3, <1>4 DEF HandlerInv
  <1>6. Len(frame_stack_') <= MaxFrames
    BY <1>1, <1>2, HandlerConstantsAssumption DEF HandlerConstantsAssumption, HandlerInv
  <1> QED  BY <1>2, <1>3, <1>5, <1>6 DEF HandlerInv

LEMMA HandlerSteps == HandlerInv /\ [HandlerNext]_handlerVars => HandlerInv'
  <1> SUFFICES ASSUME HandlerInv, [HandlerNext]_handlerVars PROVE HandlerInv'
    OBVIOUS
  <1>1. ASSUME NEW f \in Frame, PushFrame(f) PROVE HandlerInv'
    BY <1>1, PushKeeps
  <1>2. CASE PopFrame
    BY <1>2, PopKeeps
  <1>3. ASSUME NEW e \in Exceptions \cup {NoException}, Throw(e) PROVE HandlerInv'
    BY <1>3 DEF Throw, HandlerInv
  <1>4. CASE Rethrow
    <2>1. current_exception_ \in Exceptions \cup {NoException}
      BY DEF HandlerInv
    <2> QED  BY <1>3, <1>4, <2>1 DEF Rethrow
  <1>5. CASE ClearCurrentException
    BY <1>3, <1>5 DEF ClearCurrentException
  <1>6. \A i \in 1 .. Len(frame_stack_) : frame_stack_[i].activation \in Nat
    <2>1. \A i \in 1 .. Len(frame_stack_) : frame_stack_[i] \in Frame
      BY DEF HandlerInv
    <2> QED  BY <2>1 DEF Frame
  <1>7. CASE Enter
    <2>1. activation' \in 1 .. MaxActivations
      BY <1>7, HandlerConstantsAssumption DEF HandlerConstantsAssumption, Enter, HandlerInv
    <2>2. \A i \in 1 .. Len(frame_stack_) : frame_stack_[i].activation <= activation'
      BY <1>6, <1>7 DEF Enter, HandlerInv
    <2> QED  BY <1>7, <2>1, <2>2 DEF Enter, HandlerInv
  <1>8. CASE Leave
    <2>1. activation' \in 1 .. MaxActivations
      BY <1>8, HandlerConstantsAssumption DEF HandlerConstantsAssumption, Leave, HandlerInv
    <2>2. \A i \in 1 .. Len(frame_stack_) : frame_stack_[i].activation # activation
      <3>1. DOMAIN frame_stack_ = 1 .. Len(frame_stack_)
        BY DEF HandlerInv
      <3> QED  BY <1>8, <3>1 DEF Leave, Own
    <2>3. \A i \in 1 .. Len(frame_stack_) : frame_stack_[i].activation <= activation'
      BY <1>6, <1>8, <2>2 DEF Leave, HandlerInv
    <2> QED  BY <1>8, <2>1, <2>3 DEF Leave, HandlerInv
  <1>9. CASE UNCHANGED handlerVars
    BY <1>9 DEF handlerVars, HandlerInv
  <1> QED  BY <1>1, <1>2, <1>3, <1>4, <1>5, <1>7, <1>8, <1>9 DEF HandlerNext

LEMMA HandlerInvariant == HandlerSpec => []HandlerInv
  <1>1. HandlerInit => HandlerInv
    <2> SUFFICES ASSUME HandlerInit PROVE HandlerInv
      OBVIOUS
    <2>1. frame_stack_ = <<>> /\ Len(<<>>) = 0 /\ <<>> \in Seq(Frame)
      BY DEF HandlerInit
    <2> QED  BY <2>1, HandlerConstantsAssumption
             DEF HandlerConstantsAssumption, HandlerInit, HandlerInv
  <1> QED  BY <1>1, HandlerSteps, PTL DEF HandlerSpec

\* The newest of the frames that qualify is the innermost of the running
\* method's, when there is one.
LEMMA NewestIsInnermost ==
    ASSUME HandlerInv, NEW ks \in SUBSET DOMAIN frame_stack_, Own \cap ks # {}
    PROVE  Innermost(Newest(ks), Own \cap ks)
  <1> DEFINE k == CHOOSE i \in ks : \A j \in ks : i <= j
  <1>1. /\ DOMAIN frame_stack_ = 1 .. Len(frame_stack_)
        /\ \A i \in 1 .. Len(frame_stack_) : frame_stack_[i] \in Frame
    BY DEF HandlerInv
  <1>2. k \in ks /\ \A j \in ks : k <= j
    <2>1. ks \in SUBSET Nat /\ ks # {}
      BY <1>1
    <2>2. \E i \in ks : \A j \in ks : i <= j
      BY <2>1, HasLeast
    <2> QED  BY <2>2, Zenon
  <1>3. Newest(ks) = k
    BY DEF Newest
  <1> HIDE DEF k
  <1>4. k \in 1 .. Len(frame_stack_) /\ frame_stack_[k] \in Frame
    BY <1>1, <1>2
  <1>5. ASSUME NEW j \in Own \cap ks
        PROVE  /\ k \in Own
               /\ frame_stack_[j].try_start <= frame_stack_[k].try_start
               /\ frame_stack_[k].try_end <= frame_stack_[j].try_end
    <2>1. /\ j \in 1 .. Len(frame_stack_) /\ frame_stack_[j].activation = activation
          /\ j \in ks
      BY <1>1 DEF Own
    <2>2. k = j \/ k < j
      BY <1>2, <1>4, <2>1
    <2>3. CASE k = j
      <3>1. frame_stack_[k].try_start \in Nat /\ frame_stack_[k].try_end \in Nat
        BY <1>4, HandlerConstantsAssumption DEF HandlerConstantsAssumption, Frame
      <3> QED  BY <2>3, <3>1
    <2>4. CASE k < j
      <3>1. /\ frame_stack_[k].activation >= activation
            /\ frame_stack_[k].activation <= activation
            /\ Stacked(frame_stack_[k], frame_stack_[j])
        BY <1>4, <2>1, <2>4 DEF HandlerInv, Stacked
      <3>2. frame_stack_[k].activation \in Nat /\ activation \in Nat
        BY <1>4 DEF Frame, HandlerInv
      <3>3. frame_stack_[k].activation = activation
        BY <3>1, <3>2
      <3> QED  BY <1>1, <1>4, <2>1, <3>1, <3>3 DEF Own, Stacked
    <2> QED  BY <2>2, <2>3, <2>4
  <1> QED  BY <1>2, <1>3, <1>5 DEF Innermost

\* Whatever was entered and left before, FindHandler and FindFinallyHandler
\* (exception_handling.cpp:7-56) find the innermost region of the running method
\* that qualifies, when there is one.
THEOREM HandlerIsInnermost == HandlerSpec => []InnermostHandler
  <1>1. HandlerInv => InnermostHandler
    <2> SUFFICES ASSUME HandlerInv PROVE InnermostHandler
      OBVIOUS
    <2>1. \A pc, t, i : /\ Covering(pc) \in SUBSET DOMAIN frame_stack_
                        /\ Covering(pc) \cap Accepting(t, i) \in SUBSET DOMAIN frame_stack_
      BY DEF Covering
    <2>2. \A pc, t, i : Own \cap Covering(pc) \cap Accepting(t, i)
                            = Own \cap (Covering(pc) \cap Accepting(t, i))
      OBVIOUS
    <2>3. \A pc, t, i : Own \cap Covering(pc) \cap Accepting(t, i) # {} =>
            Innermost(FindHandler(pc, t, i), Own \cap Covering(pc) \cap Accepting(t, i))
      BY <2>1, <2>2, NewestIsInnermost DEF FindHandler
    <2>4. \A pc : Own \cap Covering(pc) # {} =>
            Innermost(FindFinallyHandler(pc), Own \cap Covering(pc))
      BY <2>1, NewestIsInnermost DEF FindFinallyHandler
    <2> QED  BY <2>3, <2>4 DEF InnermostHandler
  <1> QED  BY <1>1, HandlerInvariant, PTL

\* The handler's stack keeps its type.
THEOREM HandlerTypes == HandlerSpec => []HandlerTypeOK
  <1>1. HandlerInv => HandlerTypeOK
    BY DEF HandlerInv, HandlerTypeOK
  <1> QED  BY <1>1, HandlerInvariant, PTL

-------------------------------------------------------------------------------
(* The memory of the high-performance interpreter *)

\* The nodes on the list of p.
OnList(p) == ToSet(freeNodes[p])

HPTypes ==
    /\ arena \in Seq(BOOLEAN) /\ arena # <<>>
    /\ offset \in 0 .. WordRange - 1 /\ allocated \in 0 .. WordRange - 1
    /\ freeNodes \in [Pools -> Seq(Nat)] /\ torn \subseteq Pools
    /\ clean \in BOOLEAN /\ calls \in 0 .. MaxCalls
    /\ \A k \in DOMAIN owned :
          /\ k \in 0 .. calls - 1
          /\ owned[k].from \in Nat /\ owned[k].words \in Nat /\ owned[k].ptr \in Nat

\* What callers hold of a pool are nodes, each held once and on no list.
PoolInv(p) ==
    /\ p \notin torn /\ OnList(p) \subseteq Wholes /\ IsInjective(freeNodes[p])
    /\ \A k \in DOMAIN owned : owned[k].area = PoolArea(p) =>
          /\ owned[k].from \in Wholes \ OnList(p) /\ owned[k].words <= NodeWords
          /\ \A j \in DOMAIN owned :
                owned[j].area = PoolArea(p) /\ owned[j].from = owned[k].from => j = k

\* What callers hold of the arena lies in blocks that exist; in the current one
\* before the offset.
ArenaInv ==
    /\ arena[Len(arena)] => offset <= BlockWords
    /\ \A k \in DOMAIN owned : \A i \in 1 .. Len(arena) : owned[k].area = ArenaArea(i) =>
          /\ arena[i] /\ owned[k].from + owned[k].words <= BlockWords
          /\ i = Len(arena) => owned[k].from + owned[k].words <= offset
          /\ \A j \in DOMAIN owned : j # k /\ owned[j].area = owned[k].area =>
                Apart(owned[j].from, owned[j].words, owned[k].from, owned[k].words)

Placed == \A k \in DOMAIN owned :
    \/ \E p \in Pools : owned[k].area = PoolArea(p)
    \/ \E i \in 1 .. Len(arena) : owned[k].area = ArenaArea(i)

HPInv == HPTypes /\ Placed /\ (clean => ArenaInv /\ \A p \in Pools : PoolInv(p))

\* Areas are told apart.
LEMMA AreasDiffer ==
    /\ \A p, q \in Pools : PoolArea(p) = PoolArea(q) => p = q
    /\ \A p \in Pools : \A i : PoolArea(p) # ArenaArea(i)
    /\ \A i, j : ArenaArea(i) = ArenaArea(j) => i = j
  BY DEF Pools, PoolArea, ArenaArea

\* Two nodes do not overlap.
LEMMA NodesApart ==
    ASSUME NEW v \in Wholes, NEW w \in Wholes, v # w
    PROVE  /\ v \in Nat /\ w \in Nat
           /\ v + NodeWords <= w \/ w + NodeWords <= v
  <1>1. NodeWords \in Nat \ {0} /\ PoolNodes \in Nat
    BY HPConstantsAssumption DEF HPConstantsAssumption
  <1>2. PICK i \in 0 .. PoolNodes - 1 : v = NodeWords * i
    BY DEF Wholes
  <1>3. PICK j \in 0 .. PoolNodes - 1 : w = NodeWords * j
    BY DEF Wholes
  <1>4. \A a, b \in Nat : a < b => NodeWords * a + NodeWords <= NodeWords * b
    <2>1. \A n, a, b \in Nat : a < b => n * a + n <= n * b
      OBVIOUS
    <2> QED  BY <1>1, <2>1
  <1>5. i \in Nat /\ j \in Nat /\ (i < j \/ j < i)
    BY <1>1, <1>2, <1>3
  <1>6. v \in Nat /\ w \in Nat
    BY <1>1, <1>2, <1>3
  <1>7. v + NodeWords <= w \/ w + NodeWords <= v
    <2>1. CASE i < j
      BY <1>2, <1>3, <1>4, <1>5, <2>1
    <2>2. CASE j < i
      BY <1>2, <1>3, <1>4, <1>5, <2>2
    <2> QED  BY <1>5, <2>1, <2>2
  <1> QED  BY <1>6, <1>7

\* A pool of which nothing changes but that callers hold less of it.
LEMMA PoolKept ==
    ASSUME NEW p \in Pools, PoolInv(p), freeNodes'[p] = freeNodes[p], p \notin torn',
           \A k \in DOMAIN owned' :
               owned'[k].area = PoolArea(p) => k \in DOMAIN owned /\ owned'[k] = owned[k]
    PROVE  PoolInv(p)'
  <1>1. OnList(p)' = OnList(p)
    BY DEF OnList
  <1> QED  BY <1>1 DEF PoolInv

\* The same of the arena.
LEMMA ArenaKept ==
    ASSUME ArenaInv, arena' = arena, offset' = offset,
           \A k \in DOMAIN owned' : \A i \in 1 .. Len(arena) :
               owned'[k].area = ArenaArea(i) => k \in DOMAIN owned /\ owned'[k] = owned[k]
    PROVE  ArenaInv'
  BY DEF ArenaInv

\* A range that is handed out is one more.
LEMMA Handed ==
    ASSUME HPTypes, NEW area, NEW from, NEW wanted, NEW header, NEW served,
           Hand(area, from, wanted, header, served)
    PROVE  /\ calls \notin DOMAIN owned /\ DOMAIN owned' = DOMAIN owned \cup {calls}
           /\ owned'[calls].area = area /\ owned'[calls].from = from
           /\ owned'[calls].words = wanted /\ owned'[calls].ptr = from + header
           /\ \A k \in DOMAIN owned : owned'[k] = owned[k]
           /\ clean' = (clean /\ served)
  <1> DEFINE r == [area |-> area, from |-> from, words |-> wanted, ptr |-> from + header]
  <1>1. calls \notin DOMAIN owned
    BY HPConstantsAssumption DEF HPConstantsAssumption, HPTypes
  <1>2. r.area = area /\ r.from = from /\ r.words = wanted /\ r.ptr = from + header
    OBVIOUS
  <1>3. /\ owned' = [k \in DOMAIN owned \cup {calls} |-> IF k = calls THEN r ELSE owned[k]]
        /\ clean' = (clean /\ served)
    BY DEF Hand
  <1> HIDE DEF r
  <1> QED  BY <1>1, <1>2, <1>3

\* Its types.
LEMMA HandedTypes ==
    ASSUME HPTypes, NEW area, NEW from \in Nat, NEW wanted \in Nat, NEW header \in {0, 1},
           NEW served, Hand(area, from, wanted, header, served), calls' = calls + 1
    PROVE  \A k \in DOMAIN owned' :
              /\ k \in 0 .. calls' - 1
              /\ owned'[k].from \in Nat /\ owned'[k].words \in Nat /\ owned'[k].ptr \in Nat
  <1>1. calls \in Nat /\ from + header \in Nat /\ calls' - 1 = calls
    BY HPConstantsAssumption DEF HPConstantsAssumption, HPTypes
  <1>2. \A k \in DOMAIN owned :
            /\ k \in 0 .. calls' - 1
            /\ owned[k].from \in Nat /\ owned[k].words \in Nat /\ owned[k].ptr \in Nat
    BY <1>1 DEF HPTypes
  <1>3. calls \in 0 .. calls' - 1
    BY <1>1
  <1>4. /\ DOMAIN owned' = DOMAIN owned \cup {calls}
        /\ owned'[calls].from = from /\ owned'[calls].words = wanted
        /\ owned'[calls].ptr = from + header
        /\ \A k \in DOMAIN owned : owned'[k] = owned[k]
    BY Handed
  <1>5. owned'[calls].from \in Nat /\ owned'[calls].words \in Nat /\ owned'[calls].ptr \in Nat
    BY <1>1, <1>4
  <1> QED  BY <1>2, <1>3, <1>4, <1>5, Zenon

\* LockFreePool::Allocate, from a list that is sound as long as all was clean.
LEMMA PoolAllocateKeeps ==
    ASSUME HPInv, NEW p \in Pools, NEW wanted \in Nat, NEW header \in {0, 1},
           PoolAllocate(p, wanted, header), calls < MaxCalls, calls' = calls + 1
    PROVE  HPInv'
  <1>1. /\ HPTypes /\ Placed /\ UNCHANGED <<arena, offset, allocated, torn>>
        /\ freeNodes[p] \in Seq(Nat)
    <2>1. HPTypes /\ Placed
      BY DEF HPInv
    <2>2. UNCHANGED <<arena, offset, allocated, torn>>
      BY DEF PoolAllocate
    <2>3. freeNodes \in [Pools -> Seq(Nat)]
      BY <2>1 DEF HPTypes
    <2> QED  BY <2>1, <2>2, <2>3
  <1>2. calls' \in 0 .. MaxCalls
    <2>1. calls \in Nat
      BY <1>1 DEF HPTypes
    <2>2. MaxCalls \in Nat
      BY HPConstantsAssumption DEF HPConstantsAssumption
    <2> QED  BY <2>1, <2>2
  <1>3. ASSUME freeNodes' \in [Pools -> Seq(Nat)], clean' \in BOOLEAN,
               \A k \in DOMAIN owned' :
                  /\ k \in 0 .. calls' - 1
                  /\ owned'[k].from \in Nat /\ owned'[k].words \in Nat /\ owned'[k].ptr \in Nat,
               Placed', clean' => ArenaInv' /\ \A q \in Pools : PoolInv(q)'
        PROVE  HPInv'
    BY <1>1, <1>2, <1>3 DEF HPInv, HPTypes
  <1>4. CASE Refuse /\ UNCHANGED freeNodes
    <2>1. \A k \in DOMAIN owned' : k \in 0 .. calls' - 1
      <3>1. 0 .. calls - 1 \subseteq 0 .. calls' - 1
        <4>1. calls \in Nat /\ calls' = calls + 1
          BY <1>1, HPConstantsAssumption DEF HPConstantsAssumption, HPTypes
        <4> QED  BY <4>1
      <3> QED  BY <1>1, <1>4, <3>1 DEF HPTypes, Refuse
    <2>2. clean' => ArenaInv' /\ \A q \in Pools : PoolInv(q)'
      BY <1>1, <1>4, ArenaKept, PoolKept DEF HPInv, Refuse, PoolInv
    <2> QED  BY <1>1, <1>3, <1>4, <2>1, <2>2 DEF HPTypes, Placed, Refuse
  <1>5. ASSUME NEW a \in Nat, NEW served, Hand(PoolArea(p), a, wanted, header, served),
               freeNodes' \in [Pools -> Seq(Nat)],
               clean' => ArenaInv' /\ \A q \in Pools : PoolInv(q)',
               served \in BOOLEAN
        PROVE  HPInv'
    <2>1. Placed'
      <3>1. /\ DOMAIN owned' = DOMAIN owned \cup {calls}
            /\ owned'[calls].area = PoolArea(p)
            /\ \A k \in DOMAIN owned : owned'[k] = owned[k]
        BY <1>1, <1>5, Handed
      <3> QED  BY <1>1, <3>1 DEF Placed
    <2>2. clean' \in BOOLEAN
      BY <1>1, <1>5, Handed DEF HPTypes
    <2> QED  BY <1>1, <1>3, <1>5, <2>1, <2>2, HandedTypes
  <1>6. CASE /\ p \in torn /\ UNCHANGED freeNodes
             /\ \E a \in PoolWords : Hand(PoolArea(p), a, wanted, header, FALSE)
    <2>1. PICK a \in PoolWords : Hand(PoolArea(p), a, wanted, header, FALSE)
      BY <1>6
    <2>2. a \in Nat
      BY HPConstantsAssumption DEF HPConstantsAssumption, PoolWords
    <2>3. ~clean'
      BY <1>1, <2>1, Handed
    <2> QED  BY <1>1, <1>5, <1>6, <2>1, <2>2, <2>3 DEF HPTypes
  <1>7. CASE /\ p \notin torn /\ freeNodes[p] # <<>>
             /\ freeNodes' = [freeNodes EXCEPT ![p] = Tail(@)]
             /\ Hand(PoolArea(p), Head(freeNodes[p]), wanted, header, wanted <= NodeWords)
    <2> DEFINE list == freeNodes[p]
               a == Head(list)
    <2>1. /\ list \in Seq(Nat) /\ Len(list) \in Nat \ {0} /\ DOMAIN list = 1 .. Len(list)
          /\ a = list[1] /\ a \in Nat /\ Tail(list) \in Seq(Nat)
          /\ DOMAIN Tail(list) = 1 .. Len(list) - 1
          /\ \A i \in 1 .. Len(list) - 1 : Tail(list)[i] = list[i + 1]
      BY <1>1, <1>7
    <2>2. /\ freeNodes' \in [Pools -> Seq(Nat)] /\ freeNodes'[p] = Tail(list)
          /\ \A q \in Pools \ {p} : freeNodes'[q] = freeNodes[q]
      BY <1>1, <1>7, <2>1 DEF HPTypes
    <2>3. ASSUME clean'
          PROVE  ArenaInv' /\ \A q \in Pools : PoolInv(q)'
      <3>1. clean /\ wanted <= NodeWords
        <4>1. clean' = (clean /\ wanted <= NodeWords)
          BY <1>7 DEF Hand
        <4> QED  BY <2>3, <4>1
      <3>2. ArenaInv /\ \A q \in Pools : PoolInv(q)
        BY <3>1 DEF HPInv
      <3>3. ArenaInv'
        BY <1>1, <1>7, <3>2, ArenaKept, Handed, AreasDiffer
      <3>4. \A q \in Pools \ {p} : PoolInv(q)'
        <4> SUFFICES ASSUME NEW q \in Pools \ {p} PROVE PoolInv(q)'
          OBVIOUS
        <4>1. \A k \in DOMAIN owned' :
                owned'[k].area = PoolArea(q) => k \in DOMAIN owned /\ owned'[k] = owned[k]
          BY <1>1, <1>7, Handed, AreasDiffer
        <4>2. PoolInv(q) /\ q \notin torn'
          BY <1>1, <3>2 DEF PoolInv
        <4> QED  BY <2>2, <4>1, <4>2, PoolKept
      <3> HIDE DEF a
      <3>5. /\ OnList(p)' \subseteq OnList(p) \ {a} /\ a \in OnList(p)
            /\ IsInjective(freeNodes'[p])
        <4>1. /\ \A i \in 1 .. Len(list) - 1 : i + 1 \in 1 .. Len(list) /\ i + 1 # 1
              /\ 1 \in 1 .. Len(list)
          BY <2>1
        <4>2. \A i, j \in 1 .. Len(list) : list[i] = list[j] => i = j
          BY <2>1, <3>2 DEF PoolInv, IsInjective
        <4>3. \A i, j \in 1 .. Len(list) - 1 : i + 1 = j + 1 => i = j
          BY <2>1
        <4> HIDE DEF list
        <4>4. \A i \in 1 .. Len(list) - 1 : Tail(list)[i] # a
          BY <2>1, <4>1, <4>2
        <4>5. OnList(p)' = {Tail(list)[i] : i \in 1 .. Len(list) - 1}
          BY <2>1, <2>2 DEF OnList, ToSet
        <4>6. OnList(p) = {list[i] : i \in 1 .. Len(list)}
          BY <2>1 DEF OnList, ToSet, list
        <4>7. IsInjective(freeNodes'[p])
          <5>1. ASSUME NEW i \in 1 .. Len(list) - 1, NEW j \in 1 .. Len(list) - 1,
                       Tail(list)[i] = Tail(list)[j]
                PROVE  i = j
            <6>1. list[i + 1] = list[j + 1]
              BY <2>1, <5>1
            <6> QED  BY <4>1, <4>2, <4>3, <6>1
          <5> QED  BY <2>1, <2>2, <5>1 DEF IsInjective
        <4> QED  BY <2>1, <4>1, <4>4, <4>5, <4>6, <4>7
      <3>6. PoolInv(p)'
        <4>1. /\ DOMAIN owned' = DOMAIN owned \cup {calls} /\ calls \notin DOMAIN owned
              /\ \A k \in DOMAIN owned : owned'[k] = owned[k]
          BY <1>1, <1>7, Handed
        <4>2. owned'[calls].from = a /\ owned'[calls].words = wanted
          BY <1>1, <1>7, Handed DEF a
        <4>3. PoolInv(p)
          BY <3>2
        <4>4. ASSUME NEW k \in DOMAIN owned', owned'[k].area = PoolArea(p)
              PROVE  /\ owned'[k].from \in Wholes \ OnList(p)' /\ owned'[k].words <= NodeWords
                     /\ \A j \in DOMAIN owned' :
                          owned'[j].area = PoolArea(p) /\ owned'[j].from = owned'[k].from => j = k
          <5>1. CASE k = calls
            BY <3>1, <3>5, <4>1, <4>2, <4>3, <5>1 DEF PoolInv
          <5>2. CASE k # calls
            BY <3>5, <4>1, <4>2, <4>3, <4>4, <5>2 DEF PoolInv
          <5> QED  BY <5>1, <5>2
        <4> QED  BY <1>1, <3>5, <4>3, <4>4 DEF PoolInv
      <3> QED  BY <3>3, <3>4, <3>6
    <2>4. (wanted <= NodeWords) \in BOOLEAN
      OBVIOUS
    <2> QED  BY <1>5, <1>7, <2>1, <2>2, <2>3, <2>4
  <1> QED  BY <1>4, <1>6, <1>7 DEF PoolAllocate

\* Alignment moves an offset up, by less than the alignment.
LEMMA AlignedUp ==
    /\ \A n \in Nat : Aligned(n) \in Nat
    /\ \A n \in 0 .. BlockWords : n <= Aligned(n) /\ Aligned(n) <= n + Align
  <1>1. /\ {BlockWords, Align, WordRange} \subseteq Nat \ {0}
        /\ 2 * BlockWords + Align < WordRange
    BY HPConstantsAssumption DEF HPConstantsAssumption
  <1>2. \A m \in Nat, a \in Nat \ {0} :
            /\ m \div a \in Nat /\ m % a \in 0 .. a - 1
            /\ m = (a * (m \div a)) + (m % a)
    OBVIOUS
  <1>3. \A a, b \in Nat : a * b \in Nat /\ a * b = b * a
    OBVIOUS
  <1>4. ASSUME NEW n \in Nat
        PROVE  Aligned(n) \in Nat
    <2> DEFINE m == (n + Align - 1) % WordRange
    <2>1. m \in Nat
      <3>1. n + Align - 1 \in Nat /\ WordRange \in Nat \ {0}
        BY <1>1
      <3> DEFINE k == n + Align - 1
      <3>2. k \in Nat
        BY <3>1
      <3> HIDE DEF k
      <3>3. k % WordRange \in 0 .. WordRange - 1
        BY <1>2, <3>1, <3>2
      <3>4. k % WordRange \in Nat
        BY <3>1, <3>3
      <3> QED  BY <3>4 DEF k
    <2> HIDE DEF m
    <2>2. (m \div Align) * Align \in Nat
      BY <1>1, <1>2, <1>3, <2>1
    <2> QED  BY <2>2 DEF Aligned, m
  <1>5. ASSUME NEW n \in 0 .. BlockWords
        PROVE  n <= Aligned(n) /\ Aligned(n) <= n + Align
    <2> DEFINE m == n + Align - 1
    <2>1. m \in 0 .. WordRange - 1 /\ m \in Nat
      BY <1>1
    <2>2. m % WordRange = m
      BY <1>1, <2>1
    <2>3. Aligned(n) = (m \div Align) * Align
      BY <2>2 DEF Aligned
    <2>4. m = (Align * (m \div Align)) + (m % Align) /\ m % Align \in 0 .. Align - 1 /\ m \div Align \in Nat
      BY <1>1, <1>2, <2>1
    <2>5. (m \div Align) * Align = Align * (m \div Align) /\ (m \div Align) * Align \in Nat
      BY <1>1, <1>3, <2>4
    <2>6. (m \div Align) * Align = m - (m % Align)
      BY <2>1, <2>4, <2>5
    <2>7. \A r \in 0 .. Align - 1 :
              n <= (n + Align - 1) - r /\ (n + Align - 1) - r <= n + Align
      BY <1>1
    <2> QED  BY <2>3, <2>4, <2>6, <2>7
  <1> QED  BY <1>4, <1>5

\* A range at the end of the current block of the arena, or a first one in a
\* new block, is handed out.
LEMMA ArenaHands ==
    ASSUME HPInv, calls < MaxCalls, calls' = calls + 1, UNCHANGED <<freeNodes, torn>>,
           NEW at \in Nat, NEW wanted \in Nat, NEW header \in {0, 1}, NEW served \in BOOLEAN,
           Hand(ArenaArea(Len(arena')), at, wanted, header, served),
           arena' \in Seq(BOOLEAN), Len(arena') \in {Len(arena), Len(arena) + 1},
           \A j \in 1 .. Len(arena) : arena'[j] = arena[j],
           offset' \in 0 .. WordRange - 1, allocated' \in 0 .. WordRange - 1,
           clean /\ served => /\ arena'[Len(arena')] /\ at + wanted <= BlockWords
                              /\ offset' = at + wanted
                              /\ Len(arena') = Len(arena) => offset <= at
    PROVE  HPInv'
  <1> DEFINE n == Len(arena)
             m == Len(arena')
  <1>1. /\ HPTypes /\ Placed /\ n \in Nat /\ n # 0 /\ m \in Nat /\ m \in {n, n + 1}
    BY DEF HPInv, HPTypes
  <1>2. /\ calls \notin DOMAIN owned /\ DOMAIN owned' = DOMAIN owned \cup {calls}
        /\ owned'[calls].area = ArenaArea(m) /\ owned'[calls].from = at
        /\ owned'[calls].words = wanted
        /\ \A k \in DOMAIN owned : owned'[k] = owned[k]
    BY <1>1, Handed
  <1>3. clean' = (clean /\ served)
    BY DEF Hand
  <1>4. HPTypes'
    <2>1. calls' \in 0 .. MaxCalls
      BY <1>1, HPConstantsAssumption DEF HPConstantsAssumption, HPTypes
    <2>2. clean' \in BOOLEAN
      BY <1>1, <1>3 DEF HPTypes
    <2>3. arena' # <<>>
      BY <1>1
    <2>4. \A k \in DOMAIN owned' :
              /\ k \in 0 .. calls' - 1
              /\ owned'[k].from \in Nat /\ owned'[k].words \in Nat /\ owned'[k].ptr \in Nat
      BY <1>1, HandedTypes
    <2> QED  BY <1>1, <2>1, <2>2, <2>3, <2>4 DEF HPTypes
  <1>5. /\ \A i \in 1 .. n : i \in 1 .. m
        /\ m \in 1 .. m
        /\ \A i \in 1 .. n : i = m => n = m
        /\ \A i \in 1 .. m : i # m => (i \in 1 .. n /\ i # n) \/ (m = n + 1 /\ i \in 1 .. n)
    BY <1>1
  <1> HIDE DEF n, m
  <1>6. Placed'
    BY <1>1, <1>2, <1>5 DEF Placed, n, m
  <1>7. ASSUME clean'
        PROVE  ArenaInv' /\ \A p \in Pools : PoolInv(p)'
    <2>1. /\ clean /\ served /\ arena'[m] /\ at + wanted <= BlockWords /\ offset' = at + wanted
          /\ m = n => offset <= at
          /\ ArenaInv /\ \A p \in Pools : PoolInv(p)
      BY <1>3, <1>7 DEF HPInv, n, m
    <2>2. \A p \in Pools : PoolInv(p)'
      <3> SUFFICES ASSUME NEW p \in Pools PROVE PoolInv(p)'
        OBVIOUS
      <3>1. \A k \in DOMAIN owned' :
              owned'[k].area = PoolArea(p) => k \in DOMAIN owned /\ owned'[k] = owned[k]
        BY <1>2, AreasDiffer
      <3>2. PoolInv(p) /\ p \notin torn' /\ freeNodes'[p] = freeNodes[p]
        BY <2>1 DEF PoolInv
      <3> QED  BY <3>1, <3>2, PoolKept
    <2>3. ASSUME NEW k \in DOMAIN owned, owned[k].area = ArenaArea(m)
          PROVE  m = n /\ owned[k].from + owned[k].words <= at
      <3>1. m \in 1 .. n
        BY <1>1, <2>3, AreasDiffer DEF Placed, n
      <3>2. m = n
        BY <1>1, <3>1
      <3>3. owned[k].from + owned[k].words <= offset
        BY <2>1, <2>3, <3>1, <3>2 DEF ArenaInv, n
      <3> QED  BY <1>1, <2>1, <3>2, <3>3 DEF HPTypes
    <2>4. ASSUME NEW k \in DOMAIN owned', NEW i \in 1 .. m, owned'[k].area = ArenaArea(i)
          PROVE  /\ arena'[i] /\ owned'[k].from + owned'[k].words <= BlockWords
                 /\ i = m => owned'[k].from + owned'[k].words <= offset'
                 /\ \A j \in DOMAIN owned' : j # k /\ owned'[j].area = owned'[k].area =>
                      Apart(owned'[j].from, owned'[j].words, owned'[k].from, owned'[k].words)
      <3>1. CASE k = calls
        <4>1. i = m
          BY <1>2, <2>4, <3>1, AreasDiffer
        <4>2. \A j \in DOMAIN owned : owned[j].area = ArenaArea(m) =>
                  Apart(owned[j].from, owned[j].words, at, wanted)
          BY <2>3 DEF Apart
        <4>3. at + wanted <= BlockWords /\ at + wanted <= offset'
          BY <2>1
        <4> QED  BY <1>2, <2>1, <2>4, <3>1, <4>1, <4>2, <4>3
      <3>2. CASE k \in DOMAIN owned
        <4>1. owned'[k] = owned[k] /\ owned[k].area = ArenaArea(i)
          BY <1>2, <2>4, <3>2
        <4>2. i \in 1 .. n
          BY <1>1, <3>2, <4>1, AreasDiffer DEF Placed, n
        <4>3. /\ arena'[i] /\ owned[k].from + owned[k].words <= BlockWords
              /\ \A j \in DOMAIN owned : j # k /\ owned[j].area = owned[k].area =>
                    Apart(owned[j].from, owned[j].words, owned[k].from, owned[k].words)
          BY <2>1, <3>2, <4>1, <4>2 DEF ArenaInv, n
        <4>4. ASSUME i = m
              PROVE  /\ owned[k].from + owned[k].words <= at
                     /\ owned[k].from + owned[k].words <= offset'
          <5>1. owned[k].from + owned[k].words <= at
            BY <2>3, <3>2, <4>1, <4>4
          <5>2. owned[k].from \in Nat /\ owned[k].words \in Nat
            BY <1>1, <3>2 DEF HPTypes
          <5> QED  BY <2>1, <5>1, <5>2
        <4>5. ASSUME calls # k, owned'[calls].area = owned[k].area
              PROVE  Apart(at, wanted, owned[k].from, owned[k].words)
          <5>1. i = m
            BY <1>2, <4>1, <4>5, AreasDiffer
          <5> QED  BY <4>4, <5>1 DEF Apart
        <4> QED  BY <1>2, <4>1, <4>3, <4>4, <4>5
      <3> QED  BY <1>2, <3>1, <3>2
    <2>5. arena'[Len(arena')] => offset' <= BlockWords
      BY <2>1
    <2> QED  BY <2>2, <2>4, <2>5 DEF ArenaInv, m
  <1> QED  BY <1>4, <1>6, <1>7 DEF HPInv

\* The current block of the arena turns out to have no memory.
LEMMA ArenaRefuses ==
    ASSUME HPInv, calls < MaxCalls, calls' = calls + 1, UNCHANGED <<freeNodes, torn>>, Refuse,
           arena' \in Seq(BOOLEAN), Len(arena') \in {Len(arena), Len(arena) + 1},
           \A j \in 1 .. Len(arena) : arena'[j] = arena[j],
           offset' \in 0 .. WordRange - 1, allocated' \in 0 .. WordRange - 1,
           ~ arena'[Len(arena')]
    PROVE  HPInv'
  <1> DEFINE n == Len(arena)
             m == Len(arena')
  <1>1. /\ HPTypes /\ Placed /\ n \in Nat /\ n # 0 /\ m \in Nat /\ m \in {n, n + 1}
        /\ owned' = owned /\ clean' = clean
    BY DEF HPInv, HPTypes, Refuse
  <1>2. HPTypes'
    <2>1. calls' \in 0 .. MaxCalls /\ 0 .. calls - 1 \subseteq 0 .. calls' - 1
      BY <1>1, HPConstantsAssumption DEF HPConstantsAssumption, HPTypes
    <2>2. arena' # <<>>
      BY <1>1
    <2> QED  BY <1>1, <2>1, <2>2 DEF HPTypes
  <1>3. \A i \in 1 .. n : i \in 1 .. m
    BY <1>1
  <1> HIDE DEF n, m
  <1>4. Placed'
    BY <1>1, <1>3 DEF Placed, n, m
  <1>5. ASSUME clean'
        PROVE  ArenaInv' /\ \A p \in Pools : PoolInv(p)'
    <2>1. ArenaInv /\ \A p \in Pools : PoolInv(p)
      BY <1>1, <1>5 DEF HPInv
    <2>2. \A p \in Pools : PoolInv(p)'
      BY <1>1, <2>1, PoolKept DEF PoolInv
    <2>3. ASSUME NEW k \in DOMAIN owned, NEW i \in 1 .. m, owned[k].area = ArenaArea(i)
          PROVE  i \in 1 .. n /\ i # m
      <3>1. i \in 1 .. n
        BY <1>1, <2>3, AreasDiffer DEF Placed, n
      <3>2. arena'[i]
        BY <2>1, <2>3, <3>1 DEF ArenaInv, n
      <3> QED  BY <3>1, <3>2 DEF m
    <2> QED  BY <1>1, <2>1, <2>2, <2>3 DEF ArenaInv, n, m
  <1> QED  BY <1>2, <1>4, <1>5 DEF HPInv

\* ArenaAllocator::Allocate.
LEMMA ArenaAllocateKeeps ==
    ASSUME HPInv, NEW size \in Nat, NEW wanted \in Nat, NEW header \in {0, 1},
           ArenaAllocate(size, wanted, header), calls < MaxCalls, calls' = calls + 1
    PROVE  HPInv'
  <1> DEFINE at == Aligned(offset)
             n == Len(arena)
  <1>1. /\ HPTypes /\ UNCHANGED <<freeNodes, torn>>
        /\ arena \in Seq(BOOLEAN) /\ n \in Nat /\ n # 0 /\ arena[n] \in BOOLEAN
        /\ Last(arena) = arena[n]
        /\ offset \in Nat /\ at \in Nat
    <2>1. /\ HPTypes /\ UNCHANGED <<freeNodes, torn>> /\ arena \in Seq(BOOLEAN)
          /\ offset \in Nat /\ n \in Nat /\ n # 0
      BY DEF HPInv, HPTypes, ArenaAllocate
    <2>2. arena[n] \in BOOLEAN
      BY <2>1
    <2> QED  BY <2>1, <2>2, AlignedUp DEF Last
  <1>2. /\ BlockWords \in Nat /\ WordRange \in Nat \ {0} /\ Align \in Nat
        /\ 2 * BlockWords + Align < WordRange
    BY HPConstantsAssumption DEF HPConstantsAssumption
  <1>3. ASSUME NEW a \in Nat, Bump(a, size)
        PROVE  /\ offset' \in 0 .. WordRange - 1 /\ allocated' \in 0 .. WordRange - 1
               /\ a + size < WordRange => offset' = a + size
    <2>1. a + size \in Nat /\ allocated + size \in Nat
      BY <1>1 DEF HPTypes
    <2>2. \A x \in Nat : /\ x % WordRange \in 0 .. WordRange - 1
                         /\ x < WordRange => x % WordRange = x
      BY <1>2
    <2> QED  BY <1>3, <2>1, <2>2 DEF Bump
  <1>4. ASSUME clean
        PROVE  arena[n] => offset <= BlockWords
    BY <1>4 DEF HPInv, ArenaInv
  <1>5. CASE /\ ~NeedsBlock(size) /\ Bump(at, size) /\ UNCHANGED arena
             /\ HandArena(n, Last(arena), at, wanted, header, size)
    <2> DEFINE served == arena[n] /\ wanted = size /\ wanted <= BlockWords
    <2>1. /\ arena' = arena /\ Len(arena') = n
          /\ offset' \in 0 .. WordRange - 1 /\ allocated' \in 0 .. WordRange - 1
      BY <1>1, <1>3, <1>5
    <2>2. CASE arena[n] \/ at # 0
      <3>1. Hand(ArenaArea(Len(arena')), at, wanted, header, served)
        BY <1>1, <1>5, <2>1, <2>2 DEF HandArena
      <3>2. ASSUME clean, served
            PROVE  /\ arena'[Len(arena')] /\ at + wanted <= BlockWords /\ offset' = at + wanted
                   /\ offset <= at
        <4>1. offset \in 0 .. BlockWords
          BY <1>1, <1>2, <1>4, <3>2
        <4>2. offset <= at /\ at <= offset + Align
          BY <4>1, AlignedUp
        <4>3. at + size < WordRange
          BY <1>1, <1>2, <3>2, <4>1, <4>2
        <4>4. offset' = at + size /\ (at + size) % WordRange = at + size
          <5>1. offset' = at + size
            BY <1>1, <1>3, <1>5, <4>3
          <5> QED  BY <1>5, <5>1 DEF Bump
        <4>5. at + size <= BlockWords
          BY <1>1, <1>2, <1>5, <4>4 DEF NeedsBlock
        <4> QED  BY <2>1, <3>2, <4>2, <4>4, <4>5
      <3>3. served \in BOOLEAN
        BY <1>1
      <3> HIDE DEF served, at
      <3> QED  BY <1>1, <2>1, <3>1, <3>2, <3>3, ArenaHands
    <2>3. CASE ~(arena[n] \/ at # 0)
      <3>1. Refuse
        BY <1>1, <1>5, <2>3 DEF HandArena
      <3> QED  BY <1>1, <2>1, <2>3, <3>1, ArenaRefuses
    <2> QED  BY <2>2, <2>3
  <1>6. ASSUME Bump(0, size), NEW backed \in BOOLEAN, arena' = Append(arena, backed),
               HandArena(n + 1, backed, 0, wanted, header, size)
        PROVE  HPInv'
    <2> DEFINE served == backed /\ wanted = size /\ wanted <= BlockWords
    <2>1. /\ arena' \in Seq(BOOLEAN) /\ Len(arena') = n + 1 /\ arena'[n + 1] = backed
          /\ \A j \in 1 .. n : arena'[j] = arena[j]
      BY <1>1, <1>6
    <2>2. /\ offset' \in 0 .. WordRange - 1 /\ allocated' \in 0 .. WordRange - 1
          /\ size < WordRange => offset' = size
      BY <1>3, <1>6
    <2>3. CASE backed
      <3>1. Hand(ArenaArea(Len(arena')), 0, wanted, header, served)
        BY <1>6, <2>1, <2>3 DEF HandArena
      <3>2. ASSUME served
            PROVE  /\ arena'[Len(arena')] /\ 0 + wanted <= BlockWords /\ offset' = 0 + wanted
        BY <1>2, <2>1, <2>2, <3>2
      <3>3. served \in BOOLEAN /\ Len(arena') # n
        BY <1>1, <2>1
      <3> HIDE DEF served
      <3> QED  BY <1>1, <2>1, <2>2, <3>1, <3>2, <3>3, ArenaHands
    <2>4. CASE ~backed
      <3>1. Refuse
        BY <1>6, <2>4 DEF HandArena
      <3> QED  BY <1>1, <2>1, <2>2, <2>4, <3>1, ArenaRefuses
    <2> QED  BY <2>3, <2>4
  <1> QED  BY <1>5, <1>6 DEF ArenaAllocate

\* What is left when ranges are given up.
LEMMA GivenUp ==
    ASSUME NEW ks, GiveUp(ks)
    PROVE  /\ DOMAIN owned' = DOMAIN owned \ ks
           /\ \A k \in DOMAIN owned' : k \in DOMAIN owned /\ owned'[k] = owned[k]
  BY DEF GiveUp

\* The types of what is left.
LEMMA GivenUpTypes ==
    ASSUME HPTypes, NEW ks, GiveUp(ks), calls < MaxCalls, calls' = calls + 1
    PROVE  /\ calls' \in 0 .. MaxCalls
           /\ \A k \in DOMAIN owned' :
                /\ k \in 0 .. calls' - 1
                /\ owned'[k].from \in Nat /\ owned'[k].words \in Nat /\ owned'[k].ptr \in Nat
  <1>1. calls' \in 0 .. MaxCalls /\ 0 .. calls - 1 \subseteq 0 .. calls' - 1
    BY HPConstantsAssumption DEF HPConstantsAssumption, HPTypes
  <1> QED  BY <1>1, GivenUp DEF HPTypes

\* ArenaAllocator::Reset.
LEMMA ResetKeeps ==
    ASSUME HPInv, Reset, calls < MaxCalls, calls' = calls + 1
    PROVE  HPInv'
  <1> DEFINE ks == {k \in DOMAIN owned : owned[k].area = ArenaArea(Len(arena))}
  <1>1. /\ HPTypes /\ Placed /\ GiveUp(ks) /\ offset' = 0
        /\ UNCHANGED <<arena, allocated, freeNodes, torn, clean>>
    BY DEF HPInv, Reset
  <1>2. /\ DOMAIN owned' = DOMAIN owned \ ks
        /\ \A k \in DOMAIN owned' : k \in DOMAIN owned /\ owned'[k] = owned[k]
    BY <1>1, GivenUp
  <1>3. HPTypes'
    <2>1. offset' \in 0 .. WordRange - 1
      BY <1>1, HPConstantsAssumption DEF HPConstantsAssumption
    <2> HIDE DEF ks
    <2> QED  BY <1>1, <2>1, GivenUpTypes DEF HPTypes
  <1>4. Placed'
    BY <1>1, <1>2 DEF Placed
  <1>5. ASSUME clean'
        PROVE  ArenaInv' /\ \A p \in Pools : PoolInv(p)'
    <2>1. ArenaInv /\ \A p \in Pools : PoolInv(p)
      BY <1>1, <1>5 DEF HPInv
    <2>2. \A p \in Pools : PoolInv(p)'
      BY <1>1, <1>2, <2>1, PoolKept DEF PoolInv
    <2>3. ArenaInv'
      <3>1. offset' <= BlockWords
        BY <1>1, HPConstantsAssumption DEF HPConstantsAssumption
      <3>2. \A k \in DOMAIN owned' : owned'[k].area # ArenaArea(Len(arena))
        BY <1>2
      <3> QED  BY <1>1, <1>2, <2>1, <3>1, <3>2 DEF ArenaInv
    <2> QED  BY <2>2, <2>3
  <1> QED  BY <1>3, <1>4, <1>5 DEF HPInv

\* Freeing a node: it was on no list, and nobody else has it.
LEMMA NodeFreed ==
    ASSUME HPTypes, NEW p \in Pools, PoolInv(p), NEW k \in DOMAIN owned,
           owned[k].area = PoolArea(p), owned[k].ptr = owned[k].from, GiveUp({k}),
           freeNodes' = [freeNodes EXCEPT ![p] = <<owned[k].ptr>> \o @],
           torn' = IF Overwritten(p, owned[k].ptr, NodeWords) = {}
                   THEN torn ELSE torn \cup {p}
    PROVE  torn' = torn /\ PoolInv(p)'
  <1> DEFINE from == owned[k].from
             list == freeNodes[p]
  <1>1. /\ from \in Wholes \ OnList(p) /\ p \notin torn /\ OnList(p) \subseteq Wholes
        /\ IsInjective(list)
        /\ \A j \in DOMAIN owned : owned[j].area = PoolArea(p) /\ owned[j].from = from => j = k
    BY DEF PoolInv
  <1>2. /\ list \in Seq(Nat) /\ from \in Nat /\ NodeWords \in Nat \ {0}
        /\ DOMAIN list = 1 .. Len(list)
        /\ freeNodes'[p] = <<from>> \o list
    BY HPConstantsAssumption DEF HPConstantsAssumption, HPTypes
  <1>3. torn' = torn
    <2>1. ASSUME NEW i \in DOMAIN list
          PROVE  /\ list[i] \in Nat
                 /\ list[i] + NodeWords <= from \/ from + NodeWords <= list[i]
      <3>1. list[i] \in OnList(p)
        BY DEF OnList, ToSet
      <3>2. list[i] \in Wholes /\ list[i] # from
        BY <1>1, <3>1
      <3> QED  BY <1>1, <3>2, NodesApart
    <2> HIDE DEF from
    <2>2. \A x, y, n \in Nat : x + n <= y \/ y + n <= x => ~ (x < y + n /\ y < x + n)
      OBVIOUS
    <2>3. Overwritten(p, from, NodeWords) = {}
      BY <1>2, <2>1, <2>2 DEF Overwritten
    <2> QED  BY <2>3 DEF from
  <1>4. OnList(p)' = {from} \cup OnList(p) /\ IsInjective(freeNodes'[p])
    <2> HIDE DEF from, list
    <2>1. /\ DOMAIN (<<from>> \o list) = 1 .. Len(list) + 1 /\ Len(list) \in Nat
          /\ (<<from>> \o list)[1] = from
          /\ \A i \in 1 .. Len(list) : (<<from>> \o list)[i + 1] = list[i]
      BY <1>2
    <2> DEFINE longer == <<from>> \o list
    <2>2. /\ DOMAIN longer = 1 .. Len(list) + 1 /\ longer[1] = from
          /\ \A i \in 1 .. Len(list) : longer[i + 1] = list[i]
      BY <2>1
    <2> HIDE DEF longer
    <2>3. /\ \A i \in 1 .. Len(list) + 1 : i = 1 \/ \E j \in 1 .. Len(list) : i = j + 1
          /\ \A j \in 1 .. Len(list) : j + 1 \in 1 .. Len(list) + 1
          /\ 1 \in 1 .. Len(list) + 1
      <3>1. ASSUME NEW i \in 1 .. Len(list) + 1, i # 1
            PROVE  i - 1 \in 1 .. Len(list) /\ i = (i - 1) + 1
        BY <2>1, <3>1
      <3> QED  BY <2>1, <3>1
    <2>4. ToSet(longer) = {from} \cup ToSet(list)
      <3>1. /\ ToSet(longer) = {longer[i] : i \in 1 .. Len(list) + 1}
            /\ ToSet(list) = {list[i] : i \in 1 .. Len(list)}
        BY <1>2, <2>2, Zenon DEF ToSet
      <3>2. ToSet(longer) \subseteq {from} \cup ToSet(list)
        <4>1. ASSUME NEW i \in 1 .. Len(list) + 1
              PROVE  longer[i] \in {from} \cup ToSet(list)
          <5>1. CASE i = 1
            BY <2>2, <5>1
          <5>2. CASE \E j \in 1 .. Len(list) : i = j + 1
            BY <2>2, <3>1, <5>2
          <5> QED  BY <2>3, <5>1, <5>2
        <4> QED  BY <3>1, <4>1
      <3>3. {from} \cup ToSet(list) \subseteq ToSet(longer)
        BY <2>2, <2>3, <3>1
      <3> QED  BY <3>2, <3>3
    <2>5. IsInjective(longer)
      <3>1. \A i \in 1 .. Len(list) : list[i] # from
        BY <1>1, <1>2 DEF OnList, ToSet, list
      <3>2. \A i, j \in 1 .. Len(list) : list[i] = list[j] => i = j
        BY <1>1, <1>2 DEF IsInjective
      <3> SUFFICES ASSUME NEW i \in 1 .. Len(list) + 1, NEW j \in 1 .. Len(list) + 1,
                          longer[i] = longer[j]
                   PROVE  i = j
        BY <2>2, Zenon DEF IsInjective
      <3>3. CASE i = 1 /\ j = 1
        BY <3>3
      <3>4. CASE i = 1 /\ j # 1
        BY <2>2, <2>3, <3>1, <3>4
      <3>5. CASE i # 1 /\ j = 1
        BY <2>2, <2>3, <3>1, <3>5
      <3>6. CASE i # 1 /\ j # 1
        BY <2>2, <2>3, <3>2, <3>6
      <3> QED  BY <3>3, <3>4, <3>5, <3>6
    <2> QED  BY <1>2, <2>4, <2>5 DEF OnList, longer, list
  <1>5. /\ DOMAIN owned' = DOMAIN owned \ {k}
        /\ \A j \in DOMAIN owned' : j \in DOMAIN owned /\ owned'[j] = owned[j]
    BY GivenUp
  <1>6. ASSUME NEW j \in DOMAIN owned', owned'[j].area = PoolArea(p)
        PROVE  /\ owned'[j].from \in Wholes \ OnList(p)' /\ owned'[j].words <= NodeWords
               /\ \A i \in DOMAIN owned' :
                    owned'[i].area = PoolArea(p) /\ owned'[i].from = owned'[j].from => i = j
    <2>1. owned[j].from # from
      BY <1>1, <1>5, <1>6
    <2> HIDE DEF from
    <2> QED  BY <1>4, <1>5, <1>6, <2>1 DEF PoolInv
  <1> QED  BY <1>1, <1>3, <1>4, <1>6 DEF PoolInv

\* HighPerformanceMemoryManager::Free.
LEMMA FreeKeeps ==
    ASSUME HPInv, NEW k \in DOMAIN owned, HPFree(k), calls < MaxCalls, calls' = calls + 1
    PROVE  HPInv'
  <1> DEFINE r == owned[k]
  <1>1. /\ HPTypes /\ Placed /\ GiveUp({k}) /\ UNCHANGED <<arena, offset, allocated>>
    BY DEF HPInv, HPFree
  <1>2. /\ DOMAIN owned' = DOMAIN owned \ {k}
        /\ \A j \in DOMAIN owned' : j \in DOMAIN owned /\ owned'[j] = owned[j]
    BY <1>1, GivenUp
  <1>3. Placed'
    BY <1>1, <1>2 DEF Placed
  <1>4. ASSUME freeNodes' \in [Pools -> Seq(Nat)], torn' \subseteq Pools, clean' \in BOOLEAN,
               clean' => ArenaInv' /\ \A q \in Pools : PoolInv(q)'
        PROVE  HPInv'
    <2>1. HPTypes'
      BY <1>1, <1>4, GivenUpTypes DEF HPTypes
    <2> QED  BY <1>3, <1>4, <2>1 DEF HPInv
  <1>5. ASSUME NEW p \in Pools, IsFromPool(p, r),
               freeNodes' = [freeNodes EXCEPT ![p] = <<r.ptr>> \o @],
               torn' = IF Overwritten(p, r.ptr, NodeWords) = {} THEN torn ELSE torn \cup {p},
               clean' = (clean /\ r.ptr = r.from)
        PROVE  HPInv'
    <2>1. freeNodes' \in [Pools -> Seq(Nat)]
      <3>1. <<r.ptr>> \o freeNodes[p] \in Seq(Nat)
        BY <1>1 DEF HPTypes
      <3> QED  BY <1>1, <1>5, <3>1 DEF HPTypes
    <2>2. torn' \subseteq Pools /\ clean' \in BOOLEAN
      BY <1>1, <1>5 DEF HPTypes
    <2>3. ASSUME clean'
          PROVE  ArenaInv' /\ \A q \in Pools : PoolInv(q)'
      <3>1. clean /\ r.ptr = r.from /\ r.area = PoolArea(p)
        BY <1>5, <2>3 DEF IsFromPool
      <3>2. ArenaInv /\ \A q \in Pools : PoolInv(q)
        BY <3>1 DEF HPInv
      <3>3. torn' = torn /\ PoolInv(p)'
        BY <1>1, <1>5, <3>1, <3>2, NodeFreed
      <3>4. ArenaInv'
        BY <1>1, <1>2, <3>2, ArenaKept
      <3>5. ASSUME NEW q \in Pools, q # p
            PROVE  PoolInv(q)'
        <4>1. freeNodes'[q] = freeNodes[q]
          BY <1>1, <1>5, <3>5 DEF HPTypes
        <4>2. PoolInv(q) /\ q \notin torn'
          BY <3>2, <3>3 DEF PoolInv
        <4> QED  BY <1>2, <4>1, <4>2, PoolKept
      <3> QED  BY <3>3, <3>4, <3>5
    <2> QED  BY <1>4, <2>1, <2>2, <2>3
  <1>6. CASE UNCHANGED <<freeNodes, torn, clean>>
    <2>1. ASSUME clean'
          PROVE  ArenaInv' /\ \A q \in Pools : PoolInv(q)'
      <3>1. ArenaInv /\ \A q \in Pools : PoolInv(q)
        BY <1>6, <2>1 DEF HPInv
      <3> QED  BY <1>1, <1>2, <1>6, <3>1, ArenaKept, PoolKept DEF PoolInv
    <2> QED  BY <1>1, <1>4, <1>6, <2>1 DEF HPTypes
  <1> QED  BY <1>5, <1>6 DEF HPFree

\* A caller that stores to all it holds tears no list while all is clean.
LEMMA FillKeeps ==
    ASSUME HPInv, NEW k \in DOMAIN owned, Fill(k)
    PROVE  HPInv'
  <1>1. /\ HPTypes /\ torn' \subseteq Pools
        /\ UNCHANGED <<arena, offset, allocated, freeNodes, owned, clean, calls>>
    BY DEF HPInv, HPTypes, Fill
  <1>2. ~clean
    <2> SUFFICES ASSUME clean PROVE FALSE
      OBVIOUS
    <2>1. PICK p \in Pools :
            owned[k].area = PoolArea(p) /\ Overwritten(p, owned[k].from, owned[k].words) # {}
      BY DEF Fill
    <2>2. PICK i \in DOMAIN freeNodes[p] :
            /\ freeNodes[p][i] < owned[k].from + owned[k].words
            /\ owned[k].from < freeNodes[p][i] + NodeWords
      BY <2>1 DEF Overwritten
    <2>3. PoolInv(p)
      BY DEF HPInv
    <2>4. /\ freeNodes[p][i] \in Wholes /\ owned[k].from \in Wholes
          /\ freeNodes[p][i] # owned[k].from /\ owned[k].words <= NodeWords
      BY <2>1, <2>2, <2>3 DEF PoolInv, OnList, ToSet
    <2>5. /\ freeNodes[p][i] \in Nat /\ owned[k].from \in Nat
          /\ \/ freeNodes[p][i] + NodeWords <= owned[k].from
             \/ owned[k].from + NodeWords <= freeNodes[p][i]
      BY <2>4, NodesApart
    <2>6. NodeWords \in Nat /\ owned[k].words \in Nat
      BY <1>1, HPConstantsAssumption DEF HPConstantsAssumption, HPTypes
    <2> QED  BY <2>2, <2>4, <2>5, <2>6
  <1>3. HPTypes' /\ Placed' /\ ~clean'
    BY <1>1, <1>2 DEF HPInv, HPTypes, Placed
  <1> QED  BY <1>3 DEF HPInv

\* HighPerformanceMemoryManager::Allocate.
LEMMA AllocateKeeps ==
    ASSUME HPInv, NEW size \in Nat, NEW wanted \in Nat, NEW header \in {0, 1},
           HPAllocate(size, wanted, header), calls < MaxCalls, calls' = calls + 1
    PROVE  HPInv'
  BY PoolAllocateKeeps, ArenaAllocateKeeps DEF HPAllocate, Pools

\* Every call, and every store of a caller, keeps the invariant.
LEMMA HPSteps == HPInv /\ [HPNext]_hpVars => HPInv'
  <1> SUFFICES ASSUME HPInv, [HPNext]_hpVars PROVE HPInv'
    OBVIOUS
  <1>1. /\ RawSizes \subseteq Nat /\ ObjectSizes \subseteq Nat
        /\ ArrayShapes \subseteq [elem : Nat, count : Nat] /\ WordRange \in Nat \ {0}
    BY HPConstantsAssumption DEF HPConstantsAssumption
  <1>2. \A n \in Nat : n % WordRange \in Nat
    BY <1>1
  <1> DEFINE Called == calls < MaxCalls /\ calls' = calls + 1
  <1>3. ASSUME Called, NEW s \in RawSizes, HPAllocate(s, s, 0)
        PROVE  HPInv'
    BY <1>1, <1>3, AllocateKeeps
  <1>4. ASSUME Called, NEW s \in ObjectSizes, HPAllocateObject(s)
        PROVE  HPInv'
    <2>1. s + 1 \in Nat /\ (s + 1) % WordRange \in Nat
      BY <1>1, <1>2
    <2> QED  BY <1>4, <2>1, AllocateKeeps DEF HPAllocateObject
  <1>5. ASSUME Called, NEW a \in ArrayShapes, HPAllocateArray(a)
        PROVE  HPInv'
    <2>1. a.elem \in Nat /\ a.count \in Nat
      BY <1>1
    <2>2. \A m, n \in Nat : m * n \in Nat
      OBVIOUS
    <2>3. 1 + a.elem * a.count \in Nat
      BY <2>1, <2>2
    <2>4. (1 + a.elem * a.count) % WordRange \in Nat
      BY <1>2, <2>3
    <2> QED  BY <1>5, <2>3, <2>4, AllocateKeeps DEF HPAllocateArray
  <1>6. ASSUME Called, NEW k \in DOMAIN owned, HPFree(k)
        PROVE  HPInv'
    BY <1>6, FreeKeeps
  <1>7. CASE Called /\ Reset
    BY <1>7, ResetKeeps
  <1>8. ASSUME NEW k \in DOMAIN owned, Fill(k)
        PROVE  HPInv'
    BY <1>8, FillKeeps
  <1>9. CASE UNCHANGED hpVars
    BY <1>9 DEF hpVars, HPInv, HPTypes, Placed, ArenaInv, PoolInv, OnList
  <1> QED  BY <1>3, <1>4, <1>5, <1>6, <1>7, <1>8, <1>9 DEF HPNext

\* Initially every node is on its list, once.
LEMMA HPStarts == HPInit => HPInv
  <1> SUFFICES ASSUME HPInit PROVE HPInv
    OBVIOUS
  <1> USE HPConstantsAssumption DEF HPConstantsAssumption
  <1> DEFINE list == [i \in 1 .. PoolNodes |-> NodeWords * (i - 1)]
  <1>1. /\ owned = <<>> /\ DOMAIN owned = {} /\ arena = <<TRUE>> /\ Len(arena) = 1
        /\ offset = 0 /\ torn = {} /\ \A p \in Pools : freeNodes[p] = list
    BY DEF HPInit
  <1>2. \A m, n \in Nat : m * n \in Nat
    OBVIOUS
  <1>3. \A i \in 1 .. PoolNodes : i - 1 \in 0 .. PoolNodes - 1 /\ NodeWords * (i - 1) \in Nat
    BY <1>2
  <1>4. list \in Seq(Nat)
    <2>1. list \in [1 .. PoolNodes -> Nat]
      BY <1>3
    <2>2. PoolNodes \in Nat
      OBVIOUS
    <2> HIDE DEF list
    <2> QED  BY <2>1, <2>2
  <1>5. HPTypes
    <2>1. arena \in Seq(BOOLEAN) /\ arena # <<>>
      BY <1>1
    <2>2. freeNodes \in [Pools -> Seq(Nat)]
      BY <1>4 DEF HPInit
    <2> QED  BY <1>1, <2>1, <2>2 DEF HPInit, HPTypes
  <1>6. \A i, j \in 1 .. PoolNodes : list[i] = list[j] => i = j
    <2>1. \A n \in Nat \ {0} : \A a, b \in Nat : n * a = n * b => a = b
      <3> SUFFICES ASSUME NEW n \in Nat \ {0}, NEW a \in Nat, NEW b \in Nat, n * a = n * b
                   PROVE  a = b
        OBVIOUS
      <3>1. \A x, y \in Nat : x < y => n * x + n <= n * y
        OBVIOUS
      <3>2. n * a \in Nat /\ n * b \in Nat
        OBVIOUS
      <3> QED  BY <3>1, <3>2
    <2>2. ASSUME NEW i \in 1 .. PoolNodes, NEW j \in 1 .. PoolNodes, list[i] = list[j]
          PROVE  i = j
      <3>1. NodeWords * (i - 1) = NodeWords * (j - 1) /\ i - 1 \in Nat /\ j - 1 \in Nat
        BY <2>2
      <3>2. i - 1 = j - 1
        BY <2>1, <3>1
      <3> QED  BY <3>2
    <2> QED  BY <2>2
  <1>7. ASSUME NEW p \in Pools
        PROVE  PoolInv(p)
    <2>1. OnList(p) \subseteq Wholes
      <3>1. \A i \in 1 .. PoolNodes : list[i] \in Wholes
        BY <1>3 DEF Wholes
      <3>2. OnList(p) = {list[i] : i \in DOMAIN list} /\ DOMAIN list = 1 .. PoolNodes
        <4>1. freeNodes[p] = list /\ DOMAIN list = 1 .. PoolNodes
          BY <1>1
        <4> HIDE DEF list
        <4> QED  BY <4>1 DEF OnList, ToSet
      <3> HIDE DEF list
      <3> QED  BY <3>1, <3>2
    <2>2. IsInjective(freeNodes[p])
      <3>1. DOMAIN list = 1 .. PoolNodes /\ freeNodes[p] = list
        BY <1>1
      <3> HIDE DEF list
      <3> QED  BY <1>6, <3>1 DEF IsInjective
    <2> QED  BY <1>1, <2>1, <2>2 DEF PoolInv
  <1>8. ArenaInv /\ Placed
    BY <1>1 DEF ArenaInv, Placed
  <1> QED  BY <1>5, <1>7, <1>8 DEF HPInv

\* The pools, the arena and what callers hold of them.
LEMMA HPInvariant == HPSpec => []HPInv
  BY HPStarts, HPSteps, PTL DEF HPSpec

\* As long as requests fit a node or a block of the arena, malloc serves the
\* arena and only what Allocate returned is freed, callers hold ranges that
\* overlap neither each other nor a free node.
THEOREM HPBlocksStayDisjoint == HPSpec => []HPBlocksDisjoint
  <1>1. HPInv => HPBlocksDisjoint
    <2> SUFFICES ASSUME HPInv, clean
                 PROVE  /\ \A k \in DOMAIN owned : InItsArea(owned[k])
                        /\ \A j, k \in DOMAIN owned :
                             j # k /\ owned[j].area = owned[k].area =>
                                Apart(owned[j].from, owned[j].words, owned[k].from, owned[k].words)
                        /\ \A p \in Pools : ListSound(p)
      BY DEF HPBlocksDisjoint
    <2>1. HPTypes /\ Placed /\ ArenaInv /\ \A p \in Pools : PoolInv(p)
      BY DEF HPInv
    <2>2. \A k \in DOMAIN owned : owned[k].from \in Nat /\ owned[k].words \in Nat
      BY <2>1 DEF HPTypes
    <2>3. /\ Wholes \subseteq Nat /\ NodeWords \in Nat
          /\ DOMAIN arena = 1 .. Len(arena)
      <3>1. \A m, n \in Nat : m * n \in Nat
        OBVIOUS
      <3>2. NodeWords \in Nat /\ PoolNodes \in Nat
        BY HPConstantsAssumption DEF HPConstantsAssumption
      <3>3. \A i \in 0 .. PoolNodes - 1 : i \in Nat
        BY <3>2
      <3> QED  BY <2>1, <3>1, <3>2, <3>3 DEF Wholes, HPTypes
    <2>4. ASSUME NEW k \in DOMAIN owned, NEW p \in Pools, owned[k].area = PoolArea(p)
          PROVE  /\ owned[k].from \in Wholes \ OnList(p)
                 /\ owned[k].words <= NodeWords
                 /\ \A j \in DOMAIN owned :
                      owned[j].area = PoolArea(p) /\ owned[j].from = owned[k].from => j = k
      BY <2>1, <2>4 DEF PoolInv
    <2>5. ASSUME NEW k \in DOMAIN owned
          PROVE  InItsArea(owned[k])
      <3>1. ASSUME NEW p \in Pools, owned[k].area = PoolArea(p)
            PROVE  InItsArea(owned[k])
        <4>1. /\ owned[k].from \in Wholes /\ owned[k].from <= owned[k].from
              /\ owned[k].from + owned[k].words <= owned[k].from + NodeWords
          BY <2>2, <2>3, <2>4, <3>1
        <4> QED  BY <3>1, <4>1 DEF InItsArea
      <3>2. ASSUME NEW i \in 1 .. Len(arena), owned[k].area = ArenaArea(i)
            PROVE  InItsArea(owned[k])
        <4>1. arena[i] /\ owned[k].from + owned[k].words <= BlockWords
          BY <2>1, <3>2 DEF ArenaInv
        <4> QED  BY <2>3, <3>2, <4>1 DEF InItsArea
      <3> QED  BY <2>1, <3>1, <3>2 DEF Placed
    <2>6. ASSUME NEW v \in Wholes, NEW w \in Wholes, v # w,
                 NEW m \in Nat, NEW n \in Nat, m <= NodeWords, n <= NodeWords
          PROVE  Apart(v, m, w, n)
      BY <2>3, <2>6, NodesApart DEF Apart
    <2>7. ASSUME NEW j \in DOMAIN owned, NEW k \in DOMAIN owned,
                 j # k, owned[j].area = owned[k].area
          PROVE  Apart(owned[j].from, owned[j].words, owned[k].from, owned[k].words)
      <3>1. ASSUME NEW p \in Pools, owned[k].area = PoolArea(p)
            PROVE  Apart(owned[j].from, owned[j].words, owned[k].from, owned[k].words)
        <4>1. /\ owned[j].from \in Wholes /\ owned[j].words <= NodeWords
              /\ owned[k].from \in Wholes /\ owned[k].words <= NodeWords
              /\ owned[j].from # owned[k].from
          BY <2>4, <2>7, <3>1
        <4> QED  BY <2>2, <2>6, <4>1
      <3>2. ASSUME NEW i \in 1 .. Len(arena), owned[k].area = ArenaArea(i)
            PROVE  Apart(owned[j].from, owned[j].words, owned[k].from, owned[k].words)
        BY <2>1, <2>7, <3>2 DEF ArenaInv
      <3> QED  BY <2>1, <3>1, <3>2 DEF Placed
    <2>8. ASSUME NEW p \in Pools
          PROVE  ListSound(p)
      <3>1. p \notin torn /\ OnList(p) \subseteq Wholes /\ IsInjective(freeNodes[p])
        BY <2>1 DEF PoolInv
      <3>2. ASSUME NEW i \in DOMAIN freeNodes[p]
            PROVE  freeNodes[p][i] \in OnList(p) /\ freeNodes[p][i] \in Wholes
        BY <3>1 DEF OnList, ToSet
      <3>3. ASSUME NEW i \in DOMAIN freeNodes[p], NEW k \in DOMAIN owned,
                   owned[k].area = PoolArea(p)
            PROVE  Apart(freeNodes[p][i], NodeWords, owned[k].from, owned[k].words)
        <4>1. /\ freeNodes[p][i] \in Wholes /\ owned[k].from \in Wholes
              /\ freeNodes[p][i] # owned[k].from /\ owned[k].words <= NodeWords
          BY <2>4, <3>2, <3>3
        <4>2. NodeWords <= NodeWords
          BY <2>3
        <4> QED  BY <2>2, <2>3, <2>6, <4>1, <4>2
      <3> QED  BY <3>1, <3>2, <3>3 DEF ListSound
    <2> QED  BY <2>5, <2>7, <2>8
  <1> QED  BY <1>1, HPInvariant, PTL

\* The pools and the arena keep their types.
THEOREM HPTypesKept == HPSpec => []HPTypeOK
  <1>1. HPInv => HPTypeOK
    BY DEF HPInv, HPTypes, HPTypeOK
  <1> QED  BY <1>1, HPInvariant, PTL

-------------------------------------------------------------------------------
(* The type system *)

\* w applies F again and again, n times, beginning with a.
Iterates(w, D, F, a, n) ==
    w \in [0 .. n -> D] /\ w[0] = a /\ \A k \in 1 .. n : w[k] = F[w[k - 1]]

\* A function on D can be iterated from any element, any number of times.
LEMMA Iterated ==
    ASSUME NEW D, NEW F \in [D -> D], NEW a \in D, NEW n \in Nat
    PROVE  \E w : Iterates(w, D, F, a, n)
  <1> DEFINE Walk(m, w) == w[0] = a /\ \A k \in 1 .. m : w[k] = F[w[k - 1]]
             Reached == {m \in Nat : \E w \in [0 .. m -> D] : Walk(m, w)}
  <1>1. 0 \in Reached
    <2> DEFINE w == [k \in 0 .. 0 |-> a]
    <2>1. w \in [0 .. 0 -> D] /\ Walk(0, w)
      OBVIOUS
    <2> QED  BY <2>1
  <1>2. ASSUME NEW m \in 0 .. n, m \in Reached
        PROVE  m + 1 \in Reached
    <2>1. PICK w \in [0 .. m -> D] : Walk(m, w)
      BY <1>2
    <2> DEFINE v == [k \in 0 .. m + 1 |-> IF k = m + 1 THEN F[w[m]] ELSE w[k]]
    <2>2. v \in [0 .. m + 1 -> D]
      OBVIOUS
    <2>3. Walk(m + 1, v)
      BY <2>1
    <2> HIDE DEF v, Walk
    <2> QED  BY <2>2, <2>3
  <1> HIDE DEF Reached
  <1>3. 0 .. n \subseteq Reached
    BY <1>1, <1>2, UpTo
  <1>4. n \in Reached
    BY <1>3
  <1>5. PICK w \in [0 .. n -> D] : Walk(n, w)
    BY <1>4 DEF Reached
  <1>6. Iterates(w, D, F, a, n)
    BY <1>5 DEF Iterates
  <1> QED  BY <1>6

\* The TypeInfos in use are those of the registered names, each under its own
\* name; the tables hold what registrations put there.
TypesKept ==
    /\ types \in [TypeNames -> {NoType} \cup TypeAddresses]
    /\ kept \in [BuiltIn -> TypeAddresses]
    /\ live = {types[n] : n \in Registered}
    /\ \A n \in Registered : infos[types[n]].name = n
    /\ live \subseteq DOMAIN infos /\ DOMAIN infos \subseteq TypeAddresses
    /\ infos = [x \in DOMAIN infos |-> infos[x]]
    /\ \A x \in DOMAIN infos : infos[x] =
          [name |-> infos[x].name, base |-> infos[x].base, fieldTypes |-> infos[x].fieldTypes]
    /\ methods \in [Keys -> Seq(Nat)] /\ fields \in [Keys -> Seq(TypeAddresses)]
    /\ bases \in [TypeNames -> SUBSET TypeNames]
    /\ stranded \in BOOLEAN /\ typeOps \in 0 .. MaxTypeOps

\* Depths: one for a type without a base, one more than its base for any other.
Ranks(d, used, inf) ==
    \A x \in used : d[x] = IF inf[x].base = NoType THEN 1 ELSE d[inf[x].base] + 1

\* While no TypeInfo was destroyed that something points to: what is pointed to
\* is in use, base pointers say what the names say, and they have an end.
Attached ==
    /\ \A n \in BuiltIn : types[n] # NoType /\ kept[n] = types[n]
    /\ \A x \in live : infos[x].base \in live \cup {NoType} /\ infos[x].fieldTypes \subseteq live
    /\ \A k \in Keys : \A i \in DOMAIN fields[k] : fields[k][i] \in live
    /\ \A n \in Registered : bases[n] =
          IF infos[types[n]].base = NoType THEN {} ELSE {infos[infos[types[n]].base].name}
    /\ \E d \in [live -> Nat] : Ranks(d, live, infos)

TypesInv == TypesKept /\ (~stranded => Attached)

LEMMA TypesStart == TypeInit => TypesInv
  <1> SUFFICES ASSUME TypeInit PROVE TypesInv
    OBVIOUS
  <1>0. NoType \notin TypeAddresses /\ BuiltIn \subseteq TypeNames /\ MaxTypeOps \in Nat
    BY TypeConstantsAssumption DEF TypeConstantsAssumption
  <1> USE <1>0
  <1>1. /\ types \in [TypeNames -> {NoType} \cup TypeAddresses]
        /\ Registered = BuiltIn /\ live = {types[n] : n \in BuiltIn}
        /\ \A n, o \in BuiltIn : n # o => types[n] # types[o]
        /\ kept = [n \in BuiltIn |-> types[n]]
        /\ \A n \in BuiltIn : types[n] \in TypeAddresses
    BY DEF TypeInit, Registered
  <1>2. ASSUME NEW n \in BuiltIn
        PROVE  infos[types[n]] = [name |-> n, base |-> NoType, fieldTypes |-> {}]
    <2>1. (CHOOSE o \in BuiltIn : types[o] = types[n]) = n
      BY <1>1
    <2>2. types[n] \in live
      BY <1>1
    <2> QED  BY <2>1, <2>2 DEF TypeInit, Info
  <1>9. \A n \in BuiltIn : /\ infos[types[n]].name = n /\ infos[types[n]].base = NoType
                           /\ infos[types[n]].fieldTypes = {}
    <2> SUFFICES ASSUME NEW n \in BuiltIn
                 PROVE  /\ infos[types[n]].name = n /\ infos[types[n]].base = NoType
                        /\ infos[types[n]].fieldTypes = {}
      OBVIOUS
    <2> DEFINE r == infos[types[n]]
    <2>1. r = [name |-> n, base |-> NoType, fieldTypes |-> {}]
      BY <1>2
    <2> HIDE DEF r
    <2>2. r.name = n /\ r.base = NoType /\ r.fieldTypes = {}
      BY <2>1
    <2> QED  BY <2>2 DEF r
  <1>3. DOMAIN infos = live /\ infos = [x \in DOMAIN infos |-> infos[x]]
    BY DEF TypeInit
  <1>4. \A x \in live : /\ x \in TypeAddresses
                        /\ infos[x] = [name |-> infos[x].name, base |-> NoType, fieldTypes |-> {}]
                        /\ infos[x].base = NoType /\ infos[x].fieldTypes = {}
    <2>1. ASSUME NEW n \in BuiltIn, NEW x, x = types[n]
          PROVE  /\ x \in TypeAddresses
                 /\ infos[x] = [name |-> infos[x].name, base |-> NoType, fieldTypes |-> {}]
                 /\ infos[x].base = NoType /\ infos[x].fieldTypes = {}
      BY <1>1, <1>2, <1>9, <2>1
    <2>2. \A x \in live : \E n \in BuiltIn : x = types[n]
      BY <1>1
    <2> QED  BY <2>1, <2>2
  <1>5. /\ methods \in [Keys -> Seq(Nat)] /\ fields \in [Keys -> Seq(TypeAddresses)]
        /\ \A k \in Keys : fields[k] = <<>>
    BY DEF TypeInit
  <1>6. /\ bases = [n \in TypeNames |-> {}] /\ bases \in [TypeNames -> SUBSET TypeNames]
        /\ stranded = FALSE /\ typeOps = 0
    BY DEF TypeInit
  <1>7. TypesKept
    <2>2. \A n \in Registered : infos[types[n]].name = n
      BY <1>1, <1>9
    <2>3. kept \in [BuiltIn -> TypeAddresses]
      BY <1>1
    <2>4. live = {types[n] : n \in Registered}
      BY <1>1
    <2>5. \A x \in DOMAIN infos : infos[x] =
          [name |-> infos[x].name, base |-> infos[x].base, fieldTypes |-> infos[x].fieldTypes]
      BY <1>3, <1>4
    <2>6. live \subseteq DOMAIN infos /\ DOMAIN infos \subseteq TypeAddresses
      BY <1>3, <1>4
    <2>7. stranded \in BOOLEAN
      BY <1>6, Zenon
    <2>8. typeOps \in 0 .. MaxTypeOps
      <3>1. typeOps = 0
        BY <1>6
      <3> QED  BY <3>1
    <2> QED  BY <1>1, <1>3, <1>5, <1>6, <2>2, <2>3, <2>4, <2>5, <2>6, <2>7, <2>8, Zenon DEF TypesKept
  <1>8. Attached
    <2> DEFINE d == [x \in live |-> 1]
    <2>1. d \in [live -> Nat] /\ Ranks(d, live, infos)
      BY <1>4 DEF Ranks
    <2> HIDE DEF d
    <2>2. \A n \in Registered : bases[n] = {} /\ infos[types[n]].base = NoType
      BY <1>1, <1>6, <1>9
    <2>3. \A n \in BuiltIn : types[n] # NoType /\ kept[n] = types[n]
      BY <1>1
    <2>4. \A x \in live : infos[x].base \in live \cup {NoType} /\ infos[x].fieldTypes \subseteq live
      BY <1>4
    <2>5. \A k \in Keys : \A i \in DOMAIN fields[k] : fields[k][i] \in live
      BY <1>5
    <2>6. \A n \in Registered : bases[n] =
          IF infos[types[n]].base = NoType THEN {} ELSE {infos[infos[types[n]].base].name}
      BY <2>2
    <2> QED  BY <2>1, <2>3, <2>4, <2>5, <2>6, Zenon DEF Attached
  <1> QED  BY <1>7, <1>8 DEF TypesInv

\* RegisterType and RegisterClassType: the base is nothing or somebody's TypeInfo.
LEMMA RegisterKeeps ==
    ASSUME TypesInv, NEW n \in TypeNames, NEW base, NEW names,
           typeOps < MaxTypeOps, typeOps' = typeOps + 1,
           Register(n, base), bases' = [bases EXCEPT ![n] = names],
           \/ base = NoType /\ names = {}
           \/ \E b \in Registered : base = types[b] /\ names = {b},
           UNCHANGED <<kept, methods, fields>>
    PROVE  TypesInv'
  <1>0. NoType \notin TypeAddresses /\ BuiltIn \subseteq TypeNames /\ MaxTypeOps \in Nat
    BY TypeConstantsAssumption DEF TypeConstantsAssumption
  <1> USE <1>0
  <1> DEFINE old == types[n]
  <1>1. PICK a \in TypeAddresses \ live :
            /\ types' = [types EXCEPT ![n] = a]
            /\ live' = (live \ {old}) \cup {a}
            /\ infos' = [x \in DOMAIN infos \cup {a} |-> IF x = a THEN Info(n, base) ELSE infos[x]]
            /\ stranded' = (stranded \/ (old # NoType /\ (base = old \/ PointsTo(old, old))))
    BY DEF Register
  <1>2. TypesKept
    BY DEF TypesInv
  <1>3. /\ a # NoType /\ types'[n] = a
        /\ \A o \in TypeNames : o # n => types'[o] = types[o]
        /\ Registered' = Registered \cup {n}
        /\ \A o \in Registered : types[o] \in live /\ types[o] # a
        /\ \A o \in Registered : o # n => types[o] # old
    BY <1>1, <1>2 DEF TypesKept, Registered
  <1>4. /\ DOMAIN infos' = DOMAIN infos \cup {a}
        /\ infos'[a] = [name |-> n, base |-> base, fieldTypes |-> {}]
        /\ \A x \in DOMAIN infos : x # a => infos'[x] = infos[x]
    BY <1>1 DEF Info
  <1>5. \A x \in live : x # old => /\ x \in live' /\ x # a /\ infos'[x] = infos[x]
                                  /\ \E o \in Registered : x = types[o]
    BY <1>1, <1>2, <1>4 DEF TypesKept
  <1>6. /\ base \in live \cup {NoType}
        /\ names \in SUBSET TypeNames
        /\ names = IF base = NoType THEN {} ELSE {infos[base].name}
    BY <1>2, <1>3 DEF TypesKept, Registered
  <1>7. TypesKept'
    <2>1. types' \in [TypeNames -> {NoType} \cup TypeAddresses]
      BY <1>1, <1>2 DEF TypesKept
    <2>2. live' = {types'[o] : o \in Registered'}
      BY <1>1, <1>2, <1>3, <1>5 DEF TypesKept
    <2>3. \A o \in Registered' : infos'[types'[o]].name = o
      <3>1. infos'[types'[n]].name = n
        BY <1>3, <1>4
      <3>2. ASSUME NEW o \in Registered, o # n
            PROVE  infos'[types'[o]].name = o
        <4>1. types'[o] = types[o] /\ types[o] \in live /\ types[o] # old
          BY <1>3, <3>2 DEF Registered
        <4>2. infos'[types[o]] = infos[types[o]]
          BY <1>5, <4>1
        <4> QED  BY <1>2, <4>1, <4>2 DEF TypesKept
      <3> QED  BY <1>3, <3>1, <3>2
    <2>4. live' \subseteq DOMAIN infos' /\ DOMAIN infos' \subseteq TypeAddresses
      BY <1>1, <1>2, <1>4 DEF TypesKept
    <2>5. infos' = [x \in DOMAIN infos' |-> infos'[x]]
      BY <1>1
    <2>6. \A x \in DOMAIN infos' : infos'[x] =
          [name |-> infos'[x].name, base |-> infos'[x].base, fieldTypes |-> infos'[x].fieldTypes]
      BY <1>2, <1>4 DEF TypesKept
    <2>7. bases' \in [TypeNames -> SUBSET TypeNames]
      BY <1>2, <1>6 DEF TypesKept
    <2>8. stranded' \in BOOLEAN /\ typeOps' \in 0 .. MaxTypeOps
      BY <1>1, <1>2 DEF TypesKept
    <2>9. Keys' = Keys
      BY DEF Keys
    <2> QED  BY <1>2, <2>1, <2>2, <2>3, <2>4, <2>5, <2>6, <2>7, <2>8, <2>9 DEF TypesKept
  <1>8. ASSUME ~stranded'
        PROVE  Attached'
    <2>1. Attached /\ (old = NoType \/ (base # old /\ ~PointsTo(old, old)))
      BY <1>1, <1>2, <1>8 DEF TypesInv, TypesKept
    <2>2. \A o \in BuiltIn : o \in Registered /\ o # n
      BY <2>1, <1>2 DEF PointsTo, Attached, TypesKept, Registered
    <2>4. NoType \notin live
      BY <1>2 DEF TypesKept
    <2>3. \A x \in live : x # old => /\ infos[x].base # old \/ old = NoType
                                     /\ old \notin infos[x].fieldTypes
                                     /\ infos[x].base \in live \cup {NoType}
                                     /\ infos[x].fieldTypes \subseteq live
      <3>1. \A x \in live : /\ infos[x].base \in live \cup {NoType}
                            /\ infos[x].fieldTypes \subseteq live
        BY <2>1 DEF Attached
      <3>2. old # NoType => \A x \in live \ {old} : infos[x].base # old /\ old \notin infos[x].fieldTypes
        BY <2>1 DEF PointsTo
      <3>3. old = NoType => \A x \in live : old \notin infos[x].fieldTypes
        BY <2>4, <3>1
      <3> QED  BY <3>1, <3>2, <3>3
    <2>5. \A k \in Keys : \A i \in DOMAIN fields[k] : fields[k][i] \in live /\ fields[k][i] # old
      BY <2>1, <2>4 DEF PointsTo, Attached
    <2>6. base \in (live \ {old}) \cup {NoType}
      BY <1>6, <2>1, <2>4
    <2>7. \A x \in live' : /\ infos'[x].base \in live' \cup {NoType}
                           /\ infos'[x].fieldTypes \subseteq live'
      <3>1. infos'[a].base \in live' \cup {NoType} /\ infos'[a].fieldTypes \subseteq live'
        BY <1>1, <1>4, <2>6
      <3>2. ASSUME NEW x \in live, x # old
            PROVE  infos'[x].base \in live' \cup {NoType} /\ infos'[x].fieldTypes \subseteq live'
        <4>1. infos'[x] = infos[x]
          BY <1>5, <3>2
        <4>2. /\ infos[x].base \in (live \ {old}) \cup {NoType}
              /\ infos[x].fieldTypes \subseteq live \ {old}
          BY <2>3, <2>4, <3>2
        <4> QED  BY <1>1, <4>1, <4>2
      <3> QED  BY <1>1, <3>1, <3>2
    <2>8. \A o \in BuiltIn : types'[o] # NoType /\ kept'[o] = types'[o]
      BY <1>3, <2>1, <2>2 DEF Attached
    <2>9. \A k \in Keys' : \A i \in DOMAIN fields'[k] : fields'[k][i] \in live'
      BY <1>1, <2>5 DEF Keys
    <2>10. \A o \in Registered' : bases'[o] =
          IF infos'[types'[o]].base = NoType THEN {} ELSE {infos'[infos'[types'[o]].base].name}
      <3>1. bases'[n] = names /\ infos'[types'[n]].base = base
        BY <1>2, <1>3, <1>4 DEF TypesKept
      <3>2. base # NoType => infos'[base].name = infos[base].name
        BY <1>5, <2>6
      <3>3. ASSUME NEW o \in Registered, o # n
            PROVE  bases'[o] = IF infos'[types'[o]].base = NoType THEN {}
                               ELSE {infos'[infos'[types'[o]].base].name}
        <4>1. bases'[o] = bases[o] /\ types'[o] = types[o] /\ types[o] \in live /\ types[o] # old
          BY <1>2, <1>3, <3>3 DEF TypesKept, Registered
        <4>2. infos'[types[o]] = infos[types[o]]
          BY <4>1, <1>5
        <4>3. infos[types[o]].base # NoType =>
                  infos'[infos[types[o]].base].name = infos[infos[types[o]].base].name
          BY <4>1, <2>3, <2>4, <1>5
        <4>4. bases[o] = IF infos[types[o]].base = NoType THEN {}
                         ELSE {infos[infos[types[o]].base].name}
          BY <2>1 DEF Attached
        <4>5. CASE infos[types[o]].base = NoType
          BY <4>1, <4>2, <4>4, <4>5
        <4>6. CASE infos[types[o]].base # NoType
          BY <4>1, <4>2, <4>3, <4>4, <4>6, Zenon
        <4> QED  BY <4>5, <4>6
      <3> QED  BY <1>3, <1>6, <3>1, <3>2, <3>3
    <2>11. \E d \in [live' -> Nat] : Ranks(d, live', infos')
      <3>1. PICK d \in [live -> Nat] : Ranks(d, live, infos)
        BY <2>1 DEF Attached
      <3> DEFINE e == [x \in live' |-> IF x = a THEN IF base = NoType THEN 1 ELSE d[base] + 1
                                       ELSE d[x]]
      <3>2. e \in [live' -> Nat]
        BY <1>1, <1>6, <3>1
      <3>3. ASSUME NEW x \in live'
            PROVE  e[x] = IF infos'[x].base = NoType THEN 1 ELSE e[infos'[x].base] + 1
        <4>1. CASE x = a
          <5>1. infos'[x].base = base
            BY <4>1, <1>4
          <5>2. base # NoType => base \in live' /\ base # a
            BY <1>1, <2>6
          <5> QED  BY <4>1, <5>1, <5>2
        <4>2. CASE x # a
          <5>1. x \in live /\ x # old /\ infos'[x] = infos[x]
            BY <1>1, <1>5, <4>2
          <5>2. infos[x].base # NoType => infos[x].base \in live' /\ infos[x].base # a
            BY <1>1, <2>3, <5>1
          <5>3. d[x] = IF infos[x].base = NoType THEN 1 ELSE d[infos[x].base] + 1
            BY <3>1, <5>1 DEF Ranks
          <5> QED  BY <4>2, <5>1, <5>2, <5>3
        <4> QED  BY <4>1, <4>2
      <3> HIDE DEF e
      <3>4. Ranks(e, live', infos')
        BY <3>3 DEF Ranks
      <3> QED  BY <3>2, <3>4
    <2> QED  BY <2>7, <2>8, <2>9, <2>10, <2>11 DEF Attached
  <1> QED  BY <1>7, <1>8 DEF TypesInv

\* A method goes into its table; nothing else changes.
LEMMA MethodKeeps ==
    ASSUME TypesInv, NEW n \in TypeNames, NEW m \in MemberNames, RegisterMethod(n, m),
           typeOps < MaxTypeOps, typeOps' = typeOps + 1
    PROVE  TypesInv'
  <1>1. TypesKept /\ MaxTypeOps \in Nat
    BY TypeConstantsAssumption DEF TypesInv, TypeConstantsAssumption
  <1>2. UNCHANGED <<types, infos, kept, live, fields, bases, stranded>>
    BY DEF RegisterMethod
  <1>3. Keys' = Keys /\ Registered' = Registered
    BY <1>2 DEF Keys, Registered
  <1>4. methods' \in [Keys -> Seq(Nat)]
    <2> DEFINE k == <<infos[GetType(n)].name, m>>
    <2>1. methods' = [methods EXCEPT ![k] = Append(@, typeOps)]
      BY DEF RegisterMethod
    <2> HIDE DEF k
    <2>2. \A s \in Seq(Nat) : Append(s, typeOps) \in Seq(Nat)
      BY <1>1 DEF TypesKept
    <2> QED  BY <1>1, <2>1, <2>2 DEF TypesKept
  <1>5. typeOps' \in 0 .. MaxTypeOps
    BY <1>1 DEF TypesKept
  <1>6. TypesKept'
    BY <1>1, <1>2, <1>3, <1>4, <1>5, Zenon DEF TypesKept
  <1>7. Attached => Attached'
    BY <1>2, <1>3, Zenon DEF Attached
  <1> QED  BY <1>2, <1>6, <1>7 DEF TypesInv

\* A field goes into its table and into the TypeInfo.
LEMMA FieldKeeps ==
    ASSUME TypesInv, NEW n \in TypeNames, NEW f \in MemberNames, NEW t \in TypeNames,
           RegisterField(n, f, t), typeOps < MaxTypeOps, typeOps' = typeOps + 1
    PROVE  TypesInv'
  <1> DEFINE x == types[n]
             y == types[t]
             k == <<infos[x].name, f>>
  <1>1. TypesKept /\ MaxTypeOps \in Nat
    BY TypeConstantsAssumption DEF TypesInv, TypeConstantsAssumption
  <1>2. UNCHANGED <<types, kept, live, methods, bases, stranded>>
    BY DEF RegisterField
  <1>3. Keys' = Keys /\ Registered' = Registered
    BY <1>2 DEF Keys, Registered
  <1>4. x \in live /\ y \in live /\ y \in TypeAddresses
    BY <1>1 DEF TypesKept, Registered, RegisterField, GetType
  <1>5. /\ fields' = [fields EXCEPT ![k] = Append(@, y)]
        /\ infos' = [infos EXCEPT ![x].fieldTypes = @ \cup {y}]
    BY DEF RegisterField, GetType
  <1> HIDE DEF x, y, k
  <1>6. \A s \in Seq(TypeAddresses) :
            /\ Append(s, y) \in Seq(TypeAddresses)
            /\ \A i \in DOMAIN Append(s, y) : (i \in DOMAIN s /\ Append(s, y)[i] = s[i]) \/ Append(s, y)[i] = y
    BY <1>4
  <1>7. fields' \in [Keys -> Seq(TypeAddresses)]
    BY <1>1, <1>5, <1>6 DEF TypesKept
  <1>8. /\ DOMAIN infos' = DOMAIN infos
        /\ infos' = [z \in DOMAIN infos' |-> infos'[z]]
        /\ \A z \in DOMAIN infos : z # x => infos'[z] = infos[z]
        /\ infos'[x] = [name |-> infos[x].name, base |-> infos[x].base,
                        fieldTypes |-> infos[x].fieldTypes \cup {y}]
    <2>1. x \in DOMAIN infos /\ infos[x] =
              [name |-> infos[x].name, base |-> infos[x].base, fieldTypes |-> infos[x].fieldTypes]
      BY <1>1, <1>4 DEF TypesKept
    <2>2. infos = [z \in DOMAIN infos |-> infos[z]]
      BY <1>1 DEF TypesKept
    <2>3. infos' = [z \in DOMAIN infos |-> IF z = x THEN [infos[x] EXCEPT !.fieldTypes = @ \cup {y}]
                                                    ELSE infos[z]]
      BY <1>5, <2>1, <2>2
    <2>4. [infos[x] EXCEPT !.fieldTypes = @ \cup {y}] =
              [name |-> infos[x].name, base |-> infos[x].base,
               fieldTypes |-> infos[x].fieldTypes \cup {y}]
      BY <2>1
    <2> QED  BY <2>1, <2>3, <2>4
  <1>9. /\ infos'[x].name = infos[x].name /\ infos'[x].base = infos[x].base
        /\ infos'[x].fieldTypes = infos[x].fieldTypes \cup {y}
    BY <1>8
  <1>10. \A z \in DOMAIN infos : infos'[z].name = infos[z].name /\ infos'[z].base = infos[z].base
    BY <1>8, <1>9
  <1>11. live \subseteq DOMAIN infos /\ \A o \in Registered : types[o] \in live
    BY <1>1 DEF TypesKept
  <1>12. TypesKept'
    <2>1. \A o \in Registered' : infos'[types'[o]].name = o
      BY <1>1, <1>2, <1>3, <1>10, <1>11 DEF TypesKept
    <2>2. \A z \in DOMAIN infos' : infos'[z] =
          [name |-> infos'[z].name, base |-> infos'[z].base, fieldTypes |-> infos'[z].fieldTypes]
      <3> SUFFICES ASSUME NEW z \in DOMAIN infos'
                   PROVE  infos'[z] = [name |-> infos'[z].name, base |-> infos'[z].base,
                                       fieldTypes |-> infos'[z].fieldTypes]
        OBVIOUS
      <3>1. CASE z = x
        BY <3>1, <1>8, <1>9
      <3>2. CASE z # x
        BY <3>2, <1>1, <1>8 DEF TypesKept
      <3> QED  BY <3>1, <3>2
    <2>3. typeOps' \in 0 .. MaxTypeOps
      BY <1>1 DEF TypesKept
    <2>4. live' \subseteq DOMAIN infos' /\ DOMAIN infos' \subseteq TypeAddresses
      BY <1>1, <1>2, <1>8 DEF TypesKept
    <2>5. live' = {types'[o] : o \in Registered'}
      BY <1>1, <1>2, <1>3 DEF TypesKept
    <2>6. methods' \in [Keys' -> Seq(Nat)] /\ fields' \in [Keys' -> Seq(TypeAddresses)]
      BY <1>1, <1>2, <1>3, <1>7 DEF TypesKept
    <2>7. /\ types' \in [TypeNames -> {NoType} \cup TypeAddresses]
          /\ kept' \in [BuiltIn -> TypeAddresses]
          /\ bases' \in [TypeNames -> SUBSET TypeNames] /\ stranded' \in BOOLEAN
      BY <1>1, <1>2, Zenon DEF TypesKept
    <2> QED  BY <1>8, <2>1, <2>2, <2>3, <2>4, <2>5, <2>6, <2>7, Zenon DEF TypesKept
  <1>13. ASSUME Attached
         PROVE  Attached'
    <2>1. \A z \in live' : infos'[z].base \in live' \cup {NoType} /\ infos'[z].fieldTypes \subseteq live'
      <3> SUFFICES ASSUME NEW z \in live
                   PROVE  infos'[z].base \in live \cup {NoType} /\ infos'[z].fieldTypes \subseteq live
        BY <1>2
      <3>1. infos[z].base \in live \cup {NoType} /\ infos[z].fieldTypes \subseteq live
        BY <1>13 DEF Attached
      <3>2. infos'[z].fieldTypes = infos[z].fieldTypes \/ infos'[z].fieldTypes = infos[z].fieldTypes \cup {y}
        BY <1>8, <1>9, <1>11
      <3> QED  BY <3>1, <3>2, <1>4, <1>10, <1>11
    <2>2. \A j \in Keys' : \A i \in DOMAIN fields'[j] : fields'[j][i] \in live'
      <3> SUFFICES ASSUME NEW j \in Keys, NEW i \in DOMAIN fields'[j]
                   PROVE  fields'[j][i] \in live
        BY <1>2, <1>3
      <3>1. fields[j] \in Seq(TypeAddresses) /\ \A h \in DOMAIN fields[j] : fields[j][h] \in live
        BY <1>1, <1>13 DEF TypesKept, Attached
      <3>2. fields'[j] = fields[j] \/ fields'[j] = Append(fields[j], y)
        BY <1>1, <1>5 DEF TypesKept
      <3> QED  BY <1>4, <1>6, <3>1, <3>2
    <2>3. \A o \in Registered' : bases'[o] =
          IF infos'[types'[o]].base = NoType THEN {} ELSE {infos'[infos'[types'[o]].base].name}
      <3> SUFFICES ASSUME NEW o \in Registered
                   PROVE  bases[o] = IF infos'[types[o]].base = NoType THEN {}
                                     ELSE {infos'[infos'[types[o]].base].name}
        BY <1>2, <1>3
      <3>1. bases[o] = IF infos[types[o]].base = NoType THEN {} ELSE {infos[infos[types[o]].base].name}
        BY <1>13 DEF Attached
      <3>2. infos'[types[o]].base = infos[types[o]].base
        BY <1>10, <1>11
      <3>3. infos[types[o]].base # NoType =>
                infos'[infos[types[o]].base].name = infos[infos[types[o]].base].name
        BY <1>10, <1>11, <1>13 DEF Attached
      <3>4. CASE infos[types[o]].base = NoType
        BY <3>1, <3>2, <3>4
      <3>5. CASE infos[types[o]].base # NoType
        BY <3>1, <3>2, <3>3, <3>5, Zenon
      <3> QED  BY <3>4, <3>5
    <2>4. \E d \in [live' -> Nat] : Ranks(d, live', infos')
      <3>1. PICK d \in [live -> Nat] : Ranks(d, live, infos)
        BY <1>13 DEF Attached
      <3>2. Ranks(d, live, infos')
        BY <3>1, <1>10, <1>11 DEF Ranks
      <3> QED  BY <1>2, <3>2
    <2>5. \A o \in BuiltIn : types'[o] # NoType /\ kept'[o] = types'[o]
      BY <1>2, <1>13 DEF Attached
    <2> QED  BY <2>1, <2>2, <2>3, <2>4, <2>5, Zenon DEF Attached
  <1> QED  BY <1>2, <1>12, <1>13 DEF TypesInv

LEMMA TypesSteps == TypesInv /\ [TypeNext]_typeVars => TypesInv'
  <1> SUFFICES ASSUME TypesInv, [TypeNext]_typeVars PROVE TypesInv'
    OBVIOUS
  <1>1. CASE TypeNext
    <2>1. typeOps < MaxTypeOps /\ typeOps' = typeOps + 1
      BY <1>1 DEF TypeNext
    <2>2. ASSUME NEW n \in TypeNames, RegisterType(n)
          PROVE  TypesInv'
      BY <2>1, <2>2, RegisterKeeps DEF RegisterType
    <2>3. ASSUME NEW n \in TypeNames, NEW b \in TypeNames, RegisterClassType(n, b)
          PROVE  TypesInv'
      <3>1. b \in Registered
        BY <2>3 DEF Registered, RegisterClassType, GetType
      <3>2. \E c \in Registered : GetType(b) = types[c] /\ {b} = {c}
        BY <3>1 DEF GetType
      <3> QED  BY <2>1, <2>3, <3>2, RegisterKeeps DEF RegisterClassType
    <2>4. ASSUME NEW n \in TypeNames, NEW m \in MemberNames, RegisterMethod(n, m)
          PROVE  TypesInv'
      BY <2>1, <2>4, MethodKeeps
    <2>5. ASSUME NEW n \in TypeNames, NEW f \in MemberNames, NEW t \in TypeNames,
                 RegisterField(n, f, t)
          PROVE  TypesInv'
      BY <2>1, <2>5, FieldKeeps
    <2> QED  BY <1>1, <2>2, <2>3, <2>4, <2>5, Zenon DEF TypeNext
  <1>2. CASE UNCHANGED typeVars
    <2>1. /\ UNCHANGED <<types, infos, kept, live, methods, fields, bases, stranded, typeOps>>
          /\ Registered' = Registered /\ Keys' = Keys
      BY <1>2 DEF typeVars, Registered, Keys
    <2>2. TypesKept => TypesKept'
      BY <2>1, ZenonT(30) DEF TypesKept
    <2>3. Attached => Attached'
      BY <2>1, Zenon DEF Attached
    <2> QED  BY <2>1, <2>2, <2>3, Zenon DEF TypesInv
  <1> QED  BY <1>1, <1>2

\* The way up from a TypeInfo: depth by depth to a type without a base, and
\* nothing from there on.
ClimbStep(x) == IF x \in live THEN infos[x].base ELSE NoType

Climbing(a, n, up) == [k \in 0 .. n |-> IF k = 0 THEN a ELSE ClimbStep(up[k - 1])]

LEMMA ClimbIs ==
    ASSUME TypesKept, Attached, NEW a \in live, NEW n \in Nat
    PROVE  LET up == Climb(a, n)
           IN  /\ up \in [0 .. n -> live \cup {NoType}]
               /\ up[0] = a /\ \A k \in 1 .. n : up[k] = ClimbStep(up[k - 1])
  <1> DEFINE up[k \in 0 .. n] ==
                IF k = 0 THEN a
                ELSE IF up[k - 1] \in live THEN infos[up[k - 1]].base ELSE NoType
             D == live \cup {NoType}
             F == [x \in D |-> ClimbStep(x)]
  <1>1. F \in [D -> D]
    BY DEF Attached, ClimbStep
  <1>2. \E w : w = Climbing(a, n, w) /\ w \in [0 .. n -> D]
    <2>0. a \in D
      OBVIOUS
    <2>1. PICK w \in [0 .. n -> D] : w[0] = a /\ \A k \in 1 .. n : w[k] = F[w[k - 1]]
      <3> HIDE DEF F, D
      <3>1. \E w : Iterates(w, D, F, a, n)
        BY <1>1, <2>0, Iterated
      <3> QED  BY <3>1 DEF Iterates
    <2>2. \A k \in 1 .. n : w[k] = ClimbStep(w[k - 1])
      <3>1. \A x \in D : F[x] = ClimbStep(x)
        OBVIOUS
      <3>2. \A k \in 1 .. n : w[k - 1] \in D
        OBVIOUS
      <3> HIDE DEF F, D
      <3> QED  BY <2>1, <3>1, <3>2
    <2>3. w = Climbing(a, n, w)
      BY <2>1, <2>2 DEF Climbing
    <2> QED  BY <2>3
  <1>3. \E w : w = Climbing(a, n, w)
    BY <1>2
  <1>4. up = Climbing(a, n, up)
    BY <1>3, Zenon DEF Climbing, ClimbStep
  <1>5. Climb(a, n) = up
    BY Zenon DEF Climb
  <1> HIDE DEF up
  <1>6. up[0] = a /\ \A k \in 1 .. n : up[k] = ClimbStep(up[k - 1])
    <2> DEFINE w == Climbing(a, n, up)
    <2>1. w[0] = a /\ \A k \in 1 .. n : w[k] = ClimbStep(up[k - 1])
      BY DEF Climbing
    <2> HIDE DEF w
    <2> QED  BY <1>4, <2>1 DEF w
  <1>7. up \in [0 .. n -> D]
    <2> DEFINE S == {k \in 0 .. n : up[k] \in D}
    <2>1. 0 \in S
      BY <1>6
    <2>2. \A k \in 0 .. n : k \in S /\ k < n => k + 1 \in S
      <3> SUFFICES ASSUME NEW k \in 0 .. n, k \in S, k < n PROVE k + 1 \in S
        OBVIOUS
      <3>1. up[k + 1] = ClimbStep(up[k])
        BY <1>6
      <3> QED  BY <3>1 DEF ClimbStep, Attached
    <2> HIDE DEF S
    <2>3. 0 .. n \subseteq S
      BY <2>1, <2>2, UpTo
    <2>4. \A k \in 0 .. n : up[k] \in D
      BY <2>3 DEF S
    <2>5. up = [k \in 0 .. n |-> up[k]]
      BY <1>4 DEF Climbing
    <2> HIDE DEF D
    <2> QED  BY <2>4, <2>5
  <1> QED  BY <1>5, <1>6, <1>7

\* After k steps from depth e the depth is e - k, and after e steps the end.
LEMMA ClimbDepths ==
    ASSUME TypesKept, Attached, NEW d \in [live -> Nat], Ranks(d, live, infos),
           NEW a \in live, NEW n \in Nat
    PROVE  \A k \in 0 .. n :
              LET x == Climb(a, n)[k]
              IN  IF k < d[a] THEN x \in live /\ d[x] = d[a] - k ELSE x = NoType
  <1> DEFINE up == Climb(a, n)
             S == {k \in 0 .. n : IF k < d[a] THEN up[k] \in live /\ d[up[k]] = d[a] - k
                                  ELSE up[k] = NoType}
  <1>1. up[0] = a /\ \A k \in 1 .. n : up[k] = ClimbStep(up[k - 1])
    BY ClimbIs
  <1>2. \A x \in live : /\ d[x] \in Nat /\ d[x] >= 1
                        /\ d[x] = 1 => infos[x].base = NoType
                        /\ d[x] > 1 => infos[x].base \in live /\ d[infos[x].base] = d[x] - 1
    <2> SUFFICES ASSUME NEW x \in live
                 PROVE  /\ d[x] \in Nat /\ d[x] >= 1
                        /\ d[x] = 1 => infos[x].base = NoType
                        /\ d[x] > 1 => infos[x].base \in live /\ d[infos[x].base] = d[x] - 1
      OBVIOUS
    <2> DEFINE b == infos[x].base
    <2>1. d[x] = (IF b = NoType THEN 1 ELSE d[b] + 1) /\ b \in live \cup {NoType} /\ d[x] \in Nat
      BY DEF Ranks, Attached
    <2>2. b \in live => d[b] \in Nat
      OBVIOUS
    <2>3. \A y \in live : d[y] # 0
      <3> SUFFICES ASSUME NEW y \in live PROVE d[y] # 0
        OBVIOUS
      <3> DEFINE c == infos[y].base
      <3>1. d[y] = (IF c = NoType THEN 1 ELSE d[c] + 1) /\ c \in live \cup {NoType}
        BY DEF Ranks, Attached
      <3>2. c \in live => d[c] \in Nat
        OBVIOUS
      <3> HIDE DEF c
      <3> QED  BY <3>1, <3>2
    <2>4. b \in live => d[b] # 0
      BY <2>3
    <2> HIDE DEF b
    <2>5. /\ d[x] >= 1 /\ d[x] = 1 => b = NoType
          /\ d[x] > 1 => b \in live /\ d[b] = d[x] - 1
      BY <2>1, <2>2, <2>4
    <2> QED  BY <2>1, <2>5 DEF b
  <1>3. NoType \notin live
    BY TypeConstantsAssumption DEF TypesKept, TypeConstantsAssumption
  <1> HIDE DEF up
  <1>4. 0 \in S
    BY <1>1, <1>2
  <1>5. ASSUME NEW k \in 0 .. n, k \in S, k < n
        PROVE  k + 1 \in S
    <2>1. up[k + 1] = ClimbStep(up[k])
      BY <1>1, <1>5
    <2>2. CASE k < d[a]
      <3>1. up[k] \in live /\ d[up[k]] = d[a] - k /\ d[a] \in Nat
        BY <1>2, <1>5, <2>2
      <3>2. up[k + 1] = infos[up[k]].base
        BY <2>1, <3>1 DEF ClimbStep
      <3>3. CASE k + 1 < d[a]
        BY <1>2, <1>5, <3>1, <3>2, <3>3
      <3>4. CASE ~(k + 1 < d[a])
        <4>1. d[up[k]] = 1
          BY <2>2, <3>1, <3>4
        <4> QED  BY <1>2, <1>5, <3>1, <3>2, <3>4, <4>1
      <3> QED  BY <3>3, <3>4
    <2>3. CASE ~(k < d[a])
      <3>1. up[k] = NoType /\ d[a] \in Nat
        BY <1>2, <1>5, <2>3
      <3>2. up[k + 1] = NoType
        BY <1>3, <2>1, <3>1 DEF ClimbStep
      <3> QED  BY <1>5, <2>3, <3>1, <3>2
    <2> QED  BY <2>2, <2>3
  <1> HIDE DEF S
  <1>6. 0 .. n \subseteq S
    BY <1>4, <1>5, UpTo
  <1> QED  BY <1>6 DEF S, up

\* No way up is longer than there are addresses, or names.
LEMMA DepthsBounded ==
    ASSUME TypesKept, Attached, NEW d \in [live -> Nat], Ranks(d, live, infos), NEW a \in live
    PROVE  /\ d[a] \in Nat \ {0}
           /\ Cardinality(TypeAddresses) \in Nat /\ d[a] <= Cardinality(TypeAddresses)
           /\ Cardinality(TypeNames) \in Nat /\ d[a] <= Cardinality(TypeNames)
  <1> DEFINE up == Climb(a, d[a])
             I == 1 .. d[a]
  <1>1. d[a] \in Nat \ {0}
    BY DEF Ranks, Attached
  <1>2. \A k \in I : up[k - 1] \in live /\ d[up[k - 1]] = d[a] - (k - 1)
    BY <1>1, ClimbDepths
  <1> HIDE DEF up
  <1>3. IsFiniteSet(TypeAddresses) /\ IsFiniteSet(TypeNames)
    BY TypeConstantsAssumption DEF TypeConstantsAssumption
  <1>4. IsFiniteSet(I) /\ Cardinality(I) = d[a]
    BY <1>1, FS_Interval
  <1>5. \A j, k \in I : up[j - 1] = up[k - 1] => j = k
    <2> SUFFICES ASSUME NEW j \in I, NEW k \in I, up[j - 1] = up[k - 1] PROVE j = k
      OBVIOUS
    <2>1. d[a] - (j - 1) = d[a] - (k - 1)
      BY <1>2, Zenon
    <2> QED  BY <1>1, <2>1
  <1>6. \A x \in live : x \in TypeAddresses /\ infos[x].name \in TypeNames /\ x = types[infos[x].name]
    BY DEF TypesKept, Registered
  <1>7. d[a] <= Cardinality(TypeAddresses)
    <2> DEFINE f == [k \in I |-> up[k - 1]]
    <2>1. f \in Injection(I, TypeAddresses)
      BY <1>2, <1>5, <1>6 DEF Injection, IsInjective
    <2> HIDE DEF f, I
    <2> QED  BY <1>3, <1>4, <2>1, FS_Injection
  <1>8. d[a] <= Cardinality(TypeNames)
    <2> DEFINE f == [k \in I |-> infos[up[k - 1]].name]
    <2>1. f \in Injection(I, TypeNames)
      <3>1. f \in [I -> TypeNames]
        BY <1>2, <1>6
      <3>2. \A j, k \in I : f[j] = f[k] => j = k
        <4> SUFFICES ASSUME NEW j \in I, NEW k \in I, f[j] = f[k] PROVE j = k
          OBVIOUS
        <4>1. up[j - 1] = types[infos[up[j - 1]].name] /\ up[k - 1] = types[infos[up[k - 1]].name]
          BY <1>2, <1>6
        <4>2. infos[up[j - 1]].name = infos[up[k - 1]].name
          OBVIOUS
        <4>3. up[j - 1] = up[k - 1]
          BY <4>1, <4>2, Zenon
        <4> QED  BY <1>5, <4>3, Zenon
      <3> HIDE DEF f
      <3> QED  BY <3>1, <3>2 DEF Injection, IsInjective
    <2> HIDE DEF f, I
    <2> QED  BY <1>3, <1>4, <2>1, FS_Injection
  <1> QED  BY <1>1, <1>3, <1>7, <1>8, FS_CardinalityType

\* What names say: the ancestors of n at each distance.
LineStep(X) == UNION {bases[x] : x \in X}

Lining(n, line) ==
    [k \in 0 .. Cardinality(TypeNames) |-> IF k = 0 THEN {n} ELSE LineStep(line[k - 1])]

LEMMA LineageIs ==
    ASSUME TypesKept, NEW n \in TypeNames, Cardinality(TypeNames) \in Nat
    PROVE  LET line == Lineage(n)
               last == Cardinality(TypeNames)
           IN  /\ DOMAIN line = 0 .. last
               /\ line[0] = {n} /\ \A k \in 1 .. last : line[k] = LineStep(line[k - 1])
  <1> DEFINE last == Cardinality(TypeNames)
             line[k \in 0 .. last] ==
                IF k = 0 THEN {n} ELSE UNION {bases[x] : x \in line[k - 1]}
             D == SUBSET TypeNames
             F == [X \in D |-> LineStep(X)]
  <1>1. F \in [D -> D]
    BY DEF TypesKept, LineStep
  <1>2. \E w : w = Lining(n, w)
    <2>0. {n} \in D /\ last \in Nat
      OBVIOUS
    <2>1. PICK w \in [0 .. last -> D] : w[0] = {n} /\ \A k \in 1 .. last : w[k] = F[w[k - 1]]
      <3> HIDE DEF F, D, last
      <3>1. \E w : Iterates(w, D, F, {n}, last)
        BY <1>1, <2>0, Iterated
      <3> QED  BY <3>1 DEF Iterates
    <2>2. \A k \in 1 .. last : w[k] = LineStep(w[k - 1])
      <3>1. \A x \in D : F[x] = LineStep(x)
        OBVIOUS
      <3>2. \A k \in 1 .. last : w[k - 1] \in D
        OBVIOUS
      <3> HIDE DEF F, D
      <3> QED  BY <2>1, <3>1, <3>2
    <2>3. w = Lining(n, w)
      BY <2>1, <2>2 DEF Lining
    <2> QED  BY <2>3
  <1>3. line = Lining(n, line)
    BY <1>2, Zenon DEF Lining, LineStep
  <1>4. Lineage(n) = line
    BY Zenon DEF Lineage
  <1> HIDE DEF line
  <1>5. /\ DOMAIN line = 0 .. last
        /\ line[0] = {n} /\ \A k \in 1 .. last : line[k] = LineStep(line[k - 1])
    <2> DEFINE w == Lining(n, line)
    <2>1. DOMAIN w = 0 .. last /\ w[0] = {n} /\ \A k \in 1 .. last : w[k] = LineStep(line[k - 1])
      BY DEF Lining
    <2> HIDE DEF w
    <2> QED  BY <1>3, <2>1 DEF w
  <1> QED  BY <1>4, <1>5

\* The names on the way up are the lineage.
LEMMA NamesFollow ==
    ASSUME TypesKept, Attached, NEW d \in [live -> Nat], Ranks(d, live, infos), NEW n \in Registered,
           NEW m \in Nat, d[types[n]] <= m
    PROVE  \A k \in 0 .. Cardinality(TypeNames) :
              Lineage(n)[k] = IF k < d[types[n]] THEN {infos[Climb(types[n], m)[k]].name} ELSE {}
  <1> DEFINE a == types[n]
             up == Climb(a, m)
             line == Lineage(n)
             last == Cardinality(TypeNames)
             own(k) == {infos[up[k]].name}
             Matches(k) == line[k] = IF k < d[a] THEN own(k) ELSE {}
             S == {k \in 0 .. last : Matches(k)}
  <1>1. a \in live /\ infos[a].name = n /\ n \in TypeNames
    BY DEF TypesKept, Registered
  <1>2. d[a] \in Nat \ {0} /\ last \in Nat /\ d[a] <= last /\ d[a] <= m
    BY <1>1, DepthsBounded
  <1>3. up[0] = a /\ \A k \in 1 .. m : up[k] = ClimbStep(up[k - 1])
    BY <1>1, ClimbIs
  <1>4. \A k \in 0 .. m : IF k < d[a] THEN up[k] \in live /\ d[up[k]] = d[a] - k ELSE up[k] = NoType
    BY <1>1, ClimbDepths
  <1>5. line[0] = {n} /\ \A k \in 1 .. last : line[k] = LineStep(line[k - 1])
    BY <1>1, <1>2, LineageIs
  <1>6. \A x \in live : /\ bases[infos[x].name] =
                              IF infos[x].base = NoType THEN {} ELSE {infos[infos[x].base].name}
                        /\ infos[x].base \in live \cup {NoType}
    <2> SUFFICES ASSUME NEW x \in live
                 PROVE  /\ bases[infos[x].name] =
                              IF infos[x].base = NoType THEN {} ELSE {infos[infos[x].base].name}
                        /\ infos[x].base \in live \cup {NoType}
      OBVIOUS
    <2>1. PICK o \in Registered : x = types[o]
      BY DEF TypesKept
    <2>2. infos[x].name = o
      BY <2>1 DEF TypesKept
    <2>3. bases[o] = IF infos[types[o]].base = NoType THEN {} ELSE {infos[infos[types[o]].base].name}
      BY DEF Attached
    <2>4. infos[x].base \in live \cup {NoType}
      BY DEF Attached
    <2> QED  BY <2>1, <2>2, <2>3, <2>4, Zenon
  <1>7. NoType \notin live
    BY TypeConstantsAssumption DEF TypesKept, TypeConstantsAssumption
  <1> HIDE DEF up, line, last
  <1>8. 0 \in S
    <2>1. 0 < d[a] /\ line[0] = own(0)
      BY <1>1, <1>2, <1>3, <1>5
    <2> HIDE DEF own
    <2> QED  BY <1>2, <2>1
  <1>9. ASSUME NEW k \in 0 .. last, k \in S, k < last
        PROVE  k + 1 \in S
    <2>1. line[k + 1] = LineStep(line[k])
      <3> HIDE DEF S, Matches, own, a
      <3>1. k + 1 \in 1 .. last /\ (k + 1) - 1 = k
        BY <1>2, <1>9
      <3>2. line[k + 1] = LineStep(line[(k + 1) - 1])
        BY <1>5, <3>1
      <3> QED  BY <3>1, <3>2, Zenon
    <2>2. CASE k < d[a]
      <3> DEFINE x == up[k]
      <3>1. x \in live /\ line[k] = own(k) /\ k \in 0 .. m
        BY <1>2, <1>4, <1>9, <2>2
      <3>2. LineStep({infos[x].name}) = bases[infos[x].name]
        BY DEF LineStep
      <3>3. up[k + 1] = infos[x].base
        BY <1>2, <1>3, <2>2, <3>1 DEF ClimbStep
      <3>4. CASE k + 1 < d[a]
        <4>1. up[k + 1] \in live
          BY <1>2, <1>4, <3>4
        <4>2. line[k + 1] = own(k + 1)
          BY <1>6, <1>7, <2>1, <3>1, <3>2, <3>3, <4>1
        <4> HIDE DEF own
        <4>3. Matches(k + 1)
          BY <3>4, <4>2
        <4> HIDE DEF Matches
        <4> QED  BY <1>2, <1>9, <4>3
      <3>5. CASE ~(k + 1 < d[a])
        <4>1. infos[x].base = NoType
          <5>1. k + 1 \in 0 .. m
            BY <1>2, <2>2
          <5> QED  BY <1>4, <3>3, <3>5, <5>1
        <4>2. line[k + 1] = {}
          BY <1>6, <2>1, <3>1, <3>2, <4>1
        <4> HIDE DEF own
        <4>3. Matches(k + 1)
          BY <3>5, <4>2
        <4> HIDE DEF Matches
        <4> QED  BY <1>2, <1>9, <4>3
      <3> QED  BY <3>4, <3>5
    <2>3. CASE ~(k < d[a])
      <3>1. line[k] = {}
        BY <1>9, <2>3
      <3>2. line[k + 1] = {}
        BY <2>1, <3>1 DEF LineStep
      <3>3. ~(k + 1 < d[a])
        BY <1>2, <2>3
      <3>4. Matches(k + 1)
        <4> HIDE DEF own
        <4> QED  BY <3>2, <3>3
      <3> HIDE DEF Matches
      <3> QED  BY <1>2, <1>9, <3>4
    <2> QED  BY <2>2, <2>3
  <1>10. last \in Nat
    BY <1>2
  <1> HIDE DEF S
  <1>11. 0 .. last \subseteq S
    BY <1>8, <1>9, <1>10, UpTo
  <1> QED  BY <1>11 DEF S, up, line, last

\* So a look-up finds what the names lead to, in any table.
LEMMA LookupIsDeclared ==
    ASSUME TypesKept, Attached, NEW n \in Registered, NEW table, NEW m
    PROVE  Lookup(table, types[n], m) = Declared(table, n, m)
  <1> DEFINE a == types[n]
             C == Cardinality(TypeAddresses)
             N == Cardinality(TypeNames)
             up == Climb(a, C)
             line == Lineage(n)
             found == {k \in DOMAIN up : up[k] \in live /\ table[<<infos[up[k]].name, m>>] # <<>>}
             named == {k \in DOMAIN line : \E x \in line[k] : table[<<x, m>>] # <<>>}
             least(ks) == CHOOSE k \in ks : \A j \in ks : k <= j
  <1>1. PICK d \in [live -> Nat] : Ranks(d, live, infos)
    BY DEF Attached
  <1>2. a \in live /\ n \in TypeNames
    BY DEF TypesKept, Registered
  <1>3. d[a] \in Nat \ {0} /\ C \in Nat /\ d[a] <= C /\ N \in Nat /\ d[a] <= N
    BY <1>1, <1>2, DepthsBounded
  <1>4. DOMAIN up = 0 .. C
    BY <1>2, <1>3, ClimbIs
  <1>5. \A k \in 0 .. C : IF k < d[a] THEN up[k] \in live /\ d[up[k]] = d[a] - k ELSE up[k] = NoType
    BY <1>1, <1>2, <1>3, ClimbDepths
  <1>6. DOMAIN line = 0 .. N
    BY <1>2, <1>3, LineageIs
  <1>7. \A k \in 0 .. N : line[k] = IF k < d[a] THEN {infos[up[k]].name} ELSE {}
    BY <1>1, <1>3, NamesFollow
  <1>8. NoType \notin live
    BY TypeConstantsAssumption DEF TypesKept, TypeConstantsAssumption
  <1>9. Lookup(table, a, m) =
            IF found = {} THEN <<>> ELSE SubSeq(table[<<infos[up[least(found)]].name, m>>], 1, 1)
    BY Zenon DEF Lookup
  <1>10. Declared(table, n, m) =
            IF named = {} THEN <<>>
            ELSE SubSeq(table[<<CHOOSE x \in line[least(named)] : TRUE, m>>], 1, 1)
    BY Zenon DEF Declared
  <1>11. \A k \in named : k \in Nat /\ k < d[a] /\ line[k] = {infos[up[k]].name}
    <2> SUFFICES ASSUME NEW k \in named
                 PROVE  k \in Nat /\ k < d[a] /\ line[k] = {infos[up[k]].name}
      OBVIOUS
    <2>1. k \in 0 .. N /\ line[k] # {}
      BY <1>6
    <2> HIDE DEF up, line, named
    <2>2. CASE k < d[a]
      <3>1. line[k] = {infos[up[k]].name}
        BY <1>7, <2>1, <2>2, Zenon
      <3> QED  BY <1>3, <2>1, <2>2, <3>1
    <2>3. CASE ~(k < d[a])
      <3>1. line[k] = {}
        BY <1>7, <2>1, <2>3, Zenon
      <3> QED  BY <2>1, <3>1
    <2> QED  BY <2>2, <2>3
  <1>12. found = named
    <2>1. \A k \in found : k \in named
      <3> SUFFICES ASSUME NEW k \in found PROVE k \in named
        OBVIOUS
      <3>1. k \in 0 .. C /\ up[k] \in live /\ table[<<infos[up[k]].name, m>>] # <<>>
        BY <1>4, Zenon
      <3> HIDE DEF up, line
      <3>2. k < d[a]
        BY <1>3, <1>5, <1>8, <3>1
      <3>3. k \in 0 .. N /\ line[k] = {infos[up[k]].name}
        <4>1. k \in 0 .. N
          BY <1>3, <3>1, <3>2
        <4> QED  BY <1>7, <3>2, <4>1, Zenon
      <3> QED  BY <1>6, <3>1, <3>3
    <2>2. \A k \in named : k \in found
      <3> SUFFICES ASSUME NEW k \in named PROVE k \in found
        OBVIOUS
      <3>1. k \in 0 .. N /\ \E x \in line[k] : table[<<x, m>>] # <<>>
        BY <1>6, Zenon
      <3>2. k < d[a] /\ line[k] = {infos[up[k]].name}
        BY <1>11
      <3> HIDE DEF up, line
      <3>3. k \in 0 .. C /\ up[k] \in live
        BY <1>3, <1>5, <3>1, <3>2
      <3>4. table[<<infos[up[k]].name, m>>] # <<>>
        BY <3>1, <3>2
      <3> QED  BY <1>4, <3>3, <3>4
    <2> QED  BY <2>1, <2>2
  <1>13. named # {} => (CHOOSE x \in line[least(named)] : TRUE) = infos[up[least(named)]].name
    <2>1. named # {} => least(named) \in named
      <3>1. named \in SUBSET Nat
        BY <1>11
      <3> HIDE DEF named
      <3>2. named # {} => \E k \in named : \A j \in named : k <= j
        BY <3>1, HasLeast
      <3> QED  BY <3>2
    <2>2. named # {} => line[least(named)] = {infos[up[least(named)]].name}
      BY <1>11, <2>1
    <2> HIDE DEF line, up, least, named
    <2> QED  BY <2>2
  <1> HIDE DEF up, line, found, named, least
  <1> QED  BY <1>9, <1>10, <1>12, <1>13, Zenon

\* The theorem about the type system, for every state of the invariant.
LEMMA TypesInvSuffices == TypesInv => LookupFollowsBases /\ TypeTypeOK
  <1> SUFFICES ASSUME TypesInv PROVE LookupFollowsBases /\ TypeTypeOK
    OBVIOUS
  <1>1. TypeTypeOK
    <2>1. \A x \in live : infos[x].name \in TypeNames
      BY DEF TypesInv, TypesKept, Registered
    <2> QED  BY <2>1, Zenon DEF TypeTypeOK, TypesInv, TypesKept
  <1>2. ASSUME ~stranded
        PROVE  LookupFollowsBases
    <2>1. TypesKept /\ Attached
      BY <1>2 DEF TypesInv
    <2>2. \A n \in BuiltIn : kept[n] = types[n]
      BY <2>1 DEF Attached
    <2>3. ASSUME NEW n \in Registered
          PROVE  /\ infos[types[n]].name = n
                 /\ LET up == Climb(types[n], Cardinality(TypeAddresses))
                    IN  /\ \A k \in DOMAIN up : up[k] \in live \cup {NoType}
                        /\ up[Cardinality(TypeAddresses)] = NoType
                 /\ infos[types[n]].fieldTypes \subseteq live
                 /\ \A m \in MemberNames :
                       /\ Lookup(methods, types[n], m) = Declared(methods, n, m)
                       /\ Lookup(fields, types[n], m) = Declared(fields, n, m)
                       /\ \A i \in DOMAIN fields[<<n, m>>] : fields[<<n, m>>][i] \in live
      <3>1. types[n] \in live /\ n \in TypeNames /\ infos[types[n]].name = n
        BY <2>1 DEF TypesKept, Registered
      <3>2. infos[types[n]].fieldTypes \subseteq live
        BY <2>1, <3>1 DEF Attached
      <3>3. PICK d \in [live -> Nat] : Ranks(d, live, infos)
        BY <2>1 DEF Attached
      <3> DEFINE C == Cardinality(TypeAddresses)
                 up == Climb(types[n], C)
      <3>4. d[types[n]] \in Nat /\ C \in Nat /\ d[types[n]] <= C
        BY <2>1, <3>1, <3>3, DepthsBounded
      <3>5. \A k \in DOMAIN up : up[k] \in live \cup {NoType}
        BY <2>1, <3>1, <3>4, ClimbIs
      <3>6. up[C] = NoType
        BY <2>1, <3>1, <3>3, <3>4, ClimbDepths
      <3>7. ASSUME NEW m \in MemberNames
            PROVE  /\ Lookup(methods, types[n], m) = Declared(methods, n, m)
                   /\ Lookup(fields, types[n], m) = Declared(fields, n, m)
        BY <2>1, LookupIsDeclared, Zenon
      <3>8. ASSUME NEW m \in MemberNames
            PROVE  \A i \in DOMAIN fields[<<n, m>>] : fields[<<n, m>>][i] \in live
        <4>1. <<n, m>> \in Keys
          BY <3>1 DEF Keys
        <4> QED  BY <2>1, <4>1 DEF Attached
      <3> QED  BY <3>1, <3>2, <3>5, <3>6, <3>7, <3>8, Zenon
    <2> QED  BY <2>2, <2>3, Zenon DEF LookupFollowsBases
  <1>3. stranded \in BOOLEAN
    BY DEF TypesInv, TypesKept
  <1> QED  BY <1>1, <1>2, <1>3 DEF LookupFollowsBases

LEMMA TypesInvariant == TypeSpec => []TypesInv
  <1>1. TypeInit => TypesInv
    BY TypesStart
  <1>2. TypesInv /\ [TypeNext]_typeVars => TypesInv'
    BY TypesSteps
  <1> QED  BY <1>1, <1>2, PTL DEF TypeSpec

\* Unless a TypeInfo was destroyed that something points to, looking a member up
\* along the base pointers finds what the registered base names lead to first,
\* on a way that ends and meets no destroyed TypeInfo (type_system.cpp:32-41, 72-98).
THEOREM LookupsFollowBases == TypeSpec => []LookupFollowsBases
  <1>1. TypesInv => LookupFollowsBases
    BY TypesInvSuffices
  <1> QED  BY <1>1, TypesInvariant, PTL

\* Types, addresses and tables keep their types (type_system.cpp:7-70).
THEOREM TypeTypesKept == TypeSpec => []TypeTypeOK
  <1>1. TypesInv => TypeTypeOK
    BY TypesInvSuffices
  <1> QED  BY <1>1, TypesInvariant, PTL

\* w begins with a and goes on, n times, as F says.
Recurs(w, D, F, a, n) ==
    w \in [0 .. n -> D] /\ w[0] = a /\ \A k \in 1 .. n : w[k] = F[k][w[k - 1]]

\* Whatever it begins with, a recursion defines a function.
LEMMA Recursion ==
    ASSUME NEW D, NEW n \in Nat, NEW F \in [1 .. n -> [D -> D]], NEW a \in D
    PROVE  \E w : Recurs(w, D, F, a, n)
  <1> DEFINE Reached == {m \in 0 .. n : \E w : Recurs(w, D, F, a, m)}
  <1>1. 0 \in Reached
    <2> DEFINE w == [k \in 0 .. 0 |-> a]
    <2>1. Recurs(w, D, F, a, 0)
      BY DEF Recurs
    <2> HIDE DEF w
    <2> QED  BY <2>1
  <1>2. ASSUME NEW m \in 0 .. n, m \in Reached, m < n
        PROVE  m + 1 \in Reached
    <2>1. PICK w : Recurs(w, D, F, a, m)
      BY <1>2
    <2>2. w \in [0 .. m -> D] /\ w[0] = a /\ \A k \in 1 .. m : w[k] = F[k][w[k - 1]]
      BY <2>1 DEF Recurs
    <2> DEFINE next == F[m + 1][w[m]]
               v == [k \in 0 .. m + 1 |-> IF k = m + 1 THEN next ELSE w[k]]
    <2>3. next \in D
      <3>1. F[m + 1] \in [D -> D] /\ w[m] \in D
        BY <1>2, <2>2
      <3> QED  BY <3>1
    <2>4. v[m + 1] = next /\ v[m] = w[m] /\ (m + 1) - 1 = m
      OBVIOUS
    <2>5. v \in [0 .. m + 1 -> D] /\ v[0] = a
      BY <2>2, <2>3
    <2>6. \A k \in 1 .. m : v[k] = F[k][v[k - 1]]
      BY <2>2
    <2>7. v[m + 1] = F[m + 1][v[m]]
      BY <2>4
    <2> HIDE DEF v, next
    <2>8. \A k \in 1 .. m + 1 : v[k] = F[k][v[k - 1]]
      BY <2>4, <2>6, <2>7
    <2>9. Recurs(v, D, F, a, m + 1)
      BY <2>5, <2>8 DEF Recurs
    <2> QED  BY <1>2, <2>9
  <1> HIDE DEF Reached
  <1>3. 0 .. n \subseteq Reached
    BY <1>1, <1>2, UpTo
  <1>4. n \in Reached
    BY <1>3
  <1> QED  BY <1>4 DEF Reached

-------------------------------------------------------------------------------
(* The parser *)

Byte == 0 .. 255

\* The bytes of the method's first k instructions.
WholeStep(k, bs) == bs \o Bytes(method[k])

LEMMA Written ==
    ASSUME method \in ILMethods
    PROVE  /\ Len(method) \in Nat /\ DOMAIN method = 1 .. Len(method)
           /\ \A k \in 1 .. Len(method) :
                 LET i == method[k]
                 IN  /\ i.code \in Seq(Byte) /\ i.arg \in Seq(Byte) /\ i.code[1] \in Byte
                     /\ IF i.code[1] = Prefix THEN Len(i.code) = 2 /\ i.code[2] \in Byte
                                              ELSE Len(i.code) = 1
                     /\ Bytes(i) \in Seq(Byte) /\ Len(Bytes(i)) = Len(i.code) + Len(i.arg)
  <1> DEFINE Item == [code : Opcodes, arg : Seq(Byte)]
  <1>1. method \in Seq(Item)
    BY ParserConstantsAssumption DEF ParserConstantsAssumption, Byte
  <1>2. ASSUME NEW c \in Opcodes
        PROVE  /\ c \in Seq(Byte) /\ c[1] \in Byte
               /\ IF c[1] = Prefix THEN Len(c) = 2 /\ c[2] \in Byte ELSE Len(c) = 1
    <2>1. CASE \E b \in Byte : b # Prefix /\ c = <<b>>
      <3>1. PICK b \in Byte : b # Prefix /\ c = <<b>>
        BY <2>1
      <3>2. c \in Seq(Byte) /\ c[1] = b /\ Len(c) = 1
        BY <3>1
      <3> QED  BY <3>1, <3>2
    <2>2. CASE \E b \in Byte : c = <<Prefix, b>>
      <3>1. PICK b \in Byte : c = <<Prefix, b>>
        BY <2>2
      <3>2. Prefix \in Byte
        BY DEF Prefix, Byte
      <3>3. c \in Seq(Byte) /\ c[1] = Prefix /\ c[2] = b /\ Len(c) = 2
        BY <3>1, <3>2
      <3> QED  BY <3>2, <3>3
    <2>3. (\E b \in Byte : b # Prefix /\ c = <<b>>) \/ (\E b \in Byte : c = <<Prefix, b>>)
      BY DEF Opcodes, Byte
    <2> QED  BY <2>1, <2>2, <2>3
  <1>3. Len(method) \in Nat /\ DOMAIN method = 1 .. Len(method)
    <2> HIDE DEF Item
    <2> QED  BY <1>1
  <1>4. ASSUME NEW k \in 1 .. Len(method)
        PROVE  method[k].code \in Opcodes /\ method[k].arg \in Seq(Byte)
    <2>1. method[k] \in Item
      <3> HIDE DEF Item
      <3> QED  BY <1>1
    <2> QED  BY <2>1
  <1>5. ASSUME NEW c \in Seq(Byte), NEW a \in Seq(Byte)
        PROVE  c \o a \in Seq(Byte) /\ Len(c \o a) = Len(c) + Len(a)
    OBVIOUS
  <1> QED  BY <1>2, <1>3, <1>4, <1>5 DEF Bytes

WholeSo(w, none) ==
    [k \in 0 .. Len(method) |-> IF k = 0 THEN none ELSE WholeStep(k, w[k - 1])]

LEMMA WholeIs ==
    ASSUME method \in ILMethods
    PROVE  /\ Len(method) \in Nat /\ DOMAIN method = 1 .. Len(method)
           /\ \A k \in 0 .. Len(method) : Whole[k] \in Seq(Byte)
           /\ Whole[0] = <<>>
           /\ \A k \in 1 .. Len(method) : /\ Bytes(method[k]) \in Seq(Byte)
                                          /\ Whole[k] = Whole[k - 1] \o Bytes(method[k])
  <1> DEFINE n == Len(method)
             D == Seq(Byte)
             none == <<>>
             upTo[k \in 0 .. n] == IF k = 0 THEN <<>> ELSE upTo[k - 1] \o Bytes(method[k])
             F == [k \in 1 .. n |-> [bs \in D |-> WholeStep(k, bs)]]
  <1>1. n \in Nat /\ DOMAIN method = 1 .. n /\ \A k \in 1 .. n : Bytes(method[k]) \in D
    BY Written
  <1>2. ASSUME NEW k \in 1 .. n, NEW bs \in D
        PROVE  WholeStep(k, bs) \in D
    <2>1. Bytes(method[k]) \in D
      BY <1>1
    <2> QED  BY <2>1 DEF WholeStep
  <1>3. F \in [1 .. n -> [D -> D]]
    BY <1>2
  <1>4. \A k \in 1 .. n, bs \in D : F[k][bs] = WholeStep(k, bs)
    OBVIOUS
  <1>5. none \in D
    OBVIOUS
  <1> HIDE DEF F, n, D, none, upTo
  <1>6. PICK w : Recurs(w, D, F, none, n)
    BY <1>1, <1>3, <1>5, Recursion
  <1>7. /\ w \in [0 .. n -> D] /\ w[0] = none
        /\ \A k \in 1 .. n : w[k] = F[k][w[k - 1]]
    BY <1>6 DEF Recurs
  <1>8. \A k \in 1 .. n : w[k] = WholeStep(k, w[k - 1])
    <2>1. \A k \in 1 .. n : w[k - 1] \in D
      BY <1>1, <1>7
    <2> QED  BY <1>4, <1>7, <2>1
  <1>9. w = WholeSo(w, none)
    BY <1>1, <1>7, <1>8 DEF WholeSo, n
  <1>10. upTo = WholeSo(upTo, none)
    <2>1. \E v : v = WholeSo(v, none)
      BY <1>9
    <2> QED  BY <2>1, Zenon DEF WholeSo, WholeStep, none, upTo, n
  <1>11. Whole = upTo
    BY Zenon DEF Whole, upTo, n
  <1>12. Whole[0] = none /\ \A k \in 1 .. n : Whole[k] = WholeStep(k, Whole[k - 1])
    <2> DEFINE v == WholeSo(upTo, none)
    <2>1. v[0] = none /\ \A k \in 1 .. n : v[k] = WholeStep(k, upTo[k - 1])
      BY <1>1 DEF WholeSo, n
    <2> HIDE DEF v
    <2> QED  BY <1>10, <1>11, <2>1 DEF v
  <1>13. \A k \in 0 .. n : Whole[k] \in D
    <2> DEFINE S == {k \in 0 .. n : Whole[k] \in D}
    <2>1. 0 \in S
      BY <1>1, <1>5, <1>12
    <2>2. ASSUME NEW k \in 0 .. n, k \in S, k < n PROVE k + 1 \in S
      <3>1. k + 1 \in 1 .. n /\ (k + 1) - 1 = k
        BY <1>1, <2>2
      <3> QED  BY <1>1, <1>2, <1>12, <2>2, <3>1
    <2> HIDE DEF S
    <2>3. 0 .. n \subseteq S
      BY <1>1, <2>1, <2>2, UpTo
    <2> QED  BY <2>3 DEF S
  <1> QED  BY <1>1, <1>12, <1>13 DEF WholeStep, n, D, none

\* Instructions lie one behind the other, and each is where Start says.
LEMMA Places ==
    ASSUME method \in ILMethods, NEW m \in 0 .. Len(method)
    PROVE  \A k \in 0 .. m :
              /\ Len(Whole[k]) <= Len(Whole[m])
              /\ \A i \in 1 .. Len(Whole[k]) : Whole[m][i] = Whole[k][i]
  <1> DEFINE n == Len(method)
             Fits(k) == /\ Len(Whole[k]) <= Len(Whole[m])
                        /\ \A i \in 1 .. Len(Whole[k]) : Whole[m][i] = Whole[k][i]
             S == {j \in 0 .. m : Fits(m - j)}
  <1>1. /\ n \in Nat /\ DOMAIN method = 1 .. n
        /\ \A k \in 0 .. n : Whole[k] \in Seq(Byte)
        /\ \A k \in 1 .. n : Whole[k] = Whole[k - 1] \o Bytes(method[k]) /\ Bytes(method[k]) \in Seq(Byte)
    BY WholeIs
  <1> HIDE DEF n
  <1>2. ASSUME NEW k \in 1 .. n
        PROVE  /\ Len(Whole[k - 1]) <= Len(Whole[k])
               /\ \A i \in 1 .. Len(Whole[k - 1]) : Whole[k][i] = Whole[k - 1][i]
    <2>1. Whole[k - 1] \in Seq(Byte) /\ Bytes(method[k]) \in Seq(Byte)
      BY <1>1
    <2> QED  BY <1>1, <2>1
  <1>3. m \in 0 .. n
    BY DEF n
  <1>4. 0 \in S
    BY <1>1, <1>3
  <1>5. ASSUME NEW j \in 0 .. m, j \in S, j < m
        PROVE  j + 1 \in S
    <2> DEFINE k == m - j
    <2>1. k \in 1 .. n /\ k - 1 = m - (j + 1) /\ Fits(k)
      BY <1>1, <1>3, <1>5
    <2> HIDE DEF k
    <2>2. Len(Whole[k - 1]) \in Nat /\ Len(Whole[k]) \in Nat /\ Len(Whole[m]) \in Nat
      <3>1. k - 1 \in 0 .. n /\ k \in 0 .. n /\ m \in 0 .. n
        BY <1>1, <1>3, <2>1
      <3> QED  BY <1>1, <3>1
    <2>3. Fits(k - 1)
      BY <1>2, <2>1, <2>2
    <2> HIDE DEF Fits
    <2> QED  BY <1>3, <1>5, <2>1, <2>3
  <1> HIDE DEF S
  <1>6. 0 .. m \subseteq S
    <2>1. m \in Nat
      BY <1>1, <1>3
    <2> QED  BY <1>4, <1>5, <2>1, UpTo
  <1>7. ASSUME NEW k \in 0 .. m
        PROVE  Fits(k)
    <2>1. m - k \in 0 .. m /\ m - (m - k) = k
      BY <1>1, <1>3
    <2>2. m - k \in S
      BY <1>6, <2>1
    <2> QED  BY <2>1, <2>2 DEF S
  <1> QED  BY <1>7

\* Where the k-th instruction lies, and its bytes there.
LEMMA PlaceOf ==
    ASSUME method \in ILMethods, NEW k \in 1 .. Len(method)
    PROVE  LET all == Whole[Len(method)]
               bs  == Bytes(method[k])
           IN  /\ Start(k) \in Nat /\ Start(k + 1) = Start(k) + Len(bs)
               /\ Start(k + 1) <= Len(all) /\ Len(bs) > 0
               /\ \A i \in 1 .. Len(bs) : all[Start(k) + i] = bs[i]
  <1> DEFINE n == Len(method)
             all == Whole[n]
             bs == Bytes(method[k])
             before == Whole[k - 1]
             upto == Whole[k]
  <1>1. /\ n \in Nat /\ k \in 1 .. n /\ k \in 0 .. n /\ k - 1 \in 0 .. n /\ n \in 0 .. n
    BY WholeIs
  <1>2. before \in Seq(Byte) /\ bs \in Seq(Byte) /\ upto = before \o bs
    BY <1>1, WholeIs
  <1>3. Len(bs) > 0
    <2> DEFINE c == method[k].code
               a == method[k].arg
    <2>1. /\ a \in Seq(Byte) /\ Len(bs) = Len(c) + Len(a)
          /\ IF c[1] = Prefix THEN Len(c) = 2 ELSE Len(c) = 1
      BY <1>1, Written
    <2> HIDE DEF a, bs, c
    <2> QED  BY <2>1
  <1>4. /\ Len(upto) <= Len(all)
        /\ \A i \in 1 .. Len(upto) : all[i] = upto[i]
    BY <1>1, Places
  <1>5. Start(k) = Len(before) /\ Start(k + 1) = Len(upto)
    <2>1. (k + 1) - 1 = k
      BY <1>1
    <2> QED  BY <2>1, Zenon DEF Start
  <1> HIDE DEF n, all, bs, before, upto
  <1>6. /\ Len(upto) = Len(before) + Len(bs) /\ Len(before) \in Nat /\ Len(bs) \in Nat
        /\ \A i \in 1 .. Len(bs) : upto[Len(before) + i] = bs[i]
    BY <1>2
  <1>7. \A i \in 1 .. Len(bs) : Len(before) + i \in 1 .. Len(upto)
    BY <1>6
  <1> QED  BY <1>3, <1>4, <1>5, <1>6, <1>7 DEF all, bs, n

\* The bytes given are a beginning of the bytes written.
DataIsPrefix ==
    /\ method \in ILMethods /\ behind \in Byte
    /\ Len(data) \in Nat /\ Len(data) <= Len(Whole[Len(method)])
    /\ \A i \in 1 .. Len(data) : data[i] = Whole[Len(method)][i] /\ data[i] \in Byte

\* The parser has met no operand it measures wrongly, nor the end of the bytes.
Following(k) == Start(k + 1) <= Len(data) /\ \A j \in 1 .. k : InStep(method[j])

Parsed(length) == [opcode : Nat, offset : 0 .. length, operand : Seq(Byte)]

PositionRight ==
    Len(parsed) <= Len(method) /\ Following(Len(parsed)) => position = Start(Len(parsed) + 1)

EntriesRight ==
    \A k \in DOMAIN method \cap DOMAIN parsed : Following(k - 1) /\ Start(k + 1) <= Len(data) =>
        /\ parsed[k].offset = Start(k)
        /\ parsed[k].opcode = Named(method[k])
        /\ InStep(method[k]) => parsed[k].operand = LastWord(method[k].arg)

NoneBehind ==
    (\A k \in DOMAIN method : InStep(method[k])) /\ Len(data) = Start(Len(method) + 1) =>
        ~overran /\ Len(parsed) <= Len(method)

ParserInv ==
    /\ DataIsPrefix
    /\ position \in 0 .. Len(data) + 9 /\ overran \in BOOLEAN
    /\ parsed \in Seq(Parsed(Len(data)))
    /\ PositionRight /\ EntriesRight /\ NoneBehind

\* An instruction that lies at the position, whole, is read as it was written.
LEMMA ReadAsWritten ==
    ASSUME DataIsPrefix, NEW k \in 1 .. Len(method), Start(k + 1) <= Len(data)
    PROVE  /\ OpcodeAt(Start(k)) = Named(method[k])
           /\ OpcodeSize(Start(k)) = Len(method[k].code)
           /\ Start(k) \in Nat /\ Start(k) < Len(data)
           /\ Start(k + 1) = Start(k) + Len(method[k].code) + Len(method[k].arg)
           /\ \A i \in 1 .. Len(method[k].arg) :
                 ByteAt(Start(k) + Len(method[k].code) + i - 1) = method[k].arg[i]
  <1> DEFINE c == method[k].code
             a == method[k].arg
             bs == Bytes(method[k])
             s == Start(k)
  <1>1. /\ c \in Seq(Byte) /\ a \in Seq(Byte) /\ c[1] \in Byte
        /\ IF c[1] = Prefix THEN Len(c) = 2 /\ c[2] \in Byte ELSE Len(c) = 1
        /\ bs \in Seq(Byte) /\ Len(bs) = Len(c) + Len(a) /\ bs = c \o a
    BY Written DEF DataIsPrefix, Bytes
  <1>2. /\ s \in Nat /\ Start(k + 1) = s + Len(bs) /\ Start(k + 1) <= Len(Whole[Len(method)])
        /\ Len(bs) > 0
        /\ \A i \in 1 .. Len(bs) : Whole[Len(method)][s + i] = bs[i]
    BY PlaceOf DEF DataIsPrefix
  <1>3. Named(method[k]) = IF c[1] = Prefix THEN 65024 + c[2] ELSE c[1]
    BY DEF Named
  <1>4. Len(data) \in Nat /\ \A i \in 1 .. Len(data) : data[i] = Whole[Len(method)][i]
    BY DEF DataIsPrefix
  <1> HIDE DEF c, a, bs, s
  <1>5. /\ \A i \in 1 .. Len(c) : bs[i] = c[i]
        /\ \A i \in 1 .. Len(a) : bs[Len(c) + i] = a[i]
        /\ Len(c) \in Nat /\ Len(a) \in Nat
    BY <1>1
  <1>6. \A i \in 1 .. Len(bs) : s + i - 1 < Len(data) /\ ByteAt(s + i - 1) = bs[i]
    <2> SUFFICES ASSUME NEW i \in 1 .. Len(bs)
                 PROVE  s + i - 1 < Len(data) /\ ByteAt(s + i - 1) = bs[i]
      OBVIOUS
    <2> DEFINE x == s + i - 1
    <2>1. s + i \in 1 .. Len(data) /\ x < Len(data) /\ x + 1 = s + i
      BY <1>1, <1>2, <1>4, <1>5
    <2>2. Whole[Len(method)][s + i] = bs[i]
      BY <1>2
    <2>3. data[s + i] = bs[i]
      BY <1>4, <2>1, <2>2
    <2> HIDE DEF x
    <2>4. ByteAt(x) = data[x + 1]
      BY <2>1 DEF ByteAt
    <2> QED  BY <2>1, <2>3, <2>4 DEF x
  <1>7. Len(c) >= 1 /\ ByteAt(s) = c[1]
    <2>1. Len(c) >= 1 /\ 1 \in 1 .. Len(c) /\ 1 \in 1 .. Len(bs) /\ s + 1 - 1 = s
      BY <1>1, <1>2, <1>5
    <2> QED  BY <1>5, <1>6, <2>1
  <1>8. c[1] = Prefix => ByteAt(s + 1) = c[2]
    <2> SUFFICES ASSUME c[1] = Prefix PROVE ByteAt(s + 1) = c[2]
      OBVIOUS
    <2>1. Len(c) = 2
      BY <1>1
    <2>2. 2 \in 1 .. Len(c) /\ 2 \in 1 .. Len(bs) /\ s + 2 - 1 = s + 1
      BY <1>1, <1>2, <1>5, <2>1
    <2> QED  BY <1>5, <1>6, <2>2
  <1>9. ASSUME NEW i \in 1 .. Len(a)
        PROVE  ByteAt(s + Len(c) + i - 1) = a[i]
    <2>1. Len(c) + i \in 1 .. Len(bs) /\ s + (Len(c) + i) - 1 = s + Len(c) + i - 1
      BY <1>1, <1>2, <1>5
    <2> QED  BY <1>5, <1>6, <2>1
  <1>10. OpcodeAt(s) = Named(method[k]) /\ OpcodeSize(s) = Len(c)
    BY <1>1, <1>3, <1>7, <1>8 DEF OpcodeAt, OpcodeSize
  <1>11. s < Len(data) /\ Start(k + 1) = s + Len(c) + Len(a)
    BY <1>1, <1>2, <1>4, <1>5
  <1> QED  BY <1>2, <1>9, <1>10, <1>11 DEF s, c, a

\* Of an operand of the width the opcode has, what is kept is its last word.
LEMMA KeptIsLastWord ==
    ASSUME NEW op, NEW bs \in Seq(Byte), Width(op) = Len(bs)
    PROVE  Kept(op, bs) = LastWord(bs)
  <1>1. Len(bs) = 8 => Len(bs) - 3 = 5
    OBVIOUS
  <1>2. CASE op = Ldc_R8Op
    <2>1. op \notin OneByte /\ op \notin FourBytes
      BY <1>2 DEF Ldc_R8Op, OneByte, FourBytes
    <2>2. Len(bs) = 8
      BY <1>2, <2>1 DEF Width
    <2> QED  BY <1>1, <1>2, <2>2 DEF Kept, LastWord
  <1>3. CASE op # Ldc_R8Op
    <2>1. Len(bs) \in {0, 1, 4}
      BY <1>3 DEF Width
    <2> QED  BY <1>3, <2>1 DEF Kept, LastWord
  <1> QED  BY <1>2, <1>3

\* The code only reads forward, by ten bytes at most.
LEMMA OneForward ==
    ASSUME DataIsPrefix, NEW p \in Nat, p < Len(data)
    PROVE  /\ OpcodeAt(p) \in Nat /\ OpcodeSize(p) \in {1, 2}
           /\ Width(OpcodeAt(p)) \in {0, 1, 4, 8}
  <1>1. ASSUME NEW i \in Nat
        PROVE  ByteAt(i) \in Byte
    BY DEF ByteAt, DataIsPrefix
  <1>2. ByteAt(p) \in 0 .. 255 /\ ByteAt(p + 1) \in 0 .. 255
    BY <1>1 DEF Byte
  <1>3. OpcodeAt(p) \in Nat
    <2> DEFINE x == ByteAt(p)
               y == ByteAt(p + 1)
    <2>1. OpcodeAt(p) = IF x = Prefix THEN 65024 + y ELSE x
      BY DEF OpcodeAt
    <2>2. x \in 0 .. 255 /\ y \in 0 .. 255
      BY <1>2
    <2> HIDE DEF x, y
    <2> QED  BY <2>1, <2>2
  <1>4. Width(OpcodeAt(p)) \in {0, 1, 4, 8}
    BY DEF Width
  <1> QED  BY <1>3, <1>4 DEF OpcodeSize

\* What a sequence is made of.
LEMMA ElementsOf ==
    ASSUME NEW S, NEW s \in Seq(S)
    PROVE  /\ Len(s) \in Nat /\ DOMAIN s = 1 .. Len(s)
           /\ \A i \in 1 .. Len(s) : s[i] \in S
  OBVIOUS

\* The upper half of eight bytes.
LEMMA LastOfEight ==
    \A s \in Seq(Byte) : Len(s) = 8 => SubSeq(s, 5, 8) \in Seq(Byte)
  <1> SUFFICES ASSUME NEW s \in Seq(Byte), Len(s) = 8 PROVE SubSeq(s, 5, 8) \in Seq(Byte)
    OBVIOUS
  <1> DEFINE q == [i \in 1 .. 4 |-> s[i + 4]]
  <1>1. \A i \in 1 .. 4 : s[i + 4] \in Byte
    <2>1. \A j \in 1 .. Len(s) : s[j] \in Byte
      BY ElementsOf, Zenon
    <2>2. \A i \in 1 .. 4 : i + 4 \in 1 .. 8
      OBVIOUS
    <2> QED  BY <2>1, <2>2
  <1>2. q \in Seq(Byte)
    BY <1>1
  <1>3. SubSeq(s, 5, 8) = q
    OBVIOUS
  <1> QED  BY <1>2, <1>3

\* One DecodeInstruction, wherever the parser is.
LEMMA DecodeKeeps == ParserInv /\ ParserNext => ParserInv'
  <1> SUFFICES ASSUME ParserInv, ParserNext PROVE ParserInv'
    OBVIOUS
  <1> DEFINE n == Len(method)
             at == Len(parsed) + 1
             op == OpcodeAt(position)
             size == OpcodeSize(position)
             width == Width(op)
             taken == [i \in 1 .. width |-> ByteAt(position + size + i - 1)]
             operand == Kept(op, taken)
             new == [opcode |-> op, offset |-> position, operand |-> operand]
             Item == Parsed(Len(data))
             Right(k, e) == /\ e.offset = Start(k)
                            /\ e.opcode = Named(method[k])
                            /\ InStep(method[k]) => e.operand = LastWord(method[k].arg)
  <1>1. /\ position < Len(data) /\ UNCHANGED <<method, data, behind>>
        /\ parsed' = Append(parsed, new)
        /\ position' = position + size + width
        /\ overran' = (overran \/ position' > Len(data))
    BY DEF ParserNext, DecodeInstruction
  <1>2. /\ DataIsPrefix /\ Len(data) \in Nat /\ position \in Nat
        /\ parsed \in Seq(Item)
        /\ n \in Nat /\ DOMAIN method = 1 .. n
    BY Written DEF ParserInv, DataIsPrefix
  <1>3. /\ op \in Nat /\ size \in {1, 2} /\ width \in {0, 1, 4, 8}
    BY <1>1, <1>2, OneForward
  <1>4. position' \in 0 .. Len(data) + 9 /\ position' > position
    <2> HIDE DEF size, width
    <2> QED  BY <1>1, <1>2, <1>3
  <1>5. overran' \in BOOLEAN
    BY <1>1, Zenon DEF ParserInv
  <1>6. taken \in Seq(Byte) /\ Len(taken) = width
    <2>1. ASSUME NEW i \in 1 .. width
          PROVE  ByteAt(position + size + i - 1) \in Byte
      <3> DEFINE p == position + size + i - 1
      <3>1. p \in Nat
        <4> HIDE DEF size, width
        <4> QED  BY <1>2, <1>3
      <3> HIDE DEF p
      <3>2. ByteAt(p) \in Byte
        BY <1>2, <3>1 DEF ByteAt, DataIsPrefix
      <3> QED  BY <3>2 DEF p
    <2> HIDE DEF size, width
    <2> QED  BY <1>3, <2>1
  <1>7. operand \in Seq(Byte)
    <2> HIDE DEF taken, width
    <2>1. op = Ldc_R8Op => width = 8
      BY DEF width, Width, Ldc_R8Op, OneByte, FourBytes
    <2>2. ASSUME op = Ldc_R8Op
          PROVE  SubSeq(taken, 5, 8) \in Seq(Byte)
      <3>1. Len(taken) = 8 /\ taken \in Seq(Byte)
        BY <1>6, <2>1, <2>2
      <3> QED  BY <3>1, LastOfEight, Zenon
    <2> QED  BY <1>6, <2>2 DEF Kept
  <1>8. new \in Item
    <2>1. position \in 0 .. Len(data)
      BY <1>1, <1>2
    <2> HIDE DEF op, operand
    <2> QED  BY <1>3, <1>7, <2>1 DEF Parsed
  <1>9. new.opcode = op /\ new.offset = position /\ new.operand = operand
    OBVIOUS
  <1> HIDE DEF new, Item
  <1>10. /\ Len(parsed) \in Nat /\ DOMAIN parsed = 1 .. Len(parsed)
         /\ parsed' \in Seq(Item) /\ Len(parsed') = at /\ DOMAIN parsed' = 1 .. at
         /\ parsed'[at] = new /\ \A k \in 1 .. Len(parsed) : parsed'[k] = parsed[k]
    BY <1>1, <1>2, <1>8
  <1>11. Whole' = Whole
    BY <1>1 DEF Whole, Bytes
  <1>12. DataIsPrefix'
    BY <1>1, <1>2, <1>11 DEF DataIsPrefix
  \* The instruction read, when the parser is where it was written.
  <1>13. ASSUME at <= n, Following(at - 1), Start(at + 1) <= Len(data)
         PROVE  /\ Right(at, new)
                /\ InStep(method[at]) => position' = Start(at + 1)
    <2>1. at - 1 = Len(parsed) /\ at \in 1 .. n
      BY <1>2, <1>10, <1>13
    <2>2. position = Start(at)
      BY <1>2, <1>13, <2>1 DEF ParserInv, PositionRight
    <2> DEFINE a == method[at].arg
               c == method[at].code
    <2>3. /\ op = Named(method[at]) /\ size = Len(c)
          /\ Start(at + 1) = Start(at) + Len(c) + Len(a)
          /\ \A i \in 1 .. Len(a) : ByteAt(Start(at) + Len(c) + i - 1) = a[i]
      BY <1>2, <1>13, <2>1, <2>2, ReadAsWritten
    <2>4. a \in Seq(Byte)
      BY <1>2, <2>1, Written DEF DataIsPrefix
    <2>5. ASSUME InStep(method[at])
          PROVE  operand = LastWord(a) /\ position' = Start(at + 1)
      <3>1. width = Len(a)
        BY <2>3, <2>5 DEF InStep
      <3>2. \A i \in 1 .. Len(a) : taken[i] = a[i]
        BY <2>2, <2>3, <3>1
      <3>3. taken = a
        <4> HIDE DEF taken, a, width
        <4> QED  BY <1>6, <2>4, <3>1, <3>2
      <3>4. operand = LastWord(a)
        <4>1. Kept(op, a) = LastWord(a)
          <5> HIDE DEF a
          <5> QED  BY <2>4, <3>1, KeptIsLastWord
        <4> QED  BY <3>3, <4>1
      <3> QED  BY <1>1, <2>2, <2>3, <3>1, <3>4
    <2> QED  BY <1>9, <2>2, <2>3, <2>5
  <1> HIDE DEF op, size, width, taken, operand
  <1>15. PositionRight'
    <2> SUFFICES ASSUME at <= n, Following(at) PROVE position' = Start(at + 1)
      BY <1>1, <1>10, <1>11 DEF PositionRight, Following, Start
    <2>1. Start(at + 1) <= Len(data) /\ InStep(method[at]) /\ \A j \in 1 .. at - 1 : InStep(method[j])
      BY <1>10 DEF Following
    <2>2. Start(at) <= Start(at + 1) /\ Start(at) \in Nat /\ Start(at + 1) \in Nat
      <3>1. at \in 1 .. n
        BY <1>2, <1>10
      <3>2. /\ Start(at) \in Nat /\ Start(at + 1) = Start(at) + Len(Bytes(method[at]))
            /\ Len(Bytes(method[at])) > 0 /\ Bytes(method[at]) \in Seq(Byte)
        BY <1>2, <3>1, PlaceOf, WholeIs DEF DataIsPrefix
      <3> QED  BY <3>2
    <2>3. Following(at - 1)
      BY <1>2, <1>10, <2>1, <2>2 DEF Following
    <2> QED  BY <1>13, <2>1, <2>3
  <1>16. EntriesRight'
    <2> SUFFICES ASSUME NEW k \in 1 .. n, k \in 1 .. at, Following(k - 1), Start(k + 1) <= Len(data)
                 PROVE  Right(k, parsed'[k])
      BY <1>1, <1>2, <1>10, <1>11 DEF EntriesRight, Following, Start
    <2>1. CASE k = at
      BY <1>10, <1>13, <2>1
    <2>2. CASE k # at
      <3>1. k \in 1 .. Len(parsed) /\ parsed'[k] = parsed[k]
        BY <1>10, <2>2
      <3> QED  BY <1>2, <1>10, <3>1 DEF ParserInv, EntriesRight
    <2> QED  BY <2>1, <2>2
  <1>17. NoneBehind'
    <2> SUFFICES ASSUME \A k \in 1 .. n : InStep(method[k]), Len(data) = Start(n + 1)
                 PROVE  ~overran' /\ at <= n
      BY <1>1, <1>2, <1>10, <1>11 DEF NoneBehind, Start
    <2>1. ~overran /\ Len(parsed) <= n
      BY <1>2 DEF ParserInv, NoneBehind
    <2>2. \A k \in 0 .. n : Start(k + 1) \in Nat /\ Start(k + 1) <= Len(data)
      <3> SUFFICES ASSUME NEW k \in 0 .. n PROVE Start(k + 1) \in Nat /\ Start(k + 1) <= Len(data)
        OBVIOUS
      <3>1. /\ Start(k + 1) = Len(Whole[k]) /\ Start(n + 1) = Len(Whole[n])
            /\ n \in 0 .. n /\ (k + 1) - 1 = k /\ (n + 1) - 1 = n
        BY <1>2 DEF Start
      <3>2. Whole[k] \in Seq(Byte) /\ Len(Whole[k]) <= Len(Whole[n])
        BY <1>2, <3>1, WholeIs, Places DEF DataIsPrefix
      <3> QED  BY <3>1, <3>2
    <2>3. \A k \in 0 .. n : Following(k)
      BY <1>2, <2>2 DEF Following
    <2>4. position = Start(Len(parsed) + 1)
      BY <1>10, <2>1, <2>3 DEF ParserInv, PositionRight
    <2>5. at <= n
      <3>1. Len(parsed) # n
        BY <1>1, <2>4
      <3>2. Len(parsed) \in Nat /\ n \in Nat
        BY <1>2, <1>10
      <3> HIDE DEF n
      <3> QED  BY <2>1, <3>1, <3>2
    <2>6. position' = Start(at + 1) /\ Start(at + 1) <= Len(data)
      BY <1>2, <1>10, <1>13, <2>2, <2>3, <2>5
    <2>7. ~(position' > Len(data))
      BY <1>2, <1>4, <2>6
    <2> QED  BY <1>1, <2>1, <2>5, <2>7
  <1>18. parsed' \in Seq(Parsed(Len(data))')
    BY <1>1, <1>10 DEF Parsed, Item
  <1>19. position' \in 0 .. Len(data') + 9
    BY <1>1, <1>4
  <1> QED  BY <1>5, <1>12, <1>15, <1>16, <1>17, <1>18, <1>19, Zenon DEF ParserInv

LEMMA ParserStarts == ParserInit => ParserInv
  <1> SUFFICES ASSUME ParserInit PROVE ParserInv
    OBVIOUS
  <1> DEFINE n == Len(method)
             all == Whole[n]
  <1>1. /\ method \in ILMethods /\ behind \in Byte
        /\ position = 0 /\ parsed = <<>> /\ overran = FALSE
    BY ParserConstantsAssumption DEF ParserInit, ParserConstantsAssumption, Byte
  <1>2. n \in Nat /\ all \in Seq(Byte) /\ DOMAIN method = 1 .. n
    <2>1. Len(method) \in Nat /\ \A k \in 0 .. Len(method) : Whole[k] \in Seq(Byte)
      BY <1>1, WholeIs
    <2> QED  BY <1>1, <2>1, Written
  <1>3. PICK cut \in CutShort : data = SubSeq(all, 1, Len(all) - cut)
    BY DEF ParserInit
  <1>4. cut \in Nat
    BY ParserConstantsAssumption DEF ParserConstantsAssumption
  <1> HIDE DEF all
  <1>5. /\ data \in Seq(Byte) /\ Len(data) \in Nat /\ Len(data) <= Len(all)
        /\ \A i \in 1 .. Len(data) : data[i] = all[i]
    <2>1. CASE Len(all) - cut >= 1
      <3>1. Len(all) - cut \in 1 .. Len(all)
        BY <1>2, <1>4, <2>1
      <3> QED  BY <1>2, <1>3, <3>1
    <2>2. CASE ~(Len(all) - cut >= 1)
      <3>1. data = <<>>
        BY <1>2, <1>3, <1>4, <2>2
      <3> QED  BY <1>2, <3>1
    <2> QED  BY <2>1, <2>2
  <1>6. \A i \in 1 .. Len(data) : data[i] \in Byte
    BY <1>5
  <1>7. DataIsPrefix
    BY <1>1, <1>5, <1>6 DEF DataIsPrefix, all
  <1>8. Start(1) = 0
    <2>1. Whole[0] = <<>>
      BY <1>1, WholeIs
    <2>2. 1 - 1 = 0
      OBVIOUS
    <2> QED  BY <2>1, <2>2 DEF Start
  <1>9. Len(parsed) = 0 /\ DOMAIN parsed = {}
    BY <1>1
  <1>10. PositionRight
    BY <1>1, <1>8, <1>9 DEF PositionRight
  <1>11. position \in 0 .. Len(data) + 9
    BY <1>1, <1>5
  <1>12. parsed \in Seq(Parsed(Len(data)))
    BY <1>1
  <1>13. overran \in BOOLEAN
    BY <1>1, Zenon
  <1>14. EntriesRight
    BY <1>9 DEF EntriesRight
  <1>15. NoneBehind
    BY <1>1, <1>2, <1>9 DEF NoneBehind
  <1> QED  BY <1>7, <1>10, <1>11, <1>12, <1>13, <1>14, <1>15 DEF ParserInv

LEMMA ParserSteps == ParserInv /\ [ParserNext]_parserVars => ParserInv'
  <1> SUFFICES ASSUME ParserInv, UNCHANGED parserVars PROVE ParserInv'
    BY DecodeKeeps
  <1>1. UNCHANGED <<method, data, behind, position, parsed, overran>>
    BY DEF parserVars
  <1>2. Whole' = Whole
    BY <1>1 DEF Whole, Bytes
  <1>3. DataIsPrefix => DataIsPrefix'
    BY <1>1, <1>2 DEF DataIsPrefix
  <1>4. PositionRight => PositionRight'
    BY <1>1, <1>2 DEF PositionRight, Following, Start
  <1>5. EntriesRight => EntriesRight'
    BY <1>1, <1>2 DEF EntriesRight, Following, Start
  <1>6. NoneBehind => NoneBehind'
    BY <1>1, <1>2 DEF NoneBehind, Start
  <1> QED  BY <1>1, <1>3, <1>4, <1>5, <1>6, Zenon DEF ParserInv

LEMMA ParserInvariant == ParserSpec => []ParserInv
  <1>1. ParserInit => ParserInv
    BY ParserStarts
  <1>2. ParserInv /\ [ParserNext]_parserVars => ParserInv'
    BY ParserSteps
  <1> QED  BY <1>1, <1>2, PTL DEF ParserSpec

LEMMA ParserInvSuffices == ParserInv => ParserInStep /\ ParserTypeOK
  <1> SUFFICES ASSUME ParserInv PROVE ParserInStep /\ ParserTypeOK
    OBVIOUS
  <1> DEFINE n == Len(method)
             size == Len(data)
             k == Len(parsed)
             Item == Parsed(size)
  <1>1. /\ DataIsPrefix /\ parsed \in Seq(Item)
        /\ PositionRight /\ EntriesRight /\ NoneBehind
    BY DEF ParserInv
  <1>2. n \in Nat /\ DOMAIN method = 1 .. n /\ size \in Nat
    BY <1>1, Written DEF DataIsPrefix
  <1>3. /\ k \in Nat /\ DOMAIN parsed = 1 .. k
        /\ \A j \in 1 .. k : parsed[j] \in Item
    <2> HIDE DEF Item
    <2> QED  BY <1>1
  <1>4. \A j \in 1 .. n :
            /\ Start(j) \in Nat /\ Start(j + 1) \in Nat /\ Start(j) < Start(j + 1)
    <2> SUFFICES ASSUME NEW j \in 1 .. n
                 PROVE  Start(j) \in Nat /\ Start(j + 1) \in Nat /\ Start(j) < Start(j + 1)
      OBVIOUS
    <2>1. /\ Start(j) \in Nat /\ Start(j + 1) = Start(j) + Len(Bytes(method[j]))
          /\ Len(Bytes(method[j])) > 0 /\ Bytes(method[j]) \in Seq(Byte)
      BY <1>1, PlaceOf, WholeIs DEF DataIsPrefix
    <2>2. Len(Bytes(method[j])) \in Nat
      BY <2>1
    <2> QED  BY <2>1, <2>2
  <1>5. \A j \in 0 .. n : Start(j + 1) \in Nat /\ Start(j + 1) <= Start(n + 1)
    <2> SUFFICES ASSUME NEW j \in 0 .. n
                 PROVE  Start(j + 1) \in Nat /\ Start(j + 1) <= Start(n + 1)
      OBVIOUS
    <2>1. Len(Whole[j]) <= Len(Whole[n]) /\ Whole[j] \in Seq(Byte)
      <3>1. n \in 0 .. n
        BY <1>2
      <3> QED  BY <1>1, <3>1, Places, WholeIs DEF DataIsPrefix
    <2>2. (j + 1) - 1 = j /\ (n + 1) - 1 = n
      <3> HIDE DEF n
      <3> QED  BY <1>2
    <2>3. Len(Whole[j]) \in Nat
      BY <2>1
    <2> QED  BY <2>1, <2>2, <2>3 DEF Start
  <1>6. ASSUME NEW j \in DOMAIN method \cap DOMAIN parsed,
               Start(j + 1) <= size, \A i \in 1 .. j - 1 : InStep(method[i])
        PROVE  /\ parsed[j].offset = Start(j)
               /\ parsed[j].opcode = Named(method[j])
               /\ InStep(method[j]) => parsed[j].operand = LastWord(method[j].arg)
    <2>1. Start(j) <= size /\ (j - 1) + 1 = j
      <3> HIDE DEF n, k, size
      <3>1. j \in 1 .. n
        BY <1>2, <1>6
      <3> QED  BY <1>2, <1>4, <1>6, <3>1
    <2>2. Following(j - 1)
      BY <1>6, <2>1 DEF Following
    <2> QED  BY <1>1, <1>6, <2>2 DEF EntriesRight
  <1>7. ASSUME \A j \in DOMAIN method : InStep(method[j]), size = Start(n + 1)
        PROVE  ~overran /\ (position = size => k = n)
    <2>1. ~overran /\ k <= n
      BY <1>1, <1>7 DEF NoneBehind
    <2> SUFFICES ASSUME position = size, k # n PROVE FALSE
      BY <2>1
    <2>2. /\ k \in 0 .. n /\ k + 1 \in 1 .. n /\ k + 1 \in 0 .. n
          /\ \A j \in 1 .. k : j \in 1 .. n
      <3> HIDE DEF n, k
      <3> QED  BY <1>2, <1>3, <2>1
    <2>3. Start(k + 1) < size
      <3>1. /\ Start(k + 1) \in Nat /\ Start((k + 1) + 1) \in Nat
            /\ Start(k + 1) < Start((k + 1) + 1)
        BY <1>4, <2>2
      <3>2. Start((k + 1) + 1) <= Start(n + 1)
        BY <1>5, <2>2
      <3> HIDE DEF n, k, size
      <3> QED  BY <1>2, <1>7, <3>1, <3>2
    <2>4. Following(k)
      <3>1. Start(k + 1) <= size
        <4>1. Start(k + 1) \in Nat
          BY <1>4, <2>2
        <4> HIDE DEF size, k
        <4> QED  BY <1>2, <2>3, <4>1
      <3>2. \A j \in 1 .. k : InStep(method[j])
        BY <1>2, <1>7, <2>2
      <3> QED  BY <3>1, <3>2 DEF Following
    <2>5. position = Start(k + 1)
      BY <1>1, <2>1, <2>4 DEF PositionRight
    <2>6. size < size
      BY <2>3, <2>5
    <2> HIDE DEF size
    <2> QED  BY <1>2, <2>6
  <1>8. ParserInStep
    BY <1>6, <1>7, Zenon DEF ParserInStep
  <1>9. \A j \in DOMAIN parsed : parsed[j].opcode \in Nat /\ parsed[j].offset \in 0 .. size
    <2> SUFFICES ASSUME NEW j \in 1 .. k
                 PROVE  parsed[j].opcode \in Nat /\ parsed[j].offset \in 0 .. size
      BY <1>3
    <2> DEFINE r == parsed[j]
    <2>1. r \in [opcode : Nat, offset : 0 .. size, operand : Seq(Byte)]
      BY <1>3 DEF Parsed
    <2> HIDE DEF r, size
    <2>2. r.opcode \in Nat /\ r.offset \in 0 .. size
      BY <2>1
    <2> QED  BY <2>2 DEF r
  <1>10. ParserTypeOK
    BY <1>9 DEF ParserTypeOK, ParserInv
  <1> QED  BY <1>8, <1>10

\* Up to the first instruction whose operand the parser measures wrongly, it
\* finds the instructions where they were written, with their opcodes and
\* operands, and reads nothing behind the bytes of a whole file without one
\* (il_parser.cpp:7-17, 34-143).
THEOREM ParserStaysInStep == ParserSpec => []ParserInStep
  <1>1. ParserInv => ParserInStep
    BY ParserInvSuffices
  <1> QED  BY <1>1, ParserInvariant, PTL

\* The parser reads nine bytes behind the data at most (il_parser.cpp:34-124).
THEOREM ParserTypes == ParserSpec => []ParserTypeOK
  <1>1. ParserInv => ParserTypeOK
    BY ParserInvSuffices
  <1> QED  BY <1>1, ParserInvariant, PTL

-------------------------------------------------------------------------------
(* The compiler: what is written in the buffer *)

Emitters ==
    {e \in [code : Seq(0 .. 256), offset : Nat] : Len(e.code) >= 1 /\ e.offset <= Len(e.code)}

\* Sixteen times what it was is always enough.
LEMMA NewSizeIs ==
    ASSUME NEW em \in Emitters, NEW n \in 1 .. 8
    PROVE  NewSize(em, n) \in Nat /\ NewSize(em, n) >= em.offset + n
  <1> DEFINE L == Len(em.code)
             enough == {k \in {2, 4, 8, 16} : k * L >= em.offset + n}
             Least(k) == \A j \in enough : k <= j
  <1>1. L \in Nat /\ L >= 1 /\ em.offset \in Nat /\ em.offset <= L
    BY DEF Emitters
  <1>2. 16 \in enough
    BY <1>1
  <1>3. enough \in SUBSET Nat /\ enough # {}
    <2>1. \A k \in enough : k \in {2, 4, 8, 16}
      OBVIOUS
    <2> HIDE DEF enough
    <2> QED  BY <1>2, <2>1
  <1>4. \A k \in enough : k \in Nat /\ k * L >= em.offset + n
    BY <1>3
  <1> HIDE DEF enough, L
  <1>5. \E k \in enough : Least(k)
    BY <1>3, HasLeast
  <1> DEFINE k == CHOOSE k \in enough : Least(k)
  <1>6. k \in enough
    BY <1>5
  <1>7. NewSize(em, n) = L * k
    BY DEF NewSize, enough, L
  <1> HIDE DEF k
  <1>8. k \in Nat /\ k * L >= em.offset + n /\ L * k = k * L /\ L * k \in Nat
    BY <1>1, <1>4, <1>6
  <1> QED  BY <1>1, <1>7, <1>8

\* The buffer after Grow, if there is need for it.
Room(em, n) == IF em.offset + n > Len(em.code) THEN Grow(em, n) ELSE em.code

\* It has room for what is to come, and what was written is where it was.
LEMMA RoomIs ==
    ASSUME NEW em \in Emitters, NEW n \in 1 .. 8
    PROVE  /\ Room(em, n) \in Seq(0 .. 256) /\ Len(Room(em, n)) >= em.offset + n
           /\ \A i \in 1 .. em.offset : Room(em, n)[i] = em.code[i]
  <1>1. /\ em.code \in Seq(0 .. 256) /\ Len(em.code) \in Nat /\ em.offset \in Nat
        /\ em.offset <= Len(em.code)
    BY DEF Emitters
  <1>2. CASE em.offset + n > Len(em.code)
    <2> DEFINE size == NewSize(em, n)
    <2>1. size \in Nat /\ size >= em.offset + n
      BY NewSizeIs
    <2>2. Room(em, n) = [i \in 1 .. size |-> IF i <= em.offset THEN em.code[i] ELSE 256]
      BY <1>2 DEF Room, Grow, Unwritten
    <2> HIDE DEF size
    <2>3. \A i \in 1 .. size : i <= em.offset => em.code[i] \in 0 .. 256
      <3>1. \A i \in 1 .. Len(em.code) : em.code[i] \in 0 .. 256
        BY <1>1, ElementsOf, Zenon
      <3>2. \A i \in 1 .. size : i <= em.offset => i \in 1 .. Len(em.code)
        BY <1>1, <2>1
      <3> QED  BY <3>1, <3>2
    <2>4. Room(em, n) \in [1 .. size -> 0 .. 256]
      BY <1>1, <2>1, <2>2, <2>3
    <2>5. Room(em, n) \in Seq(0 .. 256) /\ Len(Room(em, n)) = size
      BY <2>1, <2>4
    <2>6. \A i \in 1 .. em.offset : i \in 1 .. size /\ i <= em.offset
      BY <1>1, <2>1
    <2> QED  BY <2>1, <2>2, <2>5, <2>6
  <1>3. CASE ~(em.offset + n > Len(em.code))
    BY <1>1, <1>3 DEF Room
  <1> QED  BY <1>2, <1>3

\* Emitting keeps what was written and puts the new bytes behind it.
LEMMA EmittedIs ==
    ASSUME NEW em \in Emitters, NEW bs \in Seq(Byte), Len(bs) \in 1 .. 8
    PROVE  /\ Emitted(em, bs) \in Emitters
           /\ Emitted(em, bs).offset = em.offset + Len(bs)
           /\ \A i \in 1 .. em.offset : Emitted(em, bs).code[i] = em.code[i]
           /\ \A i \in 1 .. Len(bs) : Emitted(em, bs).code[em.offset + i] = bs[i]
  <1> DEFINE n == Len(bs)
             room == Room(em, n)
             L == Len(room)
             o == em.offset
             Value(i) == IF i \in o + 1 .. o + n THEN bs[i - o] ELSE room[i]
             out == [i \in 1 .. L |-> Value(i)]
  <1>1. o \in Nat /\ n \in 1 .. 8
    BY DEF Emitters
  <1>2. room \in Seq(0 .. 256) /\ L >= o + n /\ \A i \in 1 .. o : room[i] = em.code[i]
    BY RoomIs
  <1>3. L \in Nat /\ DOMAIN room = 1 .. L /\ \A i \in 1 .. L : room[i] \in 0 .. 256
    <2> QED  BY <1>2, ElementsOf, Zenon
  <1>4. Emitted(em, bs) = [code |-> out, offset |-> o + n]
    <2>1. DOMAIN room = 1 .. L
      BY <1>3
    <2>2. Emitted(em, bs) = [code |-> [i \in DOMAIN room |-> Value(i)], offset |-> o + n]
      BY DEF Emitted, Room
    <2> HIDE DEF room, L, n, o
    <2> QED  BY <2>1, <2>2
  <1>5. \A i \in 1 .. n : bs[i] \in 0 .. 256
    <2>1. \A i \in 1 .. n : bs[i] \in Byte
      BY ElementsOf, Zenon
    <2> QED  BY <2>1 DEF Byte
  <1> HIDE DEF room, L, n, o
  <1>6. \A i \in 1 .. L : Value(i) \in 0 .. 256
    <2> TAKE i \in 1 .. L
    <2>1. CASE i \in o + 1 .. o + n
      <3>1. i - o \in 1 .. n
        BY <1>1, <2>1
      <3> QED  BY <1>5, <2>1, <3>1
    <2>2. CASE i \notin o + 1 .. o + n
      BY <1>3, <2>2
    <2> QED  BY <2>1, <2>2
  <1>7. \A i \in 1 .. o : i \in 1 .. L /\ Value(i) = em.code[i]
    BY <1>1, <1>2, <1>3
  <1>8. \A i \in 1 .. n : o + i \in 1 .. L /\ Value(o + i) = bs[i]
    BY <1>1, <1>2, <1>3
  <1>9. out \in Seq(0 .. 256) /\ Len(out) = L
    <2> HIDE DEF Value
    <2>1. out \in [1 .. L -> 0 .. 256]
      BY <1>6
    <2> HIDE DEF out
    <2> QED  BY <1>3, <2>1
  <1>10. /\ \A i \in 1 .. o : out[i] = em.code[i]
         /\ \A i \in 1 .. n : out[o + i] = bs[i]
    <2> HIDE DEF Value
    <2> QED  BY <1>7, <1>8
  <1> HIDE DEF out
  <1>11. [code |-> out, offset |-> o + n] \in Emitters
    BY <1>1, <1>2, <1>3, <1>9 DEF Emitters
  <1> QED  BY <1>4, <1>10, <1>11 DEF n, o

\* What the emitter has written.
Holds(em, bs) ==
    /\ em \in Emitters /\ bs \in Seq(Byte) /\ em.offset = Len(bs)
    /\ \A i \in 1 .. Len(bs) : em.code[i] = bs[i]

\* Emitting adds to what is written, and to nothing else.
LEMMA HoldsMore ==
    ASSUME NEW em, NEW bs, Holds(em, bs), NEW more \in Seq(Byte), Len(more) \in 1 .. 8
    PROVE  Holds(Emitted(em, more), bs \o more)
  <1> DEFINE out == Emitted(em, more)
             n == Len(bs)
  <1>1. /\ em \in Emitters /\ bs \in Seq(Byte) /\ em.offset = n
        /\ \A i \in 1 .. n : em.code[i] = bs[i]
    BY DEF Holds
  <1>2. /\ out \in Emitters /\ out.offset = n + Len(more)
        /\ \A i \in 1 .. n : out.code[i] = em.code[i]
        /\ \A i \in 1 .. Len(more) : out.code[n + i] = more[i]
    <2>1. em \in Emitters /\ em.offset = n
      BY <1>1
    <2>2. /\ out \in Emitters /\ out.offset = em.offset + Len(more)
          /\ \A i \in 1 .. em.offset : out.code[i] = em.code[i]
          /\ \A i \in 1 .. Len(more) : out.code[em.offset + i] = more[i]
      BY <2>1, EmittedIs, Zenon
    <2> HIDE DEF out
    <2> QED  BY <2>1, <2>2, Zenon
  <1>3. /\ bs \o more \in Seq(Byte) /\ Len(bs \o more) = n + Len(more) /\ n \in Nat
        /\ \A i \in 1 .. n : (bs \o more)[i] = bs[i]
        /\ \A i \in 1 .. Len(more) : (bs \o more)[n + i] = more[i]
    BY <1>1
  <1> HIDE DEF out, n
  <1>4. \A i \in 1 .. n + Len(more) : i \in 1 .. n \/ (i - n \in 1 .. Len(more) /\ n + (i - n) = i)
    BY <1>3
  <1>5. \A i \in 1 .. n + Len(more) : out.code[i] = (bs \o more)[i]
    <2> TAKE i \in 1 .. n + Len(more)
    <2>1. CASE i \in 1 .. n
      BY <1>1, <1>2, <1>3, <2>1
    <2>2. CASE i - n \in 1 .. Len(more) /\ n + (i - n) = i
      <3> DEFINE j == i - n
      <3>1. j \in 1 .. Len(more) /\ n + j = i
        BY <2>2
      <3> HIDE DEF j
      <3>2. out.code[n + j] = more[j] /\ (bs \o more)[n + j] = more[j]
        BY <1>2, <1>3, <3>1
      <3> QED  BY <3>1, <3>2
    <2> QED  BY <1>4, <2>1, <2>2
  <1>6. Holds(out, bs \o more)
    BY <1>2, <1>3, <1>5 DEF Holds
  <1> QED  BY <1>6 DEF out

\* What Compile copies out of the buffer is what was written.
LEMMA HoldsAll ==
    ASSUME NEW em, NEW bs, Holds(em, bs)
    PROVE  SubSeq(em.code, 1, em.offset) = bs
  <1>1. /\ em.code \in Seq(0 .. 256) /\ em.offset <= Len(em.code) /\ bs \in Seq(Byte)
        /\ em.offset = Len(bs) /\ \A i \in 1 .. Len(bs) : em.code[i] = bs[i]
    BY DEF Holds, Emitters
  <1> QED  BY <1>1

LEMMA WordIs ==
    ASSUME NEW n \in Int
    PROVE  Word(n) \in Seq(Byte) /\ Len(Word(n)) = 4
  <1>1. \A m \in Int : m % 256 \in Byte
    BY DEF Byte
  <1>2. n \div 256 \in Int /\ n \div 65536 \in Int /\ n \div 16777216 \in Int
    OBVIOUS
  <1> DEFINE a == n % 256
             b == (n \div 256) % 256
             c == (n \div 65536) % 256
             d == (n \div 16777216) % 256
  <1>3. Word(n) = <<a, b, c, d>>
    BY DEF Word
  <1>4. a \in Byte /\ b \in Byte /\ c \in Byte /\ d \in Byte
    BY <1>1, <1>2
  <1> HIDE DEF a, b, c, d
  <1>5. <<a, b, c, d>> \in Seq(Byte) /\ Len(<<a, b, c, d>>) = 4
    BY <1>4
  <1> QED  BY <1>3, <1>5

\* Two sequences joined.
LEMMA Joined ==
    ASSUME NEW S, NEW s \in Seq(S), NEW t \in Seq(S)
    PROVE  s \o t \in Seq(S) /\ Len(s \o t) = Len(s) + Len(t)
  OBVIOUS

\* Two emitters that have written the same, whatever else is in their buffers.
Alike(em, fm) == \E bs : Holds(em, bs) /\ Holds(fm, bs)

\* They stay alike when the same is emitted in both: bytes, a byte, a word of 32
\* bits and one of 64.
LEMMA EmittedAlike ==
    ASSUME NEW em, NEW fm, Alike(em, fm), NEW more \in Seq(Byte), Len(more) \in 1 .. 8
    PROVE  Alike(Emitted(em, more), Emitted(fm, more))
  <1>1. PICK bs : Holds(em, bs) /\ Holds(fm, bs)
    BY DEF Alike
  <1>2. Holds(Emitted(em, more), bs \o more) /\ Holds(Emitted(fm, more), bs \o more)
    BY <1>1, HoldsMore
  <1> QED  BY <1>2, Zenon DEF Alike

LEMMA EmitAlike ==
    ASSUME NEW em, NEW fm, Alike(em, fm), NEW byte \in Byte
    PROVE  Alike(Emit(em, byte), Emit(fm, byte))
  <1>1. <<byte>> \in Seq(Byte) /\ Len(<<byte>>) \in 1 .. 8
    OBVIOUS
  <1> QED  BY <1>1, EmittedAlike, Zenon DEF Emit

LEMMA Emit32Alike ==
    ASSUME NEW em, NEW fm, Alike(em, fm), NEW n \in Int
    PROVE  Alike(Emit32(em, n), Emit32(fm, n))
  <1>1. Word(n) \in Seq(Byte) /\ Len(Word(n)) \in 1 .. 8
    BY WordIs
  <1> QED  BY <1>1, EmittedAlike, Zenon DEF Emit32

LEMMA Emit64Alike ==
    ASSUME NEW em, NEW fm, Alike(em, fm), NEW n \in Int
    PROVE  Alike(Emit64(em, n), Emit64(fm, n))
  <1> DEFINE low == Word(n)
             high == Word((n \div 65536) \div 65536)
  <1>1. n \div 65536 \in Int
    OBVIOUS
  <1>2. (n \div 65536) \div 65536 \in Int
    BY <1>1
  <1>3. /\ low \in Seq(Byte) /\ Len(low) = 4
        /\ high \in Seq(Byte) /\ Len(high) = 4
    <2> DEFINE m == (n \div 65536) \div 65536
    <2>1. m \in Int
      BY <1>2
    <2> HIDE DEF m
    <2>2. Word(m) \in Seq(Byte) /\ Len(Word(m)) = 4
      BY <2>1, WordIs
    <2>3. Word(n) \in Seq(Byte) /\ Len(Word(n)) = 4
      BY WordIs
    <2> QED  BY <2>2, <2>3 DEF m
  <1>4. \A e : Emit64(e, n) = Emitted(e, low \o high)
    BY DEF Emit64
  <1> HIDE DEF low, high
  <1>5. low \o high \in Seq(Byte) /\ Len(low \o high) \in 1 .. 8
    <2>1. low \o high \in Seq(Byte) /\ Len(low \o high) = Len(low) + Len(high)
      BY <1>3, Joined, Zenon
    <2> QED  BY <1>3, <2>1
  <1> QED  BY <1>4, <1>5, EmittedAlike, Zenon

\* They stay alike through each call of the emitter, for any of the eight registers
\* that need no prefix.
LEMMA ModRMAlike ==
    ASSUME NEW em, NEW fm, Alike(em, fm), NEW mod \in 0 .. 3, NEW r \in 0 .. 7, NEW s \in 0 .. 7
    PROVE  Alike(EmitModRM(em, mod, r, s), EmitModRM(fm, mod, r, s))
  <1> DEFINE byte == 64 * mod + 8 * r + s
  <1>1. byte \in Byte
    BY DEF Byte
  <1>2. EmitModRM(em, mod, r, s) = Emit(em, byte) /\ EmitModRM(fm, mod, r, s) = Emit(fm, byte)
    BY Zenon DEF EmitModRM
  <1> HIDE DEF byte
  <1> QED  BY <1>1, <1>2, EmitAlike, Zenon

LEMMA CallsAlike ==
    ASSUME NEW em, NEW fm, Alike(em, fm), NEW r \in 0 .. 7, NEW s \in 0 .. 7, NEW n \in Int
    PROVE  /\ Alike(PushReg(em, r), PushReg(fm, r))
           /\ Alike(PopReg(em, r), PopReg(fm, r))
           /\ Alike(Ret(em), Ret(fm))
           /\ Alike(MovRegImm32(em, r, n), MovRegImm32(fm, r, n))
           /\ Alike(MovRegImm64(em, r, n), MovRegImm64(fm, r, n))
           /\ Alike(MovRegMem(em, r, s, n), MovRegMem(fm, r, s, n))
           /\ Alike(AddRegReg(em, r, s), AddRegReg(fm, r, s))
           /\ Alike(SubRegReg(em, r, s), SubRegReg(fm, r, s))
           /\ Alike(ImulRegReg(em, r, s), ImulRegReg(fm, r, s))
  <1>1. /\ 80 + r \in Byte /\ 88 + r \in Byte /\ 184 + r \in Byte /\ n % 256 \in Byte
        /\ 195 \in Byte /\ 139 \in Byte /\ 1 \in Byte /\ 41 \in Byte /\ 15 \in Byte /\ 175 \in Byte
        /\ 1 \in 0 .. 3 /\ 3 \in 0 .. 3
    BY DEF Byte
  <1>2. Alike(PushReg(em, r), PushReg(fm, r))
    BY <1>1, EmitAlike, Zenon DEF PushReg
  <1>3. Alike(PopReg(em, r), PopReg(fm, r))
    BY <1>1, EmitAlike, Zenon DEF PopReg
  <1>4. Alike(Ret(em), Ret(fm))
    BY <1>1, EmitAlike, Zenon DEF Ret
  <1>5. Alike(Emit(em, 184 + r), Emit(fm, 184 + r))
    BY <1>1, EmitAlike, Zenon
  <1>6. Alike(MovRegImm32(em, r, n), MovRegImm32(fm, r, n))
    BY <1>5, Emit32Alike, Zenon DEF MovRegImm32
  <1>7. Alike(MovRegImm64(em, r, n), MovRegImm64(fm, r, n))
    BY <1>5, Emit64Alike, Zenon DEF MovRegImm64
  <1>8. Alike(MovRegMem(em, r, s, n), MovRegMem(fm, r, s, n))
    <2>1. Alike(Emit(em, 139), Emit(fm, 139))
      BY <1>1, EmitAlike, Zenon
    <2>2. Alike(EmitModRM(Emit(em, 139), 1, r, s), EmitModRM(Emit(fm, 139), 1, r, s))
      BY <1>1, <2>1, ModRMAlike, Zenon
    <2> QED  BY <1>1, <2>2, EmitAlike, Zenon DEF MovRegMem
  <1>9. Alike(AddRegReg(em, r, s), AddRegReg(fm, r, s))
    <2>1. Alike(Emit(em, 1), Emit(fm, 1))
      BY <1>1, EmitAlike, Zenon
    <2> QED  BY <1>1, <2>1, ModRMAlike, Zenon DEF AddRegReg
  <1>10. Alike(SubRegReg(em, r, s), SubRegReg(fm, r, s))
    <2>1. Alike(Emit(em, 41), Emit(fm, 41))
      BY <1>1, EmitAlike, Zenon
    <2> QED  BY <1>1, <2>1, ModRMAlike, Zenon DEF SubRegReg
  <1>11. Alike(ImulRegReg(em, r, s), ImulRegReg(fm, r, s))
    <2>1. Alike(Emit(em, 15), Emit(fm, 15))
      BY <1>1, EmitAlike, Zenon
    <2>2. Alike(Emit(Emit(em, 15), 175), Emit(Emit(fm, 15), 175))
      BY <1>1, <2>1, EmitAlike, Zenon
    <2> QED  BY <1>1, <2>2, ModRMAlike, Zenon DEF ImulRegReg
  <1> QED  BY <1>2, <1>3, <1>4, <1>6, <1>7, <1>8, <1>9, <1>10, <1>11

\* The registers Compile uses are such.
LEMMA RegistersAre == RAX \in 0 .. 7 /\ RBX \in 0 .. 7 /\ RSP \in 0 .. 7 /\ RBP \in 0 .. 7
  BY DEF RAX, RBX, RSP, RBP

-------------------------------------------------------------------------------
(* The compiler: a body, one instruction after the other *)

Instructions == [op : STRING, n : Int]

\* Every opcode of the switch.
LEMMA TranslatedAlike ==
    ASSUME NEW em, NEW fm, Alike(em, fm), NEW i \in Instructions
    PROVE  Alike(Translated(em, i), Translated(fm, i))
  <1>1. i.n \in Int
    BY DEF Instructions
  <1>2. "Add" \notin Constants /\ "Sub" \notin Constants /\ "Mul" \notin Constants
    BY DEF Constants
  <1>3. Alike(PopReg(em, RBX), PopReg(fm, RBX))
    BY <1>1, RegistersAre, CallsAlike, Zenon
  <1>4. CASE i.op \in Constants
    <2>1. /\ Translated(em, i) = MovRegImm32(em, RAX, i.n)
          /\ Translated(fm, i) = MovRegImm32(fm, RAX, i.n)
      BY <1>2, <1>4, Zenon DEF Translated
    <2> QED  BY <1>1, <2>1, RegistersAre, CallsAlike, Zenon
  <1>5. CASE i.op = "Add"
    <2>1. /\ Translated(em, i) = AddRegReg(PopReg(em, RBX), RAX, RBX)
          /\ Translated(fm, i) = AddRegReg(PopReg(fm, RBX), RAX, RBX)
      BY <1>2, <1>5, Zenon DEF Translated
    <2> QED  BY <1>1, <1>3, <2>1, RegistersAre, CallsAlike, Zenon
  <1>6. CASE i.op = "Sub"
    <2>1. /\ Translated(em, i) = SubRegReg(PopReg(em, RBX), RAX, RBX)
          /\ Translated(fm, i) = SubRegReg(PopReg(fm, RBX), RAX, RBX)
      BY <1>2, <1>6, Zenon DEF Translated
    <2> QED  BY <1>1, <1>3, <2>1, RegistersAre, CallsAlike, Zenon
  <1>7. CASE i.op = "Mul"
    <2>1. /\ Translated(em, i) = ImulRegReg(PopReg(em, RBX), RAX, RBX)
          /\ Translated(fm, i) = ImulRegReg(PopReg(fm, RBX), RAX, RBX)
      BY <1>2, <1>7, Zenon DEF Translated
    <2> QED  BY <1>1, <1>3, <2>1, RegistersAre, CallsAlike, Zenon
  <1>8. CASE i.op \notin Constants /\ i.op # "Add" /\ i.op # "Sub" /\ i.op # "Mul"
    <2>1. Translated(em, i) = em /\ Translated(fm, i) = fm
      BY <1>8, Zenon DEF Translated
    <2> QED  BY <2>1, Zenon
  <1> QED  BY <1>4, <1>5, <1>6, <1>7, <1>8, Zenon

\* The prologue, with and without locals, and the epilogue.
LEMMA PrologueAlike ==
    ASSUME NEW em, NEW fm, Alike(em, fm), NEW locals \in Nat
    PROVE  Alike(PrologueMade(em, locals), PrologueMade(fm, locals))
  <1>1. /\ 72 \in Byte /\ 137 \in Byte /\ 129 \in Byte /\ 0 \in Int /\ 8 * locals \in Int
        /\ 3 \in 0 .. 3 /\ 5 \in 0 .. 7
    BY DEF Byte
  <1>2. Alike(FrameMade(em), FrameMade(fm))
    <2>1. Alike(PushReg(em, RBP), PushReg(fm, RBP))
      BY <1>1, RegistersAre, CallsAlike, Zenon
    <2> DEFINE e1 == MovRegImm64(PushReg(em, RBP), RBP, 0)
               f1 == MovRegImm64(PushReg(fm, RBP), RBP, 0)
    <2>2. Alike(e1, f1)
      BY <1>1, <2>1, RegistersAre, CallsAlike, Zenon
    <2>3. FrameMade(em) = EmitModRM(Emit(Emit(e1, 72), 137), 3, RSP, RBP)
      BY Zenon DEF FrameMade
    <2>4. FrameMade(fm) = EmitModRM(Emit(Emit(f1, 72), 137), 3, RSP, RBP)
      BY Zenon DEF FrameMade
    <2> HIDE DEF e1, f1
    <2>5. Alike(Emit(e1, 72), Emit(f1, 72))
      BY <1>1, <2>2, EmitAlike, Zenon
    <2>6. Alike(Emit(Emit(e1, 72), 137), Emit(Emit(f1, 72), 137))
      BY <1>1, <2>5, EmitAlike, Zenon
    <2>7. Alike(EmitModRM(Emit(Emit(e1, 72), 137), 3, RSP, RBP),
                EmitModRM(Emit(Emit(f1, 72), 137), 3, RSP, RBP))
      BY <1>1, <2>6, RegistersAre, ModRMAlike, Zenon
    <2> QED  BY <2>3, <2>4, <2>7, Zenon
  <1>3. Alike(LocalsMade(FrameMade(em), 8 * locals), LocalsMade(FrameMade(fm), 8 * locals))
    <2> DEFINE e1 == FrameMade(em)
               f1 == FrameMade(fm)
    <2>1. Alike(e1, f1)
      BY <1>2
    <2> HIDE DEF e1, f1
    <2>2. Alike(Emit(e1, 72), Emit(f1, 72))
      BY <1>1, <2>1, EmitAlike, Zenon
    <2>3. Alike(Emit(Emit(e1, 72), 129), Emit(Emit(f1, 72), 129))
      BY <1>1, <2>2, EmitAlike, Zenon
    <2>4. Alike(EmitModRM(Emit(Emit(e1, 72), 129), 3, 5, RSP),
                EmitModRM(Emit(Emit(f1, 72), 129), 3, 5, RSP))
      BY <1>1, <2>3, RegistersAre, ModRMAlike, Zenon
    <2>5. Alike(LocalsMade(e1, 8 * locals), LocalsMade(f1, 8 * locals))
      BY <1>1, <2>4, Emit32Alike, Zenon DEF LocalsMade
    <2> QED  BY <2>5 DEF e1, f1
  <1> QED  BY <1>2, <1>3, Zenon DEF PrologueMade

LEMMA EpilogueAlike ==
    ASSUME NEW em, NEW fm, Alike(em, fm)
    PROVE  Alike(EpilogueMade(em), EpilogueMade(fm))
  <1>1. 0 \in Int
    OBVIOUS
  <1> DEFINE e1 == MovRegMem(em, RSP, RBP, 0)
             f1 == MovRegMem(fm, RSP, RBP, 0)
  <1>2. Alike(e1, f1)
    BY <1>1, RegistersAre, CallsAlike, Zenon
  <1>3. EpilogueMade(em) = Ret(PopReg(e1, RBP)) /\ EpilogueMade(fm) = Ret(PopReg(f1, RBP))
    BY Zenon DEF EpilogueMade
  <1> HIDE DEF e1, f1
  <1>4. Alike(PopReg(e1, RBP), PopReg(f1, RBP))
    BY <1>1, <1>2, RegistersAre, CallsAlike, Zenon
  <1>5. Alike(Ret(PopReg(e1, RBP)), Ret(PopReg(f1, RBP)))
    BY <1>1, <1>4, RegistersAre, CallsAlike, Zenon
  <1> QED  BY <1>3, <1>5, Zenon

\* Emitters that have written bytes, and nothing else, before their offset.
EmittersSoFar == {e \in Emitters : Alike(e, e)}
EmittedTo(f, em, b) ==
    [k \in 0 .. Len(b.code) |-> IF k = 0 THEN PrologueMade(em, b.max_locals)
                                ELSE Translated(f[k - 1], b.code[k])]

LEMMA AlikeIsSoFar ==
    ASSUME NEW em, Alike(em, em)
    PROVE  em \in EmittersSoFar
  BY DEF EmittersSoFar, Alike, Holds

\* The loop of Compile, step by step.
LEMMA CompiledIs ==
    ASSUME NEW b \in [max_locals : Nat, code : Seq(Instructions)], NEW em, Alike(em, em)
    PROVE  \E w : /\ w[0] = PrologueMade(em, b.max_locals)
                  /\ \A k \in 1 .. Len(b.code) : w[k] = Translated(w[k - 1], b.code[k])
                  /\ CompiledIn(em, b) = EpilogueMade(w[Len(b.code)])
  <1> DEFINE n == Len(b.code)
             D == EmittersSoFar
             a == PrologueMade(em, b.max_locals)
             upTo[k \in 0 .. n] ==
                 IF k = 0 THEN PrologueMade(em, b.max_locals)
                          ELSE Translated(upTo[k - 1], b.code[k])
             F == [k \in 1 .. n |-> [e \in D |-> Translated(e, b.code[k])]]
  <1>1. n \in Nat /\ b.max_locals \in Nat /\ \A k \in 1 .. n : b.code[k] \in Instructions
    <2>1. b.max_locals \in Nat /\ b.code \in Seq(Instructions)
      OBVIOUS
    <2> QED  BY <2>1, ElementsOf
  <1>2. a \in D
    BY <1>1, PrologueAlike, AlikeIsSoFar, Zenon
  <1>3. \A k \in 1 .. n, e \in D : Translated(e, b.code[k]) \in D
    <2> TAKE k \in 1 .. n, e \in D
    <2> DEFINE i == b.code[k]
    <2>1. i \in Instructions
      BY <1>1
    <2> HIDE DEF i
    <2>2. Alike(e, e)
      BY DEF EmittersSoFar
    <2>3. Alike(Translated(e, i), Translated(e, i))
      BY <2>1, <2>2, TranslatedAlike, Zenon
    <2>4. Translated(e, i) \in D
      BY <2>3, AlikeIsSoFar, Zenon
    <2> QED  BY <2>4 DEF i
  <1>4. F \in [1 .. n -> [D -> D]]
    BY <1>3
  <1>5. \A k \in 1 .. n, e \in D : F[k][e] = Translated(e, b.code[k])
    OBVIOUS
  <1> HIDE DEF F, n, a, upTo, D
  <1>6. PICK w : Recurs(w, D, F, a, n)
    BY <1>1, <1>2, <1>4, Recursion
  <1>7. /\ w \in [0 .. n -> D] /\ w[0] = a
        /\ \A k \in 1 .. n : w[k] = F[k][w[k - 1]]
    BY <1>6 DEF Recurs
  <1>8. \A k \in 1 .. n : w[k] = Translated(w[k - 1], b.code[k])
    <2>1. \A k \in 1 .. n : w[k - 1] \in D
      BY <1>1, <1>7
    <2> QED  BY <1>5, <1>7, <2>1
  <1>9. w = EmittedTo(w, em, b)
    BY <1>1, <1>7, <1>8 DEF EmittedTo, n, a
  <1>10. upTo = EmittedTo(upTo, em, b)
    <2>1. \E v : v = EmittedTo(v, em, b)
      BY <1>9
    <2> QED  BY <2>1, Zenon DEF EmittedTo, upTo, n
  <1>11. upTo[0] = a /\ \A k \in 1 .. n : upTo[k] = Translated(upTo[k - 1], b.code[k])
    <2> DEFINE v == EmittedTo(upTo, em, b)
    <2>1. v[0] = a /\ \A k \in 1 .. n : v[k] = Translated(upTo[k - 1], b.code[k])
      BY <1>1 DEF EmittedTo, n, a
    <2> HIDE DEF v
    <2> QED  BY <1>10, <2>1 DEF v
  <1>12. CompiledIn(em, b) = EpilogueMade(upTo[n])
    BY Zenon DEF CompiledIn, upTo, n
  <1> QED  BY <1>11, <1>12 DEF n, a

\* A body is compiled to the same bytes in any two emitters that start alike.
LEMMA CompiledAlike ==
    ASSUME NEW b \in [max_locals : Nat, code : Seq(Instructions)],
           NEW em, NEW fm, Holds(em, <<>>), Holds(fm, <<>>)
    PROVE  Alike(CompiledIn(em, b), CompiledIn(fm, b))
  <1> DEFINE n == Len(b.code)
  <1>1. n \in Nat /\ b.max_locals \in Nat /\ \A k \in 1 .. n : b.code[k] \in Instructions
    <2>1. b.max_locals \in Nat /\ b.code \in Seq(Instructions)
      OBVIOUS
    <2> QED  BY <2>1, ElementsOf
  <1>2. Alike(em, fm) /\ Alike(em, em) /\ Alike(fm, fm)
    BY Zenon DEF Alike
  <1>3. PICK w : /\ w[0] = PrologueMade(em, b.max_locals)
                 /\ \A k \in 1 .. n : w[k] = Translated(w[k - 1], b.code[k])
                 /\ CompiledIn(em, b) = EpilogueMade(w[n])
    BY <1>2, CompiledIs, Zenon
  <1>4. PICK v : /\ v[0] = PrologueMade(fm, b.max_locals)
                 /\ \A k \in 1 .. n : v[k] = Translated(v[k - 1], b.code[k])
                 /\ CompiledIn(fm, b) = EpilogueMade(v[n])
    BY <1>2, CompiledIs, Zenon
  <1> HIDE DEF n
  <1> DEFINE S == {k \in 0 .. n : Alike(w[k], v[k])}
  <1>5. 0 \in S
    <2>1. Alike(w[0], v[0])
      BY <1>1, <1>2, <1>3, <1>4, PrologueAlike
    <2> QED  BY <1>1, <2>1
  <1>6. ASSUME NEW k \in 0 .. n, k \in S, k < n PROVE k + 1 \in S
    <2> DEFINE i == b.code[k + 1]
    <2>1. k + 1 \in 1 .. n /\ (k + 1) - 1 = k /\ k + 1 \in 0 .. n
      BY <1>1, <1>6
    <2>2. w[k + 1] = Translated(w[k], i) /\ v[k + 1] = Translated(v[k], i) /\ i \in Instructions
      BY <1>1, <1>3, <1>4, <2>1
    <2> HIDE DEF i
    <2>3. Alike(w[k], v[k])
      BY <1>6
    <2>4. Alike(Translated(w[k], i), Translated(v[k], i))
      BY <2>2, <2>3, TranslatedAlike
    <2> QED  BY <2>1, <2>2, <2>4
  <1> HIDE DEF S
  <1>7. 0 .. n \subseteq S
    BY <1>1, <1>5, <1>6, UpTo
  <1>8. Alike(w[n], v[n])
    BY <1>1, <1>7 DEF S
  <1> QED  BY <1>3, <1>4, <1>8, EpilogueAlike

\* The bytes that a body is compiled to in a buffer of its own.
Alone(b) == Output(CompiledIn(Roomy(b), b))

\* What the buffer holds now does not matter; what was compiled is what the body
\* would be compiled to by itself.
JITInv ==
    /\ code_ \in Seq(0 .. 256) /\ Len(code_) >= 1 /\ offset_ \in 0 .. Len(code_)
    /\ compiles \in 0 .. MaxCompiles
    /\ DOMAIN compiled = DOMAIN body /\ DOMAIN compiled \subseteq JITMethods
    /\ \A m \in DOMAIN compiled : compiled[m] \in Seq(Byte) /\ compiled[m] = Alone(body[m])

\* A buffer of its own is one that holds nothing.
LEMMA RoomyIs ==
    ASSUME NEW b \in [max_locals : Nat, code : Seq(Instructions)]
    PROVE  Holds(Roomy(b), <<>>)
  <1> DEFINE size == 25 + 5 * Len(b.code)
  <1>1. Len(b.code) \in Nat
    OBVIOUS
  <1>2. size \in Nat /\ size >= 1
    BY <1>1
  <1> HIDE DEF size
  <1> DEFINE code == [i \in 1 .. size |-> 256]
  <1>3. Roomy(b) = [code |-> code, offset |-> 0]
    BY DEF Roomy, Unwritten, size
  <1>4. code \in [1 .. size -> 0 .. 256]
    OBVIOUS
  <1>5. code \in Seq(0 .. 256) /\ Len(code) = size
    BY <1>2, <1>4
  <1> HIDE DEF code
  <1>6. Roomy(b) \in Emitters /\ Roomy(b).offset = 0
    BY <1>2, <1>3, <1>5 DEF Emitters
  <1>7. <<>> \in Seq(Byte) /\ Len(<<>>) = 0 /\ 1 .. 0 = {}
    OBVIOUS
  <1> QED  BY <1>6, <1>7 DEF Holds

\* Compiling and invalidating keep it.
LEMMA JITInvHolds == JITSpec => []JITInv
  <1>1. JITInit => JITInv
    <2> SUFFICES ASSUME JITInit PROVE JITInv
      OBVIOUS
    <2>1. code_ = [i \in 1 .. InitialSize |-> 256] /\ InitialSize \in Nat /\ InitialSize >= 1
      BY JITConstantsAssumption DEF JITInit, Unwritten
    <2>2. code_ \in Seq(0 .. 256) /\ Len(code_) = InitialSize
      <3>1. code_ \in [1 .. InitialSize -> 0 .. 256]
        BY <2>1
      <3> QED  BY <2>1, <3>1
    <2>3. offset_ = 0 /\ compiles = 0 /\ compiled = <<>> /\ body = <<>> /\ MaxCompiles \in Nat
      BY JITConstantsAssumption DEF JITInit
    <2>4. DOMAIN compiled = {} /\ DOMAIN body = {}
      BY <2>3
    <2> QED  BY <2>1, <2>2, <2>3, <2>4 DEF JITInv
  <1>2. ASSUME JITInv, NEW m \in JITMethods, NEW b \in Bodies, Compile(m, b) PROVE JITInv'
    <2> DEFINE start == [code |-> code_, offset |-> 0]
               out == CompiledIn(start, b)
               own == CompiledIn(Roomy(b), b)
               bytes == Output(out)
    <2>1. /\ compiles < MaxCompiles /\ compiles' = compiles + 1
          /\ code_' = out.code /\ offset_' = out.offset
          /\ compiled' = Put(compiled, m, bytes) /\ body' = Put(body, m, b)
      BY <1>2 DEF Compile, Restarted
    <2>2. Holds(start, <<>>)
      <3>1. code_ \in Seq(0 .. 256) /\ Len(code_) >= 1 /\ Len(code_) \in Nat
        BY <1>2 DEF JITInv
      <3>2. start \in Emitters /\ start.offset = 0
        BY <3>1 DEF Emitters
      <3>3. <<>> \in Seq(Byte) /\ Len(<<>>) = 0 /\ 1 .. 0 = {}
        OBVIOUS
      <3> QED  BY <3>2, <3>3 DEF Holds
    <2>3. b \in [max_locals : Nat, code : Seq(Instructions)]
      BY JITConstantsAssumption DEF Instructions
    <2> HIDE DEF start
    <2>4. Alike(out, own)
      BY <2>2, <2>3, RoomyIs, CompiledAlike, Zenon
    <2> HIDE DEF out, own
    <2>5. PICK bs : Holds(out, bs) /\ Holds(own, bs)
      BY <2>4 DEF Alike
    <2>6. bytes = bs /\ Output(own) = bs /\ bs \in Seq(Byte)
      BY <2>5, HoldsAll DEF Holds, Output
    <2>7. bytes = Alone(b)
      BY <2>6 DEF Alone, own
    <2>8. code_' \in Seq(0 .. 256) /\ Len(code_') >= 1 /\ offset_' \in 0 .. Len(code_')
      <3>1. out \in Emitters
        BY <2>5 DEF Holds
      <3>2. /\ out.code \in Seq(0 .. 256) /\ out.offset \in Nat /\ Len(out.code) >= 1
            /\ out.offset <= Len(out.code)
        BY <3>1 DEF Emitters
      <3> HIDE DEF bytes
      <3>3. Len(out.code) \in Nat
        BY <3>2
      <3> QED  BY <2>1, <3>2, <3>3
    <2>9. compiles' \in 0 .. MaxCompiles
      BY <1>2, <2>1, JITConstantsAssumption DEF JITInv
    <2> HIDE DEF bytes
    <2>10. /\ DOMAIN compiled' = DOMAIN compiled \cup {m} /\ DOMAIN body' = DOMAIN body \cup {m}
           /\ \A x \in DOMAIN compiled' :
                 /\ compiled'[x] = IF x = m THEN bytes ELSE compiled[x]
                 /\ x \in DOMAIN body' => body'[x] = IF x = m THEN b ELSE body[x]
      BY <2>1 DEF Put
    <2>11. /\ DOMAIN compiled = DOMAIN body /\ DOMAIN compiled \subseteq JITMethods
           /\ \A x \in DOMAIN compiled : /\ compiled[x] \in Seq(Byte)
                                         /\ compiled[x] = Alone(body[x])
      BY <1>2 DEF JITInv
    <2>12. ASSUME NEW x \in DOMAIN compiled'
           PROVE  /\ compiled'[x] \in Seq(Byte)
                  /\ compiled'[x] = Alone(body'[x])
      <3>1. CASE x = m
        BY <2>6, <2>7, <2>10, <2>11, <3>1
      <3>2. CASE x # m
        BY <2>10, <2>11, <3>2
      <3> QED  BY <3>1, <3>2
    <2>13. DOMAIN compiled' = DOMAIN body' /\ DOMAIN compiled' \subseteq JITMethods
      BY <2>10, <2>11
    <2> QED  BY <2>8, <2>9, <2>12, <2>13 DEF JITInv
  <1>3. ASSUME JITInv, NEW ms, Invalidate(ms) PROVE JITInv'
    <2>1. /\ compiled' = Without(compiled, ms) /\ body' = Without(body, ms)
          /\ UNCHANGED <<code_, offset_, compiles>>
      BY <1>3 DEF Invalidate
    <2>2. /\ DOMAIN compiled' = DOMAIN compiled \ ms /\ DOMAIN body' = DOMAIN body \ ms
          /\ \A x \in DOMAIN compiled \ ms : compiled'[x] = compiled[x]
          /\ \A x \in DOMAIN body \ ms : body'[x] = body[x]
      BY <2>1 DEF Without
    <2>3. /\ DOMAIN compiled = DOMAIN body /\ DOMAIN compiled \subseteq JITMethods
          /\ \A x \in DOMAIN compiled : /\ compiled[x] \in Seq(Byte)
                                        /\ compiled[x] = Alone(body[x])
      BY <1>3 DEF JITInv
    <2>4. ASSUME NEW x \in DOMAIN compiled'
          PROVE  /\ compiled'[x] \in Seq(Byte)
                 /\ compiled'[x] = Alone(body'[x])
      BY <2>2, <2>3
    <2>5. DOMAIN compiled' = DOMAIN body' /\ DOMAIN compiled' \subseteq JITMethods
      BY <2>2, <2>3
    <2>6. /\ code_' \in Seq(0 .. 256) /\ Len(code_') >= 1 /\ offset_' \in 0 .. Len(code_')
          /\ compiles' \in 0 .. MaxCompiles
      BY <1>3, <2>1 DEF JITInv
    <2> QED  BY <2>4, <2>5, <2>6 DEF JITInv
  <1>4. JITInv /\ [JITNext]_jitVars => JITInv'
    <2> SUFFICES ASSUME JITInv, [JITNext]_jitVars PROVE JITInv'
      OBVIOUS
    <2>1. CASE \E m \in JITMethods : \E b \in Bodies : Compile(m, b)
      BY <1>2, <2>1
    <2>2. CASE \E m \in JITMethods : InvalidateMethod(m)
      BY <1>3, <2>2 DEF InvalidateMethod
    <2>3. CASE InvalidateAll
      BY <1>3, <2>3 DEF InvalidateAll
    <2>4. CASE UNCHANGED jitVars
      BY <2>4 DEF JITInv, jitVars
    <2> QED  BY <2>1, <2>2, <2>3, <2>4 DEF JITNext
  <1> QED  BY <1>1, <1>4, PTL DEF JITSpec

\* The bytes a method is given are those of the body it was last compiled from,
\* as they come out of a buffer of its own that never grows: whatever the shared
\* buffer held, however often it grew on the way and whatever was compiled since
\* (jit_compiler.cpp:23-38, 154-168, 239-281).
THEOREM CodeStaysOfBody == JITSpec => []CodeIsOfBody
  <1>1. JITInv => CodeIsOfBody
    BY Zenon DEF CodeIsOfBody, GetCompiledCode, JITInv, Alone
  <1> QED  BY <1>1, JITInvHolds, PTL

\* The offset stays in the buffer, and only bytes that were written are copied
\* out of it (jit_compiler.cpp:23-38, 154-163, 167-237).
THEOREM CompilerTypes == JITSpec => []JITTypeOK
  <1>1. JITInv => JITTypeOK
    <2> SUFFICES ASSUME JITInv PROVE JITTypeOK
      OBVIOUS
    <2>1. \A m \in DOMAIN compiled : \A i \in DOMAIN compiled[m] : compiled[m][i] \in 0 .. 255
      <3> TAKE m \in DOMAIN compiled
      <3>1. compiled[m] \in Seq(Byte)
        BY DEF JITInv
      <3> QED  BY <3>1, ElementsOf DEF Byte
    <2> QED  BY <2>1 DEF JITInv, JITTypeOK
  <1> QED  BY <1>1, JITInvHolds, PTL

-------------------------------------------------------------------------------
(* The parts together *)

\* In a behaviour of Services every part behaves as it does alone: who uses one
\* part leaves the others where they are, and what each part promises of its
\* own specification it promises here.
THEOREM PartsBehave ==
    Spec => /\ HPSpec /\ TypeSpec /\ SceneSpec /\ ParserSpec /\ HandlerSpec
            /\ CachesSpec /\ JITSpec /\ LoaderSpec /\ SharingSpec
  <1>1. Init => /\ HPInit /\ TypeInit /\ SceneInit /\ ParserInit /\ HandlerInit
                /\ CachesInit /\ JITInit /\ LoaderInit /\ SharingInit
    BY DEF Init, CachesInit
  <1>2. [Next]_vars => [HPNext]_hpVars
    BY Zenon DEF Next, UseMemory, UseTypes, UseScene, UseParser, UseHandler, UseCalls,
                 UseChecks, UseJIT, UseLoader, UseSharing, vars
  <1>3. [Next]_vars => [TypeNext]_typeVars
    BY Zenon DEF Next, UseMemory, UseTypes, UseScene, UseParser, UseHandler, UseCalls,
                 UseChecks, UseJIT, UseLoader, UseSharing, vars
  <1>4. [Next]_vars => [SceneNext]_sceneVars
    BY Zenon DEF Next, UseMemory, UseTypes, UseScene, UseParser, UseHandler, UseCalls,
                 UseChecks, UseJIT, UseLoader, UseSharing, vars
  <1>5. [Next]_vars => [ParserNext]_parserVars
    BY Zenon DEF Next, UseMemory, UseTypes, UseScene, UseParser, UseHandler, UseCalls,
                 UseChecks, UseJIT, UseLoader, UseSharing, vars
  <1>6. [Next]_vars => [HandlerNext]_handlerVars
    BY Zenon DEF Next, UseMemory, UseTypes, UseScene, UseParser, UseHandler, UseCalls,
                 UseChecks, UseJIT, UseLoader, UseSharing, vars
  <1>7. [Next]_vars => [CachesNext]_cacheVars
    BY Zenon DEF Next, UseMemory, UseTypes, UseScene, UseParser, UseHandler, UseCalls,
                 UseChecks, UseJIT, UseLoader, UseSharing, vars, CachesNext, cacheVars
  <1>8. [Next]_vars => [JITNext]_jitVars
    BY Zenon DEF Next, UseMemory, UseTypes, UseScene, UseParser, UseHandler, UseCalls,
                 UseChecks, UseJIT, UseLoader, UseSharing, vars
  <1>9. [Next]_vars => [LoaderNext]_loaderVars
    BY Zenon DEF Next, UseMemory, UseTypes, UseScene, UseParser, UseHandler, UseCalls,
                 UseChecks, UseJIT, UseLoader, UseSharing, vars
  <1>10. [Next]_vars => [SharingNext]_sharingVars
    BY Zenon DEF Next, UseMemory, UseTypes, UseScene, UseParser, UseHandler, UseCalls,
                 UseChecks, UseJIT, UseLoader, UseSharing, vars
  <1> QED
    BY <1>1, <1>2, <1>3, <1>4, <1>5, <1>6, <1>7, <1>8, <1>9, <1>10, PTL
       DEF Spec, HPSpec, TypeSpec, SceneSpec, ParserSpec, HandlerSpec, CachesSpec, JITSpec,
           LoaderSpec, SharingSpec

\* The variables of every part keep their types, whichever of them is used.
THEOREM ServicesTypes == Spec => []TypeOK
  <1>1. /\ HPTypeOK /\ TypeTypeOK /\ SceneTypeOK /\ ParserTypeOK
        /\ HandlerTypeOK /\ CachesTypeOK /\ JITTypeOK /\ LoaderTypeOK /\ SharingTypeOK
        => TypeOK
    BY DEF TypeOK
  <1> QED
    BY <1>1, PartsBehave, HPTypesKept, TypeTypesKept, SceneTypes, ParserTypes, HandlerTypes,
       CachesTypes, CompilerTypes, LoaderTypesKept, SharingTypes, PTL

\* Every behaviour of Services has the invariants of each of its parts, and
\* implements the tables of indices.
THEOREM ServicesKeepPromises ==
    Spec => /\ []( /\ HPBlocksDisjoint /\ LookupFollowsBases /\ SceneConsistent /\ ParserInStep
                   /\ InnermostHandler /\ HitsAreLatest /\ CodeIsOfBody)
            /\ [](MethodsAreFound /\ InstancesOwnRows)
            /\ [](InstancesFit /\ InstantiationsComplete /\ AOTFound)
            /\ ImplementsTables
  BY PartsBehave, HPBlocksStayDisjoint, LookupsFollowBases, SceneStaysConsistent,
     ParserStaysInStep, HandlerIsInnermost, HitsStayLatest, CodeStaysOfBody, EveryMethodFound,
     RowsAreOwn, EachInstanceFits, EveryInstanceListed, RegisteredAreFound, TablesKeepPromise, PTL

===============================================================================
