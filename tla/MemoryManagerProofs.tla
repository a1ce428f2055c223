-------------------------- MODULE MemoryManagerProofs --------------------------
(***************************************************************************)
(* MemoryManager backs every range it hands out, keeps its accounts and    *)
(* implements the abstract heap, for every set of sizes, chunk size,       *)
(* threshold and placement of chunks.                                      *)
(***************************************************************************)
EXTENDS MemoryManager, FiniteSetTheorems, WellFoundedInduction, TLAPS

-------------------------------------------------------------------------------
(* Induction, over numbers and over the subsets of a finite set *)

\* Every set of natural numbers that has an element has a least one.
LEMMA HasLeast ==
    ASSUME NEW S \in SUBSET Nat, S # {}
    PROVE  \E m \in S : \A k \in S : m <= k
  <1> DEFINE R == OpToRel(<, Nat)
  <1>1. \A x, y \in Nat : x < y => <<x, y>> \in R
    BY DEF OpToRel
  <1>2. IsWellFoundedOn(R, Nat)
    BY NatLessThanWellFounded
  <1> HIDE DEF R
  <1>3. PICK x \in S : \A y \in S : ~(<<y, x>> \in R)
    BY <1>2, WFMin, Zenon
  <1>4. \A y \in S : ~(y < x)
    BY <1>1, <1>3, Zenon
  <1> QED  BY <1>3, <1>4

\* What holds of m and passes from each number below n to the next holds up to n.
LEMMA UpTo ==
    ASSUME NEW m \in Nat, NEW n \in Nat, NEW S, m \in S,
           \A k \in m .. n : k \in S /\ k < n => k + 1 \in S
    PROVE  m .. n \subseteq S
  <1> DEFINE Missed == (m .. n) \ S
  <1> SUFFICES ASSUME Missed # {} PROVE FALSE
    OBVIOUS
  <1>1. PICK k \in Missed : \A j \in Missed : k <= j
    <2>1. Missed \in SUBSET Nat
      OBVIOUS
    <2> HIDE DEF Missed
    <2> QED  BY <2>1, HasLeast
  <1>2. k # m /\ k \in m .. n
    BY <1>1
  <1>3. k - 1 \in m .. n /\ k - 1 \in S
    BY <1>1, <1>2
  <1> QED  BY <1>1, <1>2, <1>3

\* A family that has {}, and has a set when it has the set without any one of
\* its elements, has all subsets of a finite set.
LEMMA SubsetsUpTo ==
    ASSUME NEW D, IsFiniteSet(D), NEW C, {} \in C,
           \A T \in SUBSET D : T # {} /\ (\A x \in T : T \ {x} \in C) => T \in C
    PROVE  SUBSET D \subseteq C
  <1> DEFINE Missed == (SUBSET D) \ C
             Sizes_ == {Cardinality(T) : T \in Missed}
  <1> SUFFICES ASSUME Missed # {} PROVE FALSE
    OBVIOUS
  <1>1. \A T \in Missed : IsFiniteSet(T) /\ Cardinality(T) \in Nat
    BY FS_Subset, FS_CardinalityType
  <1>2. Sizes_ \in SUBSET Nat /\ Sizes_ # {}
    BY <1>1
  <1>3. PICK n \in Sizes_ : \A k \in Sizes_ : n <= k
    <2> HIDE DEF Sizes_
    <2> QED  BY <1>2, HasLeast
  <1>4. PICK T \in Missed : n = Cardinality(T)
    BY <1>3
  <1>5. T # {}
    BY <1>4
  <1>6. ASSUME NEW x \in T
        PROVE  T \ {x} \in C
    <2>1. Cardinality(T \ {x}) = Cardinality(T) - 1 /\ T \ {x} \in SUBSET D
      BY <1>1, FS_RemoveElement
    <2>2. \A U \in Missed : Cardinality(T) <= Cardinality(U)
      BY <1>3, <1>4
    <2>3. Cardinality(T) \in Nat
      BY <1>1
    <2> HIDE DEF Missed
    <2>4. T \ {x} \notin Missed
      BY <2>1, <2>2, <2>3
    <2> QED  BY <2>1, <2>4 DEF Missed
  <1> QED  BY <1>4, <1>5, <1>6

-------------------------------------------------------------------------------
(* What SumFunction adds up *)

\* The element that a sum over S takes first.
Pick(S) == CHOOSE x \in S : TRUE

\* The equation that a sum over the subsets of the domain of f solves.
Summing(f, g) ==
    [S \in SUBSET DOMAIN f |-> IF S = {} THEN 0 ELSE f[Pick(S)] + g[S \ {Pick(S)}]]

Sums(g, f) == g = Summing(f, g)

\* Numbers that can be added up.
Summable(f) == IsFiniteSet(DOMAIN f) /\ \A x \in DOMAIN f : f[x] \in Nat

\* There is such a sum: the sums of larger sets come from those of smaller ones.
LEMMA SumExists ==
    ASSUME NEW f, Summable(f)
    PROVE  \E g : g = Summing(f, g)
  <1> DEFINE D == DOMAIN f
             Next_(g, S) == IF S = {} THEN 0 ELSE f[Pick(S)] + g[S \ {Pick(S)}]
             Good(n, g) == \A S \in SUBSET D : Cardinality(S) <= n => g[S] = Next_(g, S)
             Reached == {n \in Nat : \E g \in [SUBSET D -> Nat] : Good(n, g)}
  <1>1. /\ \A S \in SUBSET D : /\ IsFiniteSet(S) /\ Cardinality(S) \in Nat
                               /\ Cardinality(S) <= Cardinality(D)
                               /\ Cardinality(S) = 0 => S = {}
        /\ Cardinality(D) \in Nat
    BY FS_Subset, FS_CardinalityType, FS_EmptySet DEF Summable
  <1>2. \A S \in SUBSET D : S # {} => Pick(S) \in S /\ f[Pick(S)] \in Nat
    BY DEF Pick, Summable
  <1>3. ASSUME NEW S \in SUBSET D, S # {}
        PROVE  /\ S \ {Pick(S)} \in SUBSET D
               /\ Cardinality(S \ {Pick(S)}) = Cardinality(S) - 1
    BY <1>1, <1>2, <1>3, FS_RemoveElement
  <1>4. 0 \in Reached
    <2> DEFINE g == [S \in SUBSET D |-> 0]
    <2>1. g \in [SUBSET D -> Nat]
      OBVIOUS
    <2>2. Good(0, g)
      BY <1>1
    <2> QED  BY <2>1, <2>2
  <1>5. ASSUME NEW n \in 0 .. Cardinality(D), n \in Reached
        PROVE  n + 1 \in Reached
    <2>1. PICK g \in [SUBSET D -> Nat] : Good(n, g)
      BY <1>5
    <2> DEFINE h == [S \in SUBSET D |-> IF Cardinality(S) <= n THEN g[S] ELSE Next_(g, S)]
    <2>2. h \in [SUBSET D -> Nat]
      <3>1. \A S \in SUBSET D : Next_(g, S) \in Nat
        BY <1>2, <1>3
      <3> QED  BY <3>1
    <2>3. ASSUME NEW S \in SUBSET D, Cardinality(S) <= n + 1
          PROVE  h[S] = Next_(h, S)
      <3>1. h[S] = Next_(g, S)
        BY <2>1
      <3>2. S # {} => h[S \ {Pick(S)}] = g[S \ {Pick(S)}]
        <4>1. S # {} => Cardinality(S \ {Pick(S)}) <= n /\ S \ {Pick(S)} \in SUBSET D
          BY <1>1, <1>3, <2>3
        <4> QED  BY <4>1
      <3> QED  BY <3>1, <3>2
    <2>4. n + 1 \in Nat
      OBVIOUS
    <2> HIDE DEF h, Next_
    <2> QED  BY <2>2, <2>3, <2>4
  <1>6. Cardinality(D) \in Reached
    <2> HIDE DEF Reached, D
    <2>1. 0 .. Cardinality(D) \subseteq Reached
      BY <1>1, <1>4, <1>5, UpTo
    <2> QED  BY <1>1, <2>1
  <1>7. PICK g \in [SUBSET D -> Nat] : Good(Cardinality(D), g)
    BY <1>6
  <1>8. \A S \in SUBSET D : g[S] = Next_(g, S)
    BY <1>1, <1>7
  <1>9. g = Summing(f, g)
    BY <1>8 DEF Summing
  <1> QED  BY <1>9, Zenon

\* So SumFunction obeys its recursion.
LEMMA SumRecursion ==
    ASSUME NEW f, Summable(f)
    PROVE  \E g : Sums(g, f) /\ SumFunction(f) = g[DOMAIN f]
  <1> DEFINE iter[s \in SUBSET DOMAIN f] ==
                IF s = {} THEN 0
                ELSE LET x == CHOOSE x \in s : TRUE IN f[x] + iter[s \ {x}]
  <1>1. iter = Summing(f, iter)
    BY SumExists, Zenon DEF Summing, Pick
  <1>2. SumFunction(f) = iter[DOMAIN f]
    BY DEF SumFunction, SumFunctionOnSet, FoldFunctionOnSet, MapThenFoldSet
  <1> QED  BY <1>1, <1>2, Zenon DEF Sums

\* A sum is a number, no smaller than what any one element adds, and any
\* element may be taken first.
LEMMA TakenFirst ==
    ASSUME NEW f, Summable(f), NEW g, Sums(g, f)
    PROVE  \A S \in SUBSET DOMAIN f :
              g[S] \in Nat /\ \A x \in S : g[S \ {x}] \in Nat /\ g[S] = f[x] + g[S \ {x}]
  <1> DEFINE D == DOMAIN f
             C == {S \in SUBSET D : g[S] \in Nat /\ \A x \in S :
                        g[S \ {x}] \in Nat /\ g[S] = f[x] + g[S \ {x}]}
  <1>1. \A S \in SUBSET D : g[S] = IF S = {} THEN 0 ELSE f[Pick(S)] + g[S \ {Pick(S)}]
    <2> DEFINE h == Summing(f, g)
    <2>1. g = h
      BY Zenon DEF Sums
    <2>2. \A S \in SUBSET D : h[S] = IF S = {} THEN 0 ELSE f[Pick(S)] + g[S \ {Pick(S)}]
      BY DEF Summing
    <2> HIDE DEF h
    <2> QED  BY <2>1, <2>2, Zenon
  <1>2. \A S \in SUBSET D : S # {} => Pick(S) \in S
    BY DEF Pick
  <1>3. \A x \in D : f[x] \in Nat
    BY DEF Summable
  <1>4. {} \in C
    BY <1>1
  <1>5. ASSUME NEW T \in SUBSET D, T # {}, \A x \in T : T \ {x} \in C
        PROVE  T \in C
    <2> DEFINE y == Pick(T)
    <2>1. y \in T /\ f[y] \in Nat /\ g[T] = f[y] + g[T \ {y}] /\ g[T \ {y}] \in Nat
      BY <1>1, <1>2, <1>3, <1>5
    <2> HIDE DEF y
    <2>2. ASSUME NEW x \in T
          PROVE  g[T \ {x}] \in Nat /\ g[T] = f[x] + g[T \ {x}]
      <3>1. CASE x = y
        BY <2>1, <3>1
      <3>2. CASE x # y
        <4>1. /\ x \in T \ {y} /\ y \in T \ {x} /\ f[x] \in Nat
              /\ (T \ {x}) \ {y} = (T \ {y}) \ {x}
          BY <1>3, <2>1, <3>2
        <4>2. /\ g[T \ {y}] = f[x] + g[(T \ {y}) \ {x}]
              /\ g[T \ {x}] = f[y] + g[(T \ {x}) \ {y}]
              /\ g[(T \ {y}) \ {x}] \in Nat /\ g[T \ {x}] \in Nat
          BY <1>5, <2>1, <4>1
        <4> QED  BY <2>1, <4>1, <4>2
      <3> QED  BY <3>1, <3>2
    <2>3. g[T] \in Nat
      BY <2>1
    <2> QED  BY <2>2, <2>3
  <1>6. SUBSET D \subseteq C
    <2>1. IsFiniteSet(D)
      BY DEF Summable
    <2> HIDE DEF C, D
    <2> QED  BY <1>4, <1>5, <2>1, SubsetsUpTo
  <1> QED  BY <1>6

\* A sum over a set is about the values on this set only.
LEMMA SameSum ==
    ASSUME NEW f, Summable(f), NEW g, Sums(g, f),
           NEW e, Summable(e), NEW h, Sums(h, e),
           NEW D, D \subseteq DOMAIN f, D \subseteq DOMAIN e, \A x \in D : f[x] = e[x]
    PROVE  g[D] = h[D]
  <1> DEFINE C == {S \in SUBSET D : g[S] = h[S]}
  <1>1. /\ \A S \in SUBSET D : \A x \in S : g[S] = f[x] + g[S \ {x}] /\ h[S] = e[x] + h[S \ {x}]
        /\ IsFiniteSet(D)
    <2>1. \A S \in SUBSET D : S \in SUBSET DOMAIN f /\ S \in SUBSET DOMAIN e
      OBVIOUS
    <2>2. IsFiniteSet(D)
      BY FS_Subset DEF Summable
    <2> QED  BY <2>1, <2>2, TakenFirst
  <1>2. g[{}] = 0 /\ h[{}] = 0
    <2> DEFINE gg == Summing(f, g)
               hh == Summing(e, h)
    <2>1. g = gg /\ h = hh
      BY Zenon DEF Sums
    <2>2. gg[{}] = 0 /\ hh[{}] = 0
      BY DEF Summing
    <2> HIDE DEF gg, hh
    <2> QED  BY <2>1, <2>2, Zenon
  <1>3. {} \in C
    BY <1>2
  <1>4. ASSUME NEW T \in SUBSET D, T # {}, \A x \in T : T \ {x} \in C
        PROVE  T \in C
    BY <1>1, <1>4
  <1>5. SUBSET D \subseteq C
    <2> HIDE DEF C
    <2> QED  BY <1>1, <1>3, <1>4, SubsetsUpTo
  <1> QED  BY <1>5

\* One more value.
LEMMA SumWith ==
    ASSUME NEW f, Summable(f), NEW e, Summable(e), NEW x,
           x \notin DOMAIN f, DOMAIN e = DOMAIN f \cup {x}, \A y \in DOMAIN f : e[y] = f[y]
    PROVE  /\ SumFunction(f) \in Nat
           /\ SumFunction(e) = SumFunction(f) + e[x]
  <1>1. PICK g : Sums(g, f) /\ SumFunction(f) = g[DOMAIN f]
    BY SumRecursion
  <1>2. PICK h : Sums(h, e) /\ SumFunction(e) = h[DOMAIN e]
    BY SumRecursion
  <1>3. h[DOMAIN e] = e[x] + h[DOMAIN f] /\ h[DOMAIN f] \in Nat
    <2>1. x \in DOMAIN e /\ DOMAIN e \ {x} = DOMAIN f
      OBVIOUS
    <2>2. \A S \in SUBSET DOMAIN e :
              h[S] \in Nat /\ \A y \in S : h[S \ {y}] \in Nat /\ h[S] = e[y] + h[S \ {y}]
      <3>1. Sums(h, e) /\ Summable(e)
        BY <1>2
      <3> QED  BY <3>1, TakenFirst
    <2> QED  BY <2>1, <2>2
  <1>4. g[DOMAIN f] = h[DOMAIN f]
    <2>1. DOMAIN f \subseteq DOMAIN e
      OBVIOUS
    <2> HIDE <1>3
    <2> QED  BY <1>1, <1>2, <2>1, SameSum
  <1>5. e[x] \in Nat
    BY DEF Summable
  <1>6. /\ SumFunction(f) = g[DOMAIN f] /\ SumFunction(e) = h[DOMAIN e]
    BY <1>1, <1>2, Zenon
  <1> QED  BY <1>3, <1>4, <1>5, <1>6

\* One value changes.
LEMMA SumChanged ==
    ASSUME NEW f, Summable(f), NEW e, Summable(e), NEW x \in DOMAIN f,
           DOMAIN e = DOMAIN f, \A y \in DOMAIN f \ {x} : e[y] = f[y]
    PROVE  /\ SumFunction(f) \in Nat /\ SumFunction(e) \in Nat
           /\ SumFunction(e) = (SumFunction(f) - f[x]) + e[x]
           /\ f[x] <= SumFunction(f)
  <1> DEFINE rest == [y \in DOMAIN f \ {x} |-> f[y]]
  <1>1. /\ DOMAIN rest = DOMAIN f \ {x} /\ \A y \in DOMAIN rest : rest[y] = f[y] /\ rest[y] = e[y]
        /\ f[x] \in Nat /\ e[x] \in Nat
    BY DEF Summable
  <1>2. Summable(rest)
    BY FS_RemoveElement DEF Summable
  <1> HIDE DEF rest
  <1>3. SumFunction(rest) \in Nat /\ SumFunction(f) = SumFunction(rest) + f[x]
    <2>1. /\ x \notin DOMAIN rest /\ DOMAIN f = DOMAIN rest \cup {x}
          /\ \A y \in DOMAIN rest : f[y] = rest[y]
      BY <1>1
    <2> DEFINE s == SumFunction(rest)
               t == SumFunction(f)
    <2>2. s \in Nat /\ t = s + f[x]
      BY <1>2, <2>1, SumWith
    <2> QED  BY <2>2
  <1>4. SumFunction(e) = SumFunction(rest) + e[x]
    <2>1. x \notin DOMAIN rest /\ DOMAIN e = DOMAIN rest \cup {x}
      BY <1>1
    <2> QED  BY <1>1, <1>2, <2>1, SumWith
  <1> QED  BY <1>1, <1>3, <1>4

\* Nothing to add up.
LEMMA SumOfNone ==
    ASSUME NEW f, DOMAIN f = {}
    PROVE  Summable(f) /\ SumFunction(f) = 0
  <1>1. Summable(f)
    BY FS_EmptySet DEF Summable
  <1>2. PICK g : Sums(g, f) /\ SumFunction(f) = g[DOMAIN f]
    BY <1>1, SumRecursion
  <1> DEFINE gg == Summing(f, g)
  <1>3. g = gg /\ gg[{}] = 0
    <2>1. g = gg
      BY <1>2, Zenon DEF Sums
    <2>2. gg[{}] = 0
      BY DEF Summing
    <2> QED  BY <2>1, <2>2, Zenon
  <1> HIDE DEF gg
  <1>4. SumFunction(f) = g[{}]
    BY <1>2, Zenon
  <1> QED  BY <1>1, <1>3, <1>4

-------------------------------------------------------------------------------
(* The list of blocks *)

\* Blocks that share no address.
Apart(b, c) == EndOf(b) <= c.data \/ EndOf(c) <= b.data

\* Every block has a size, a free one holds nothing, and blocks do not overlap.
Sound(bs) ==
    /\ bs \in Seq(Block) /\ bs # <<>>
    /\ \A i \in 1 .. Len(bs) : bs[i].size > 0 /\ (~bs[i].in_use => bs[i].alloc_size = 0)
    /\ \A i, j \in Allotted(bs) : i = j \/ Apart(bs[i], bs[j])

SizesOf(bs)  == [i \in DOMAIN bs |-> bs[i].size]
AllocsOf(bs) == [i \in DOMAIN bs |-> bs[i].alloc_size]
LostOf(bs)   == [i \in DOMAIN bs |-> Lost(bs[i])]

\* What a list adds up to.
SameSums(bs, cs) ==
    /\ SumFunction(SizesOf(cs)) = SumFunction(SizesOf(bs))
    /\ SumFunction(AllocsOf(cs)) = SumFunction(AllocsOf(bs))
    /\ SumFunction(LostOf(cs)) = SumFunction(LostOf(bs))

\* An element of a list of blocks is a block.
LEMMA ListOfBlocks ==
    ASSUME NEW bs \in Seq(Block)
    PROVE  /\ Len(bs) \in Nat /\ DOMAIN bs = 1 .. Len(bs)
           /\ \A i \in 1 .. Len(bs) :
                /\ bs[i] \in Block /\ Lost(bs[i]) \in Nat
                /\ bs[i].data \in Nat /\ bs[i].size \in Nat /\ bs[i].alloc_size \in Nat
                /\ bs[i].in_use \in BOOLEAN
           /\ Summable(SizesOf(bs)) /\ Summable(AllocsOf(bs)) /\ Summable(LostOf(bs))
  <1>1. Len(bs) \in Nat /\ DOMAIN bs = 1 .. Len(bs) /\ \A i \in 1 .. Len(bs) : bs[i] \in Block
    OBVIOUS
  <1>2. \A b \in Block : /\ Lost(b) \in Nat /\ b.data \in Nat /\ b.size \in Nat
                         /\ b.alloc_size \in Nat /\ b.in_use \in BOOLEAN
    BY DEF Block, Lost
  <1>3. IsFiniteSet(1 .. Len(bs))
    BY <1>1, FS_Interval
  <1> QED  BY <1>1, <1>2, <1>3 DEF Summable, SizesOf, AllocsOf, LostOf

\* What Append adds.
LEMMA AppendAdds ==
    ASSUME NEW bs \in Seq(Block), NEW b \in Block
    PROVE  LET cs == Append(bs, b)
           IN  /\ cs \in Seq(Block)
               /\ SumFunction(SizesOf(cs)) = SumFunction(SizesOf(bs)) + b.size
               /\ SumFunction(AllocsOf(cs)) = SumFunction(AllocsOf(bs)) + b.alloc_size
               /\ SumFunction(LostOf(cs)) = SumFunction(LostOf(bs)) + Lost(b)
  <1> DEFINE cs == Append(bs, b)
             n == Len(bs) + 1
  <1>1. /\ cs \in Seq(Block) /\ n \notin DOMAIN bs /\ DOMAIN cs = DOMAIN bs \cup {n}
        /\ cs[n] = b /\ \A i \in DOMAIN bs : cs[i] = bs[i]
    OBVIOUS
  <1> HIDE DEF cs, n
  <1>2. SumFunction(SizesOf(cs)) = SumFunction(SizesOf(bs)) + b.size
    <2> DEFINE f == SizesOf(bs)
               e == SizesOf(cs)
    <2>1. /\ n \notin DOMAIN f /\ DOMAIN e = DOMAIN f \cup {n} /\ e[n] = b.size
          /\ \A i \in DOMAIN f : e[i] = f[i]
      BY <1>1 DEF SizesOf
    <2>2. Summable(f) /\ Summable(e)
      BY <1>1, ListOfBlocks
    <2> HIDE DEF f, e
    <2>3. SumFunction(e) = SumFunction(f) + e[n]
      BY <2>1, <2>2, SumWith
    <2> QED  BY <2>1, <2>3 DEF f, e
  <1>3. SumFunction(AllocsOf(cs)) = SumFunction(AllocsOf(bs)) + b.alloc_size
    <2> DEFINE f == AllocsOf(bs)
               e == AllocsOf(cs)
    <2>1. /\ n \notin DOMAIN f /\ DOMAIN e = DOMAIN f \cup {n} /\ e[n] = b.alloc_size
          /\ \A i \in DOMAIN f : e[i] = f[i]
      BY <1>1 DEF AllocsOf
    <2>2. Summable(f) /\ Summable(e)
      BY <1>1, ListOfBlocks
    <2> HIDE DEF f, e
    <2>3. SumFunction(e) = SumFunction(f) + e[n]
      BY <2>1, <2>2, SumWith
    <2> QED  BY <2>1, <2>3 DEF f, e
  <1>4. SumFunction(LostOf(cs)) = SumFunction(LostOf(bs)) + Lost(b)
    <2> DEFINE f == LostOf(bs)
               e == LostOf(cs)
    <2>1. /\ n \notin DOMAIN f /\ DOMAIN e = DOMAIN f \cup {n} /\ e[n] = Lost(b)
          /\ \A i \in DOMAIN f : e[i] = f[i]
      BY <1>1 DEF LostOf
    <2>2. Summable(f) /\ Summable(e)
      BY <1>1, ListOfBlocks
    <2> HIDE DEF f, e
    <2>3. SumFunction(e) = SumFunction(f) + e[n]
      BY <2>1, <2>2, SumWith
    <2> QED  BY <2>1, <2>3 DEF f, e
  <1> QED  BY <1>1, <1>2, <1>3, <1>4 DEF cs

\* What a change of one block adds and takes away.
LEMMA ChangeAdds ==
    ASSUME NEW bs \in Seq(Block), NEW cs \in Seq(Block), NEW n \in DOMAIN bs,
           DOMAIN cs = DOMAIN bs, \A i \in DOMAIN bs \ {n} : cs[i] = bs[i]
    PROVE  /\ SumFunction(SizesOf(cs)) = (SumFunction(SizesOf(bs)) - bs[n].size) + cs[n].size
           /\ SumFunction(AllocsOf(cs))
                = (SumFunction(AllocsOf(bs)) - bs[n].alloc_size) + cs[n].alloc_size
           /\ SumFunction(LostOf(cs)) = (SumFunction(LostOf(bs)) - Lost(bs[n])) + Lost(cs[n])
           /\ SumFunction(SizesOf(bs)) \in Nat /\ SumFunction(AllocsOf(bs)) \in Nat
           /\ SumFunction(LostOf(bs)) \in Nat
  <1>1. /\ SumFunction(SizesOf(cs)) = (SumFunction(SizesOf(bs)) - bs[n].size) + cs[n].size
        /\ SumFunction(SizesOf(bs)) \in Nat
    <2> DEFINE f == SizesOf(bs)
               e == SizesOf(cs)
    <2>1. /\ n \in DOMAIN f /\ DOMAIN e = DOMAIN f /\ f[n] = bs[n].size /\ e[n] = cs[n].size
          /\ \A i \in DOMAIN f \ {n} : e[i] = f[i]
      BY DEF SizesOf
    <2>2. Summable(f) /\ Summable(e)
      BY ListOfBlocks
    <2> HIDE DEF f, e
    <2>3. SumFunction(e) = (SumFunction(f) - f[n]) + e[n] /\ SumFunction(f) \in Nat
      BY <2>1, <2>2, SumChanged
    <2> QED  BY <2>1, <2>3 DEF f, e
  <1>2. /\ SumFunction(AllocsOf(cs))
             = (SumFunction(AllocsOf(bs)) - bs[n].alloc_size) + cs[n].alloc_size
        /\ SumFunction(AllocsOf(bs)) \in Nat
    <2> DEFINE f == AllocsOf(bs)
               e == AllocsOf(cs)
    <2>1. /\ n \in DOMAIN f /\ DOMAIN e = DOMAIN f
          /\ f[n] = bs[n].alloc_size /\ e[n] = cs[n].alloc_size
          /\ \A i \in DOMAIN f \ {n} : e[i] = f[i]
      BY DEF AllocsOf
    <2>2. Summable(f) /\ Summable(e)
      BY ListOfBlocks
    <2> HIDE DEF f, e
    <2>3. SumFunction(e) = (SumFunction(f) - f[n]) + e[n] /\ SumFunction(f) \in Nat
      BY <2>1, <2>2, SumChanged
    <2> QED  BY <2>1, <2>3 DEF f, e
  <1>3. /\ SumFunction(LostOf(cs)) = (SumFunction(LostOf(bs)) - Lost(bs[n])) + Lost(cs[n])
        /\ SumFunction(LostOf(bs)) \in Nat
    <2> DEFINE f == LostOf(bs)
               e == LostOf(cs)
    <2>1. /\ n \in DOMAIN f /\ DOMAIN e = DOMAIN f
          /\ f[n] = Lost(bs[n]) /\ e[n] = Lost(cs[n])
          /\ \A i \in DOMAIN f \ {n} : e[i] = f[i]
      BY DEF LostOf
    <2>2. Summable(f) /\ Summable(e)
      BY ListOfBlocks
    <2> HIDE DEF f, e
    <2>3. SumFunction(e) = (SumFunction(f) - f[n]) + e[n] /\ SumFunction(f) \in Nat
      BY <2>1, <2>2, SumChanged
    <2> QED  BY <2>1, <2>3 DEF f, e
  <1> QED  BY <1>1, <1>2, <1>3

\* A block more, that overlaps no other.
LEMMA AppendSound ==
    ASSUME NEW bs, Sound(bs), NEW b \in Block, b.size > 0, ~b.in_use => b.alloc_size = 0,
           b.data # Null => \A i \in Allotted(bs) : Apart(bs[i], b)
    PROVE  Sound(Append(bs, b))
  <1> DEFINE cs == Append(bs, b)
  <1>1. /\ bs \in Seq(Block) /\ cs \in Seq(Block) /\ cs # <<>> /\ Len(bs) \in Nat
        /\ Len(cs) = Len(bs) + 1 /\ cs[Len(bs) + 1] = b
        /\ DOMAIN bs = 1 .. Len(bs) /\ DOMAIN cs = 1 .. Len(bs) + 1
        /\ \A i \in 1 .. Len(bs) : cs[i] = bs[i]
    BY DEF Sound
  <1> HIDE DEF cs
  <1>2. \A i \in 1 .. Len(cs) : i = Len(bs) + 1 \/ i \in 1 .. Len(bs)
    BY <1>1
  <1>3. \A i \in 1 .. Len(cs) : cs[i].size > 0 /\ (~cs[i].in_use => cs[i].alloc_size = 0)
    BY <1>1, <1>2 DEF Sound
  <1>4. \A i \in Allotted(cs) :
            \/ i = Len(bs) + 1 /\ b.data # Null
            \/ i \in Allotted(bs)
    BY <1>1, <1>2 DEF Allotted
  <1>5. ASSUME NEW i \in Allotted(cs), NEW j \in Allotted(cs), i # j
        PROVE  Apart(cs[i], cs[j])
    <2>1. \A k \in Allotted(bs) : cs[k] = bs[k]
      BY <1>1 DEF Allotted
    <2>2. CASE i \in Allotted(bs) /\ j \in Allotted(bs)
      BY <1>5, <2>1, <2>2 DEF Sound
    <2>3. \A c, d : Apart(c, d) <=> Apart(d, c)
      BY DEF Apart
    <2>4. ASSUME NEW k \in Allotted(cs), NEW l \in Allotted(cs), k # l, k = Len(bs) + 1
          PROVE  Apart(cs[l], cs[k])
      <3>1. cs[k] = b /\ b.data # Null /\ l \in Allotted(bs)
        BY <1>1, <1>4, <2>4 DEF Allotted
      <3> QED  BY <2>1, <3>1
    <2> QED  BY <1>4, <1>5, <2>2, <2>3, <2>4
  <1> QED  BY <1>1, <1>3, <1>5 DEF Sound, cs

-------------------------------------------------------------------------------
(* CollectGarbage *)

\* The list up to n.
UpToBlock(bs, n) == [i \in 1 .. n |-> bs[i]]

\* What merging the first n blocks has made of them: nothing was lost, blocks
\* in use are untouched, what was merged overlaps nothing, also not what is
\* still to come, and no two neighbours could be merged.
MergedTo(bs, n, ms) ==
    /\ Sound(ms)
    /\ SameSums(UpToBlock(bs, n), ms)
    /\ \A j \in Allotted(ms), i \in Allotted(bs) : i > n => Apart(ms[j], bs[i])
    /\ \A i \in 1 .. n : bs[i].in_use => \E j \in 1 .. Len(ms) : ms[j] = bs[i]
    /\ \A j \in 1 .. Len(ms) - 1 : ~Merges(ms[j], ms[j + 1])

\* A block that is not merged follows what there is.
LEMMA MergeAppends ==
    ASSUME NEW bs, Sound(bs), NEW n \in Nat \ {0}, n < Len(bs), NEW ms, MergedTo(bs, n, ms),
           ~Merges(ms[Len(ms)], bs[n + 1])
    PROVE  MergedTo(bs, n + 1, Append(ms, bs[n + 1]))
  <1> DEFINE b == bs[n + 1]
             cs == Append(ms, b)
  <1>1. /\ bs \in Seq(Block) /\ ms \in Seq(Block) /\ Sound(ms) /\ n + 1 \in 1 .. Len(bs)
        /\ Len(bs) \in Nat /\ DOMAIN bs = 1 .. Len(bs)
        /\ DOMAIN ms = 1 .. Len(ms) /\ Len(ms) \in Nat /\ Len(ms) # 0
        /\ b \in Block /\ b.size > 0 /\ (~b.in_use => b.alloc_size = 0)
    BY DEF MergedTo, Sound
  <1>2. b.data # Null => \A i \in Allotted(ms) : Apart(ms[i], b)
    BY <1>1 DEF MergedTo, Allotted
  <1>3. /\ cs \in Seq(Block) /\ Len(cs) = Len(ms) + 1 /\ cs[Len(ms) + 1] = b
        /\ DOMAIN cs = 1 .. Len(cs)
        /\ \A i \in 1 .. Len(ms) : cs[i] = ms[i]
    BY <1>1
  <1>4. Sound(cs)
    BY <1>1, <1>2, AppendSound
  <1>5. SameSums(UpToBlock(bs, n + 1), cs)
    <2> DEFINE us == UpToBlock(bs, n)
               vs == UpToBlock(bs, n + 1)
    <2>1. us \in Seq(Block) /\ vs = Append(us, b)
      <3>1. us \in Seq(Block) /\ vs \in Seq(Block) /\ Len(us) = n /\ Len(vs) = n + 1
        BY <1>1 DEF UpToBlock
      <3> QED  BY <1>1, <3>1 DEF UpToBlock
    <2>2. SameSums(us, ms)
      BY DEF MergedTo
    <2> HIDE DEF us, vs, b, cs
    <2>3. /\ SumFunction(SizesOf(vs)) = SumFunction(SizesOf(us)) + b.size
          /\ SumFunction(AllocsOf(vs)) = SumFunction(AllocsOf(us)) + b.alloc_size
          /\ SumFunction(LostOf(vs)) = SumFunction(LostOf(us)) + Lost(b)
      BY <1>1, <2>1, AppendAdds
    <2>4. /\ SumFunction(SizesOf(cs)) = SumFunction(SizesOf(ms)) + b.size
          /\ SumFunction(AllocsOf(cs)) = SumFunction(AllocsOf(ms)) + b.alloc_size
          /\ SumFunction(LostOf(cs)) = SumFunction(LostOf(ms)) + Lost(b)
      BY <1>1, AppendAdds DEF cs
    <2> QED  BY <2>2, <2>3, <2>4 DEF SameSums, vs
  <1> HIDE DEF b, cs
  <1>6. ASSUME NEW j \in Allotted(cs), NEW i \in Allotted(bs), i > n + 1
        PROVE  Apart(cs[j], bs[i])
    <2>1. i \in Nat /\ i > n /\ i # n + 1 /\ i \in 1 .. Len(bs)
      BY <1>1, <1>6 DEF Allotted
    <2>2. CASE j = Len(ms) + 1
      <3>1. n + 1 \in Allotted(bs)
        BY <1>1, <1>3, <2>2 DEF Allotted, b
      <3> QED  BY <1>3, <2>1, <2>2, <3>1 DEF Sound, b
    <2>3. CASE j # Len(ms) + 1
      <3>1. j \in 1 .. Len(ms)
        BY <1>1, <1>3, <2>3 DEF Allotted
      <3>2. j \in Allotted(ms)
        BY <1>1, <1>3, <3>1 DEF Allotted
      <3> QED  BY <1>3, <2>1, <3>1, <3>2 DEF MergedTo
    <2> QED  BY <2>2, <2>3
  <1>7. ASSUME NEW i \in 1 .. n + 1, bs[i].in_use
        PROVE  \E j \in 1 .. Len(cs) : cs[j] = bs[i]
    <2>1. CASE i = n + 1
      <3>1. Len(ms) + 1 \in 1 .. Len(cs)
        BY <1>1, <1>3
      <3> QED  BY <1>3, <2>1, <3>1 DEF b
    <2>2. CASE i # n + 1
      <3>1. i \in 1 .. n
        BY <2>2
      <3>2. PICK j \in 1 .. Len(ms) : ms[j] = bs[i]
        BY <1>7, <3>1 DEF MergedTo
      <3>3. j \in 1 .. Len(cs)
        BY <1>1, <1>3
      <3> QED  BY <1>3, <3>2, <3>3
    <2> QED  BY <2>1, <2>2
  <1>8. ASSUME NEW j \in 1 .. Len(cs) - 1
        PROVE  ~Merges(cs[j], cs[j + 1])
    <2>1. j \in 1 .. Len(ms)
      BY <1>1, <1>3
    <2>2. CASE j = Len(ms)
      BY <1>3, <2>1, <2>2 DEF b
    <2>3. CASE j # Len(ms)
      <3>1. j \in 1 .. Len(ms) - 1 /\ j + 1 \in 1 .. Len(ms)
        <4>1. \A m \in Nat : \A i \in 1 .. m : i # m => i \in 1 .. m - 1 /\ i + 1 \in 1 .. m
          OBVIOUS
        <4> QED  BY <1>1, <2>1, <2>3, <4>1
      <3> QED  BY <1>3, <2>1, <3>1 DEF MergedTo
    <2> QED  BY <2>2, <2>3
  <1> QED  BY <1>4, <1>5, <1>6, <1>7, <1>8 DEF MergedTo, b, cs

\* What overlaps neither of two neighbours does not overlap their union.
LEMMA UnionApart ==
    ASSUME NEW a \in Block, NEW b \in Block, NEW c \in Block, NEW x \in Block,
           EndOf(a) = b.data, c.data = a.data, c.size = a.size + b.size, x.size > 0,
           Apart(x, a), Apart(x, b)
    PROVE  Apart(x, c) /\ Apart(c, x)
  <1>1. \A e \in Block : e.data \in Nat /\ e.size \in Nat
    BY DEF Block
  <1> QED  BY <1>1 DEF Apart, EndOf

\* A block that is merged makes the last one longer.
LEMMA MergeGrows ==
    ASSUME NEW bs, Sound(bs), NEW n \in Nat \ {0}, n < Len(bs), NEW ms, MergedTo(bs, n, ms),
           Merges(ms[Len(ms)], bs[n + 1])
    PROVE  MergedTo(bs, n + 1, [ms EXCEPT ![Len(ms)].size = @ + bs[n + 1].size])
  <1> DEFINE b == bs[n + 1]
             k == Len(ms)
             a == ms[k]
             cs == [ms EXCEPT ![k].size = @ + b.size]
             c == cs[k]
  <1>1. /\ bs \in Seq(Block) /\ ms \in Seq(Block) /\ Sound(ms) /\ n + 1 \in 1 .. Len(bs)
        /\ Len(bs) \in Nat /\ DOMAIN bs = 1 .. Len(bs)
        /\ DOMAIN ms = 1 .. k /\ k \in Nat /\ k \in 1 .. k
        /\ b \in Block /\ b.size > 0 /\ (~b.in_use => b.alloc_size = 0)
        /\ a \in Block /\ a.size > 0
    BY DEF MergedTo, Sound
  <1>2. /\ ~a.in_use /\ ~b.in_use /\ EndOf(a) = b.data
    BY DEF Merges
  <1>3. /\ a.data \in Nat /\ a.size \in Nat /\ b.data \in Nat /\ b.size \in Nat
        /\ a.size + b.size \in Nat /\ a.alloc_size \in Nat
    <2>1. \A e \in Block : e.data \in Nat /\ e.size \in Nat /\ e.alloc_size \in Nat
      BY DEF Block
    <2>2. a \in Block /\ b \in Block
      BY <1>1
    <2> HIDE DEF a, b
    <2> QED  BY <2>1, <2>2
  <1>4. b.data # Null /\ n + 1 \in Allotted(bs) /\ b.alloc_size = 0
    BY <1>1, <1>2, <1>3 DEF EndOf, Null, Allotted
  <1>5. /\ c = [a EXCEPT !.size = a.size + b.size]
        /\ DOMAIN cs = 1 .. k /\ \A j \in 1 .. k : j # k => cs[j] = ms[j]
    BY <1>1
  <1>6. /\ c \in Block /\ c.data = a.data /\ c.size = a.size + b.size
        /\ c.in_use = a.in_use /\ c.alloc_size = a.alloc_size
    <2> HIDE DEF a, b, c
    <2> QED  BY <1>1, <1>3, <1>5 DEF Block
  <1>7. cs \in Seq(Block) /\ Len(cs) = k
    <2>1. \A j \in 1 .. k : cs[j] \in Block
      <3>1. \A j \in 1 .. k : ms[j] \in Block
        BY <1>1
      <3> HIDE DEF cs
      <3> QED  BY <1>5, <1>6, <3>1
    <2>2. cs = [j \in 1 .. k |-> cs[j]]
      BY <1>5
    <2>3. \A f \in [1 .. k -> Block] : f \in Seq(Block) /\ Len(f) = k
      BY <1>1
    <2>4. cs \in [1 .. k -> Block]
      BY <2>1, <2>2
    <2> QED  BY <2>3, <2>4, Zenon
  <1>8. Lost(c) = Lost(a) /\ Lost(b) = 0
    BY <1>4, <1>6 DEF Lost
  <1> HIDE DEF a, b, c, cs, k
  <1>9. Allotted(cs) = Allotted(ms)
    BY <1>1, <1>5, <1>6 DEF Allotted, a, c
  <1>10. ASSUME NEW x \in Block, x.size > 0, Apart(x, a), Apart(x, b)
         PROVE  Apart(x, c) /\ Apart(c, x)
    BY <1>1, <1>2, <1>6, <1>10, UnionApart
  <1>11. \A d, e : Apart(d, e) <=> Apart(e, d)
    BY DEF Apart
  <1>12. Sound(cs)
    <2>1. cs # <<>>
      BY <1>1, <1>5, <1>7
    <2>2. \A j \in 1 .. k : cs[j].size > 0 /\ (~cs[j].in_use => cs[j].alloc_size = 0)
      <3>1. \A j \in 1 .. k : ms[j].size > 0 /\ (~ms[j].in_use => ms[j].alloc_size = 0)
        BY <1>1 DEF Sound, k
      <3>2. c.size > 0 /\ (~c.in_use => c.alloc_size = 0)
        BY <1>1, <1>3, <1>6, <3>1 DEF a
      <3> QED  BY <1>5, <3>1, <3>2 DEF c
    <2>3. ASSUME NEW j \in Allotted(cs), j # k, k \in Allotted(cs)
          PROVE  Apart(cs[j], c) /\ Apart(c, cs[j])
      <3>1. /\ j \in Allotted(ms) /\ k \in Allotted(ms) /\ j \in 1 .. k /\ cs[j] = ms[j]
        BY <1>1, <1>5, <1>9, <2>3 DEF Allotted
      <3>2. ms[j] \in Block /\ ms[j].size > 0
        BY <1>1, <3>1 DEF Sound, k
      <3>3. Apart(ms[j], a)
        BY <1>1, <2>3, <3>1 DEF Sound, a
      <3>4. Apart(ms[j], b)
        BY <1>1, <1>4, <3>1 DEF MergedTo, b
      <3> QED  BY <1>10, <3>1, <3>2, <3>3, <3>4
    <2>4. ASSUME NEW i \in Allotted(cs), NEW j \in Allotted(cs), i # j
          PROVE  Apart(cs[i], cs[j])
      <3>1. CASE i # k /\ j # k
        <4>1. /\ i \in Allotted(ms) /\ j \in Allotted(ms) /\ cs[i] = ms[i] /\ cs[j] = ms[j]
          BY <1>1, <1>5, <1>9, <3>1 DEF Allotted
        <4> QED  BY <1>1, <2>4, <4>1 DEF Sound
      <3> QED  BY <2>3, <2>4, <3>1 DEF c
    <2> QED  BY <1>7, <2>1, <2>2, <2>4 DEF Sound
  <1>13. SameSums(UpToBlock(bs, n + 1), cs)
    <2> DEFINE us == UpToBlock(bs, n)
               vs == UpToBlock(bs, n + 1)
    <2>1. us \in Seq(Block) /\ vs = Append(us, b)
      <3>1. us \in Seq(Block) /\ vs \in Seq(Block) /\ Len(us) = n /\ Len(vs) = n + 1
        BY <1>1 DEF UpToBlock
      <3> QED  BY <1>1, <3>1 DEF UpToBlock, b
    <2>2. SameSums(us, ms)
      BY DEF MergedTo
    <2> HIDE DEF us, vs
    <2>3. /\ SumFunction(SizesOf(vs)) = SumFunction(SizesOf(us)) + b.size
          /\ SumFunction(AllocsOf(vs)) = SumFunction(AllocsOf(us)) + b.alloc_size
          /\ SumFunction(LostOf(vs)) = SumFunction(LostOf(us)) + Lost(b)
      BY <1>1, <2>1, AppendAdds
    <2>4. /\ k \in DOMAIN ms /\ DOMAIN cs = DOMAIN ms /\ \A j \in DOMAIN ms \ {k} : cs[j] = ms[j]
      BY <1>1, <1>5
    <2>5. /\ SumFunction(SizesOf(cs)) = (SumFunction(SizesOf(ms)) - ms[k].size) + cs[k].size
          /\ SumFunction(AllocsOf(cs))
               = (SumFunction(AllocsOf(ms)) - ms[k].alloc_size) + cs[k].alloc_size
          /\ SumFunction(LostOf(cs)) = (SumFunction(LostOf(ms)) - Lost(ms[k])) + Lost(cs[k])
          /\ SumFunction(SizesOf(ms)) \in Nat /\ SumFunction(AllocsOf(ms)) \in Nat
          /\ SumFunction(LostOf(ms)) \in Nat
      BY <1>1, <1>7, <2>4, ChangeAdds
    <2>6. Lost(a) \in Nat
      BY <1>1 DEF Lost, Block
    <2>7. /\ SumFunction(SizesOf(cs)) = SumFunction(SizesOf(ms)) + b.size
          /\ SumFunction(AllocsOf(cs)) = SumFunction(AllocsOf(ms))
          /\ SumFunction(LostOf(cs)) = SumFunction(LostOf(ms))
      <3>1. \A x, y \in Nat : (x - y) + y = x
        OBVIOUS
      <3>2. /\ SumFunction(SizesOf(cs)) = (SumFunction(SizesOf(ms)) - a.size) + (a.size + b.size)
            /\ SumFunction(AllocsOf(cs)) = (SumFunction(AllocsOf(ms)) - a.alloc_size) + a.alloc_size
            /\ SumFunction(LostOf(cs)) = (SumFunction(LostOf(ms)) - Lost(a)) + Lost(a)
        BY <1>6, <1>8, <2>5, Zenon DEF a, c
      <3>3. /\ SumFunction(SizesOf(ms)) \in Nat /\ SumFunction(AllocsOf(ms)) \in Nat
            /\ SumFunction(LostOf(ms)) \in Nat
        BY <2>5, Zenon
      <3>4. SumFunction(SizesOf(cs)) = SumFunction(SizesOf(ms)) + b.size
        <4>1. \A x, y, z \in Nat : (x - y) + (y + z) = x + z
          OBVIOUS
        <4>2. a.size \in Nat /\ b.size \in Nat
          BY <1>3, Zenon
        <4> DEFINE s == SumFunction(SizesOf(ms))
        <4>3. (s - a.size) + (a.size + b.size) = s + b.size
          BY <3>3, <4>1, <4>2, Zenon
        <4> QED  BY <3>2, <4>3, Zenon
      <3>5. SumFunction(AllocsOf(cs)) = SumFunction(AllocsOf(ms))
        <4> DEFINE s == SumFunction(AllocsOf(ms))
        <4>1. a.alloc_size \in Nat /\ s \in Nat
          BY <1>3, <3>3, Zenon
        <4>2. (s - a.alloc_size) + a.alloc_size = s
          BY <3>1, <4>1, Zenon
        <4> QED  BY <3>2, <4>2, Zenon
      <3>6. SumFunction(LostOf(cs)) = SumFunction(LostOf(ms))
        <4> DEFINE s == SumFunction(LostOf(ms))
        <4>1. (s - Lost(a)) + Lost(a) = s
          BY <2>6, <3>1, <3>3, Zenon
        <4> QED  BY <3>2, <4>1, Zenon
      <3> QED  BY <3>4, <3>5, <3>6
    <2> QED  BY <1>4, <1>8, <2>2, <2>3, <2>5, <2>7 DEF SameSums, vs
  <1>14. ASSUME NEW j \in Allotted(cs), NEW i \in Allotted(bs), i > n + 1
         PROVE  Apart(cs[j], bs[i])
    <2>1. i \in Nat /\ i > n /\ i # n + 1 /\ i \in 1 .. Len(bs)
      BY <1>1, <1>14 DEF Allotted
    <2>2. j \in Allotted(ms) /\ Apart(ms[j], bs[i])
      BY <1>9, <2>1 DEF MergedTo
    <2>3. CASE j = k
      <3>1. Apart(b, bs[i]) /\ bs[i] \in Block /\ bs[i].size > 0
        BY <1>1, <1>4, <2>1 DEF Sound, b
      <3>2. Apart(bs[i], a) /\ Apart(bs[i], b)
        BY <1>11, <2>2, <2>3, <3>1 DEF a
      <3> QED  BY <1>10, <2>3, <3>1, <3>2 DEF c
    <2>4. CASE j # k
      BY <1>1, <1>5, <2>2, <2>4 DEF Allotted
    <2> QED  BY <2>3, <2>4
  <1>15. ASSUME NEW i \in 1 .. n + 1, bs[i].in_use
         PROVE  \E j \in 1 .. Len(cs) : cs[j] = bs[i]
    <2>1. i # n + 1
      BY <1>2, <1>15 DEF b
    <2>2. i \in 1 .. n
      BY <2>1
    <2>3. PICK j \in 1 .. k : ms[j] = bs[i]
      BY <1>15, <2>2 DEF MergedTo, k
    <2>4. j # k
      BY <1>2, <1>15, <2>3 DEF a
    <2> QED  BY <1>5, <1>7, <2>3, <2>4
  <1>16. ASSUME NEW j \in 1 .. Len(cs) - 1
         PROVE  ~Merges(cs[j], cs[j + 1])
    <2>1. \A m \in Nat : \A i \in 1 .. m - 1 : i \in 1 .. m /\ i # m /\ i + 1 \in 1 .. m
      OBVIOUS
    <2>2. j \in 1 .. k - 1 /\ j \in 1 .. k /\ j # k /\ j + 1 \in 1 .. k
      BY <1>1, <1>7, <2>1
    <2>3. ~Merges(ms[j], ms[j + 1]) /\ cs[j] = ms[j]
      BY <1>5, <2>2 DEF MergedTo, k
    <2>4. cs[j + 1].data = ms[j + 1].data /\ cs[j + 1].in_use = ms[j + 1].in_use
      BY <1>5, <1>6, <2>2 DEF a, c
    <2> QED  BY <2>3, <2>4 DEF Merges
  <1> QED  BY <1>12, <1>13, <1>14, <1>15, <1>16 DEF MergedTo, b, cs, k

\* The first block by itself.
LEMMA FirstMerged ==
    ASSUME NEW bs, Sound(bs)
    PROVE  MergedTo(bs, 1, <<bs[1]>>)
  <1> DEFINE ms == <<bs[1]>>
  <1>1. /\ bs \in Seq(Block) /\ Len(bs) \in Nat /\ 1 \in 1 .. Len(bs) /\ DOMAIN bs = 1 .. Len(bs)
        /\ bs[1] \in Block
    BY DEF Sound
  <1>2. /\ ms \in Seq(Block) /\ Len(ms) = 1 /\ ms[1] = bs[1] /\ DOMAIN ms = 1 .. 1 /\ ms # <<>>
    BY <1>1
  <1>3. UpToBlock(bs, 1) = ms
    BY <1>1 DEF UpToBlock
  <1> HIDE DEF ms
  <1>4. \A i \in 1 .. 1 : i = 1
    OBVIOUS
  <1>5. Sound(ms)
    BY <1>1, <1>2, <1>4 DEF Sound, Allotted
  <1>6. \A j \in Allotted(ms), i \in Allotted(bs) : i > 1 => Apart(ms[j], bs[i])
    BY <1>1, <1>2, <1>4 DEF Sound, Allotted
  <1>7. \A i \in 1 .. 1 : bs[i].in_use => \E j \in 1 .. Len(ms) : ms[j] = bs[i]
    BY <1>2, <1>4
  <1>8. \A j \in 1 .. Len(ms) - 1 : ~Merges(ms[j], ms[j + 1])
    BY <1>2
  <1>9. SameSums(UpToBlock(bs, 1), ms)
    BY <1>3 DEF SameSums
  <1> QED  BY <1>5, <1>6, <1>7, <1>8, <1>9 DEF MergedTo, ms

\* One more block.
LEMMA MergeStep ==
    ASSUME NEW bs, Sound(bs), NEW n \in Nat \ {0}, n < Len(bs), NEW ms, MergedTo(bs, n, ms)
    PROVE  MergedTo(bs, n + 1, MergeInto(ms, bs[n + 1]))
  <1>1. Last(ms) = ms[Len(ms)]
    BY DEF Last
  <1>2. CASE Merges(ms[Len(ms)], bs[n + 1])
    BY <1>1, <1>2, MergeGrows DEF MergeInto
  <1>3. CASE ~Merges(ms[Len(ms)], bs[n + 1])
    BY <1>1, <1>3, MergeAppends DEF MergeInto
  <1> QED  BY <1>2, <1>3

\* The equation that Merged solves, one block after the other.
Merging(bs, upTo) ==
    [n \in 1 .. Len(bs) |-> IF n = 1 THEN <<bs[1]>> ELSE MergeInto(upTo[n - 1], bs[n])]

\* It has a solution.
LEMMA MergeExists ==
    ASSUME NEW bs, Sound(bs)
    PROVE  \E upTo : upTo = Merging(bs, upTo)
  <1> DEFINE L == Len(bs)
             Step(f, n) == IF n = 1 THEN <<bs[1]>> ELSE MergeInto(f[n - 1], bs[n])
             Solves(m, f) == \A n \in 1 .. m : f[n] = Step(f, n)
             Reached == {m \in 1 .. L : \E f : Solves(m, f)}
  <1>1. L \in Nat /\ 1 \in 1 .. L
    BY DEF Sound
  <1>2. 1 \in Reached
    <2> DEFINE f == [n \in 1 .. 1 |-> <<bs[1]>>]
    <2>1. Solves(1, f)
      OBVIOUS
    <2> HIDE DEF Solves, f
    <2> QED  BY <1>1, <2>1, Zenon
  <1>3. ASSUME NEW m \in 1 .. L, m \in Reached, m < L
        PROVE  m + 1 \in Reached
    <2>1. PICK f : Solves(m, f)
      BY <1>3
    <2> DEFINE v == MergeInto(f[m], bs[m + 1])
               g == [n \in 1 .. m + 1 |-> IF n = m + 1 THEN v ELSE f[n]]
    <2>2. /\ m \in Nat \ {0} /\ m + 1 \in 1 .. L /\ (m + 1) - 1 = m
          /\ \A n \in 1 .. m + 1 : n = m + 1 \/ n \in 1 .. m
          /\ \A n \in 1 .. m : n \in 1 .. m + 1 /\ n # m + 1
          /\ \A n \in 1 .. m : n # 1 => n - 1 \in 1 .. m
          /\ m \in 1 .. m /\ m + 1 # 1
      BY <1>1, <1>3
    <2> HIDE DEF v
    <2>3. g[m + 1] = v /\ \A n \in 1 .. m : g[n] = f[n]
      BY <2>2
    <2> HIDE DEF g
    <2>4. ASSUME NEW n \in 1 .. m + 1
          PROVE  g[n] = Step(g, n)
      <3>1. CASE n = m + 1
        <4>1. Step(g, m + 1) = MergeInto(f[m], bs[m + 1])
          BY <2>2, <2>3
        <4> QED  BY <2>3, <3>1, <4>1 DEF v
      <3>2. CASE n \in 1 .. m
        <4>1. f[n] = Step(f, n)
          BY <2>1, <3>2
        <4>2. Step(g, n) = Step(f, n)
          BY <2>2, <2>3, <3>2
        <4> QED  BY <2>3, <3>2, <4>1, <4>2
      <3> QED  BY <2>2, <3>1, <3>2
    <2>5. Solves(m + 1, g)
      BY <2>4
    <2> HIDE DEF Solves
    <2> QED  BY <2>2, <2>5
  <1>4. L \in Reached
    <2> HIDE DEF Reached, L
    <2>1. 1 .. L \subseteq Reached
      BY <1>1, <1>2, <1>3, UpTo
    <2> QED  BY <1>1, <2>1
  <1>5. PICK f : Solves(L, f)
    BY <1>4
  <1> DEFINE g == [n \in 1 .. L |-> f[n]]
  <1>6. g = Merging(bs, g)
    <2>1. \A n \in 1 .. L : n # 1 => n - 1 \in 1 .. L
      BY <1>1
    <2>2. \A n \in 1 .. L : g[n] = f[n]
      OBVIOUS
    <2>3. g = [n \in 1 .. L |-> g[n]]
      OBVIOUS
    <2> HIDE DEF g
    <2>4. \A n \in 1 .. L : g[n] = Step(g, n)
      BY <1>5, <2>1, <2>2
    <2>5. [n \in 1 .. L |-> g[n]] = [n \in 1 .. L |-> Step(g, n)]
      BY <2>4
    <2> QED  BY <2>3, <2>5, Zenon DEF Merging
  <1> QED  BY <1>6, Zenon

\* CollectGarbage loses no block in use, no size and no account, and leaves
\* nothing to merge.
LEMMA MergedKeeps ==
    ASSUME NEW bs, Sound(bs)
    PROVE  /\ Sound(Merged(bs)) /\ SameSums(bs, Merged(bs))
           /\ \A i \in DOMAIN bs : bs[i].in_use =>
                \E j \in DOMAIN Merged(bs) : Merged(bs)[j] = bs[i]
           /\ \A j \in 1 .. Len(Merged(bs)) - 1 : ~Merges(Merged(bs)[j], Merged(bs)[j + 1])
  <1> DEFINE upTo[n \in 1 .. Len(bs)] ==
                IF n = 1 THEN <<bs[1]>> ELSE MergeInto(upTo[n - 1], bs[n])
             L == Len(bs)
  <1>1. upTo = Merging(bs, upTo)
    BY MergeExists, Zenon DEF Merging
  <1>2. Merged(bs) = upTo[L]
    BY DEF Merged
  <1>3. \A n \in 1 .. L : upTo[n] = IF n = 1 THEN <<bs[1]>> ELSE MergeInto(upTo[n - 1], bs[n])
    <2> DEFINE h == Merging(bs, upTo)
    <2>1. \A n \in 1 .. L : h[n] = IF n = 1 THEN <<bs[1]>> ELSE MergeInto(upTo[n - 1], bs[n])
      <3> HIDE DEF upTo
      <3> QED  BY DEF Merging
    <2> HIDE DEF h, upTo
    <2> QED  BY <1>1, <2>1, Zenon DEF h
  <1> HIDE DEF upTo
  <1> DEFINE Done == {n \in 1 .. L : MergedTo(bs, n, upTo[n])}
  <1>4. L \in Nat /\ 1 \in 1 .. L /\ DOMAIN bs = 1 .. L
    BY DEF Sound
  <1>5. 1 \in Done
    BY <1>3, <1>4, FirstMerged
  <1>6. ASSUME NEW n \in 1 .. L, n \in Done, n < L
        PROVE  n + 1 \in Done
    <2>1. n \in Nat \ {0} /\ n + 1 \in 1 .. L /\ n + 1 # 1 /\ (n + 1) - 1 = n
      BY <1>4, <1>6
    <2>2. upTo[n + 1] = MergeInto(upTo[n], bs[n + 1])
      BY <1>3, <2>1
    <2>3. MergedTo(bs, n + 1, MergeInto(upTo[n], bs[n + 1]))
      BY <1>6, <2>1, MergeStep
    <2> QED  BY <2>1, <2>2, <2>3
  <1>7. L \in Done
    <2> HIDE DEF Done, L
    <2>1. 1 .. L \subseteq Done
      BY <1>4, <1>5, <1>6, UpTo
    <2> QED  BY <1>4, <2>1
  <1>8. MergedTo(bs, L, Merged(bs))
    BY <1>2, <1>7
  <1>9. UpToBlock(bs, L) = bs
    BY <1>4 DEF UpToBlock, Sound
  <1>10. DOMAIN Merged(bs) = 1 .. Len(Merged(bs))
    BY <1>8 DEF MergedTo, Sound
  <1> HIDE DEF L
  <1> QED  BY <1>4, <1>8, <1>9, <1>10 DEF MergedTo

-------------------------------------------------------------------------------
(* The inductive invariant *)

\* The list is sound and the counters are what its blocks add up to.
BlocksInv ==
    /\ Sound(blocks) /\ threshold \in Nat
    /\ total = SumFunction(SizesOf(blocks)) /\ used = SumFunction(AllocsOf(blocks))
    /\ held \subseteq [ptr : Nat \ {Null}, size : Nat]

\* Every range has its block, which knows its size.
Backed(bs, hs) ==
    \A r \in hs : \E i \in DOMAIN bs :
        /\ bs[i].data = r.ptr /\ bs[i].in_use
        /\ bs[i].alloc_size = r.size /\ r.size <= bs[i].size

HeldSizes(hs) == [r \in hs |-> r.size]

\* What is in use is held or was refused.
HeldInv ==
    /\ IsFiniteSet(held) /\ Backed(blocks, held)
    /\ used = SumFunction(HeldSizes(held)) + SumFunction(LostOf(blocks))

\* Sizes are below the wrap of size_t, with the header they get.
NoWrap ==
    /\ \A n \in Sizes : n + 1 < SizeMod
    /\ \A a \in Arrays : 1 + a.elem * a.count < SizeMod

\* A sum is a number.
LEMMA SumIsNumber ==
    ASSUME NEW f, Summable(f)
    PROVE  SumFunction(f) \in Nat
  <1>1. PICK g : Sums(g, f) /\ SumFunction(f) = g[DOMAIN f]
    BY SumRecursion
  <1>2. Sums(g, f)
    BY <1>1
  <1>3. \A S \in SUBSET DOMAIN f :
            g[S] \in Nat /\ \A x \in S : g[S \ {x}] \in Nat /\ g[S] = f[x] + g[S \ {x}]
    BY <1>2, TakenFirst
  <1> QED  BY <1>1, <1>3

\* A block changes hands.
Used(bs, n, u, s) == [bs EXCEPT ![n].in_use = u, ![n].alloc_size = s]

\* What that does to the list and to its sums.
LEMMA UseChanged ==
    ASSUME NEW bs, Sound(bs), NEW n \in DOMAIN bs, NEW u \in BOOLEAN, NEW s \in Nat,
           u \/ s = 0, NEW cs, cs = Used(bs, n, u, s)
    PROVE  /\ Sound(cs) /\ DOMAIN cs = DOMAIN bs
           /\ \A i \in DOMAIN bs \ {n} : cs[i] = bs[i]
           /\ cs[n].data = bs[n].data /\ cs[n].size = bs[n].size
           /\ cs[n].in_use = u /\ cs[n].alloc_size = s
           /\ SumFunction(SizesOf(cs)) = SumFunction(SizesOf(bs))
           /\ SumFunction(AllocsOf(cs)) = (SumFunction(AllocsOf(bs)) - bs[n].alloc_size) + s
           /\ SumFunction(LostOf(cs)) = (SumFunction(LostOf(bs)) - Lost(bs[n])) + Lost(cs[n])
  <1> DEFINE b == bs[n]
             c == cs[n]
  <1>1. /\ bs \in Seq(Block) /\ Len(bs) \in Nat /\ Len(bs) # 0 /\ DOMAIN bs = 1 .. Len(bs)
        /\ \A i \in 1 .. Len(bs) : bs[i] \in Block
        /\ b \in Block
    BY DEF Sound
  <1>2. /\ c = [b EXCEPT !.in_use = u, !.alloc_size = s]
        /\ DOMAIN cs = DOMAIN bs /\ \A i \in DOMAIN bs \ {n} : cs[i] = bs[i]
    BY <1>1 DEF Used
  <1> HIDE DEF b, c
  <1>3. /\ c.data = b.data /\ c.size = b.size /\ c.in_use = u /\ c.alloc_size = s /\ c \in Block
    BY <1>1, <1>2 DEF Block
  <1>4. cs \in Seq(Block) /\ cs # <<>> /\ Len(cs) = Len(bs)
    <2>1. \A i \in 1 .. Len(bs) : cs[i] \in Block
      <3> QED  BY <1>1, <1>2, <1>3 DEF c
    <2>2. cs \in [1 .. Len(bs) -> Block]
      <3>1. cs = [i \in 1 .. Len(bs) |-> cs[i]]
        BY <1>1, <1>2 DEF Used
      <3> QED  BY <2>1, <3>1, Zenon
    <2>3. \A f \in [1 .. Len(bs) -> Block] : f \in Seq(Block) /\ f # <<>> /\ Len(f) = Len(bs)
      BY <1>1
    <2> QED  BY <2>2, <2>3, Zenon
  <1>5. \A i \in 1 .. Len(bs) : cs[i].size > 0 /\ (~cs[i].in_use => cs[i].alloc_size = 0)
    <2>1. \A i \in 1 .. Len(bs) : bs[i].size > 0 /\ (~bs[i].in_use => bs[i].alloc_size = 0)
      BY DEF Sound
    <2> QED  BY <1>1, <1>2, <1>3, <2>1 DEF b, c
  <1>6. \A i \in DOMAIN bs : cs[i].data = bs[i].data /\ cs[i].size = bs[i].size
    BY <1>2, <1>3 DEF b, c
  <1>7. \A i, j \in Allotted(cs) : i = j \/ Apart(cs[i], cs[j])
    <2>1. Allotted(cs) = Allotted(bs)
      BY <1>2, <1>6 DEF Allotted
    <2>2. \A i, j \in Allotted(bs) : i = j \/ Apart(bs[i], bs[j])
      BY DEF Sound
    <2> QED  BY <1>6, <2>1, <2>2 DEF Apart, EndOf, Allotted
  <1>8. Sound(cs)
    BY <1>4, <1>5, <1>7 DEF Sound
  <1>9. /\ SumFunction(SizesOf(cs)) = (SumFunction(SizesOf(bs)) - b.size) + c.size
        /\ SumFunction(AllocsOf(cs)) = (SumFunction(AllocsOf(bs)) - b.alloc_size) + c.alloc_size
        /\ SumFunction(LostOf(cs)) = (SumFunction(LostOf(bs)) - Lost(b)) + Lost(c)
        /\ SumFunction(SizesOf(bs)) \in Nat
    <2>1. /\ bs \in Seq(Block) /\ cs \in Seq(Block) /\ DOMAIN cs = DOMAIN bs
          /\ n \in DOMAIN bs /\ \A i \in DOMAIN bs \ {n} : cs[i] = bs[i]
      BY <1>1, <1>2, <1>4
    <2> QED  BY <2>1, ChangeAdds, Zenon DEF b, c
  <1>10. SumFunction(SizesOf(cs)) = SumFunction(SizesOf(bs))
    <2>1. \A x, y \in Nat : (x - y) + y = x
      OBVIOUS
    <2>2. b.size \in Nat
      BY <1>1 DEF Block
    <2> QED  BY <1>3, <1>9, <2>1, <2>2, Zenon
  <1> QED  BY <1>2, <1>3, <1>8, <1>9, <1>10 DEF b, c

\* Merging leaves what is held with its blocks, and the accounts alone.
LEMMA MergedBacks ==
    ASSUME NEW bs, Sound(bs), NEW hs, Backed(bs, hs)
    PROVE  Backed(Merged(bs), hs)
  <1>1. \A i \in DOMAIN bs : bs[i].in_use =>
            \E j \in DOMAIN Merged(bs) : Merged(bs)[j] = bs[i]
    BY MergedKeeps
  <1> DEFINE ms == Merged(bs)
  <1>2. \A i \in DOMAIN bs : bs[i].in_use => \E j \in DOMAIN ms : ms[j] = bs[i]
    BY <1>1
  <1> HIDE DEF ms
  <1>3. ASSUME NEW r \in hs
        PROVE  \E j \in DOMAIN ms :
                  /\ ms[j].data = r.ptr /\ ms[j].in_use
                  /\ ms[j].alloc_size = r.size /\ r.size <= ms[j].size
    <2>1. PICK i \in DOMAIN bs : /\ bs[i].data = r.ptr /\ bs[i].in_use
                                 /\ bs[i].alloc_size = r.size /\ r.size <= bs[i].size
      BY DEF Backed
    <2>2. PICK j \in DOMAIN ms : ms[j] = bs[i]
      BY <1>2, <2>1
    <2> QED  BY <2>1, <2>2
  <1> QED  BY <1>3 DEF Backed, ms

\* What is handed out of a block that overlaps no block in use is new.
LEMMA NewRange ==
    ASSUME BlocksInv, HeldInv, NEW b \in Block, b.size > 0, NEW size \in Nat, size <= b.size,
           \A i \in Allotted(blocks) : blocks[i].in_use => Apart(blocks[i], b)
    PROVE  \A h \in held : /\ h.ptr # b.data
                           /\ ~ (h.ptr < b.data + size /\ b.data < h.ptr + h.size)
  <1> SUFFICES ASSUME NEW h \in held
               PROVE  /\ h.ptr # b.data
                      /\ ~ (h.ptr < b.data + size /\ b.data < h.ptr + h.size)
    OBVIOUS
  <1>1. PICK i \in DOMAIN blocks :
            /\ blocks[i].data = h.ptr /\ blocks[i].in_use /\ h.size <= blocks[i].size
    BY DEF HeldInv, Backed
  <1> DEFINE c == blocks[i]
  <1>2. c \in Block /\ c.size > 0 /\ h.ptr \in Nat /\ h.size \in Nat /\ h.ptr # Null
    BY DEF BlocksInv, Sound
  <1>3. Apart(c, b)
    BY <1>1, <1>2 DEF Allotted
  <1>4. c.size \in Nat /\ b.data \in Nat /\ b.size \in Nat
    <2> HIDE DEF c
    <2> QED  BY <1>2 DEF Block
  <1>5. c.data = h.ptr /\ h.size <= c.size
    BY <1>1
  <1> HIDE DEF c
  <1> QED  BY <1>2, <1>3, <1>4, <1>5 DEF Apart, EndOf

-------------------------------------------------------------------------------
(* Allocate *)

\* What the sizes held add up to, with one range more.
LEMMA HeldAdds ==
    ASSUME NEW hs, IsFiniteSet(hs), NEW r, r \notin hs, r.size \in Nat,
           \A h \in hs : h.size \in Nat
    PROVE  /\ Summable(HeldSizes(hs)) /\ Summable(HeldSizes(hs \cup {r}))
           /\ SumFunction(HeldSizes(hs)) \in Nat
           /\ SumFunction(HeldSizes(hs \cup {r})) = SumFunction(HeldSizes(hs)) + r.size
           /\ IsFiniteSet(hs \cup {r})
  <1> DEFINE f == HeldSizes(hs)
             e == HeldSizes(hs \cup {r})
  <1>1. IsFiniteSet(hs \cup {r})
    BY FS_AddElement
  <1>2. Summable(f) /\ Summable(e)
    BY <1>1 DEF Summable, HeldSizes
  <1>3. /\ r \notin DOMAIN f /\ DOMAIN e = DOMAIN f \cup {r} /\ e[r] = r.size
        /\ \A h \in DOMAIN f : e[h] = f[h]
    BY DEF HeldSizes
  <1> HIDE DEF f, e
  <1>4. SumFunction(f) \in Nat /\ SumFunction(e) = SumFunction(f) + e[r]
    BY <1>2, <1>3, SumWith
  <1> QED  BY <1>1, <1>2, <1>3, <1>4 DEF f, e

\* A block that was in no hands is handed out: the accounts follow, and the
\* range is one that an abstract heap may give.
LEMMA GiveKeeps ==
    ASSUME BlocksInv, HeldInv, blocks' \in Seq(Block),
           NEW n \in DOMAIN blocks', NEW size \in Nat,
           Give(blocks'[n].data, size, size),
           \A i \in DOMAIN blocks : blocks[i].in_use =>
               i \in DOMAIN blocks' /\ blocks'[i] = blocks[i],
           blocks'[n].size > 0, blocks'[n].in_use, blocks'[n].alloc_size = size,
           size <= blocks'[n].size,
           blocks'[n].data # Null =>
                \A i \in Allotted(blocks) : blocks[i].in_use => Apart(blocks[i], blocks'[n]),
           SumFunction(LostOf(blocks')) = SumFunction(LostOf(blocks)) + Lost(blocks'[n])
    PROVE  HeldInv' /\ [Abstract!HeapNext]_held
  <1> DEFINE b == blocks'[n]
             r == [ptr |-> b.data, size |-> size]
  <1>1. /\ b \in Block /\ b.data \in Nat
        /\ SumFunction(LostOf(blocks)) \in Nat
        /\ \A h \in held : h.ptr \in Nat /\ h.size \in Nat
        /\ IsFiniteSet(held) /\ Backed(blocks, held)
        /\ used' = used + size
        /\ used = SumFunction(HeldSizes(held)) + SumFunction(LostOf(blocks))
    <2>1. b \in Block
      OBVIOUS
    <2>2. b.data \in Nat
      <3> HIDE DEF b
      <3> QED  BY <2>1 DEF Block
    <2>3. SumFunction(LostOf(blocks)) \in Nat
      BY ListOfBlocks, SumIsNumber DEF BlocksInv, Sound
    <2> QED  BY <2>1, <2>2, <2>3 DEF BlocksInv, HeldInv, Give
  <1>2. \A h \in held : \E i \in DOMAIN blocks' :
            /\ blocks'[i].data = h.ptr /\ blocks'[i].in_use
            /\ blocks'[i].alloc_size = h.size /\ h.size <= blocks'[i].size
    BY <1>1 DEF Backed
  <1>3. CASE b.data = Null
    <2>1. held' = held /\ Lost(b) = size
      BY <1>3 DEF Give, Lost
    <2>2. Backed(blocks', held)
      BY <1>2 DEF Backed
    <2>3. SumFunction(HeldSizes(held)) \in Nat
      <3>1. Summable(HeldSizes(held))
        BY <1>1 DEF Summable, HeldSizes
      <3> QED  BY <3>1, SumIsNumber
    <2>4. used' = SumFunction(HeldSizes(held)) + SumFunction(LostOf(blocks'))
      BY <1>1, <2>1, <2>3
    <2> QED  BY <1>1, <2>1, <2>2, <2>4 DEF HeldInv
  <1>4. CASE b.data # Null
    <2>1. held' = held \cup {r} /\ Lost(b) = 0
      BY <1>4 DEF Give, Lost
    <2>2. \A h \in held : /\ h.ptr # b.data
                          /\ ~ (h.ptr < b.data + size /\ b.data < h.ptr + h.size)
      BY <1>1, <1>4, NewRange
    <2>3. r.ptr = b.data /\ r.size = size
      OBVIOUS
    <2> HIDE DEF r, b
    <2>4. r \notin held
      BY <2>2, <2>3
    <2>5. Abstract!Obtain(r)
      BY <2>1, <2>2, <2>3 DEF Abstract!Obtain, Abstract!Overlap
    <2>6. Abstract!HeapNext
      <3>1. r \in held' \ held
        BY <2>1, <2>4
      <3> QED  BY <2>5, <3>1 DEF Abstract!HeapNext
    <2>7. Backed(blocks', held')
      <3>1. /\ b.data = r.ptr /\ b.in_use /\ b.alloc_size = r.size /\ r.size <= b.size
        BY <2>3 DEF b
      <3> QED  BY <1>2, <2>1, <3>1 DEF Backed, b
    <2>8. /\ SumFunction(HeldSizes(held)) \in Nat
          /\ SumFunction(HeldSizes(held')) = SumFunction(HeldSizes(held)) + size
          /\ IsFiniteSet(held')
      BY <1>1, <2>1, <2>3, <2>4, HeldAdds
    <2>9. used' = SumFunction(HeldSizes(held')) + SumFunction(LostOf(blocks'))
      BY <1>1, <2>1, <2>8 DEF b
    <2> QED  BY <2>6, <2>7, <2>8, <2>9 DEF HeldInv
  <1> QED  BY <1>3, <1>4

\* What is held afterwards has the type.
LEMMA GiveTypes ==
    ASSUME BlocksInv, NEW ptr \in Nat, NEW size, NEW wanted \in Nat, Give(ptr, size, wanted)
    PROVE  held' \subseteq [ptr : Nat \ {Null}, size : Nat] /\ threshold' = threshold
  BY DEF BlocksInv, Give

\* A block is used again.
LEMMA ReuseKeeps ==
    ASSUME BlocksInv, NEW size \in Nat, NEW wanted \in Nat, Reuse(size, wanted)
    PROVE  /\ BlocksInv'
           /\ HeldInv /\ size = wanted => HeldInv' /\ [Abstract!HeapNext]_held
  <1>1. PICK n \in DOMAIN blocks :
            /\ Fits(blocks[n], size)
            /\ blocks' = [blocks EXCEPT ![n].in_use = TRUE, ![n].alloc_size = size]
            /\ Give(blocks[n].data, size, wanted)
            /\ UNCHANGED total
    BY DEF Reuse, ReuseOneOf
  <1> DEFINE b == blocks[n]
  <1>2. /\ Sound(blocks) /\ blocks \in Seq(Block) /\ DOMAIN blocks = 1 .. Len(blocks)
        /\ n \in 1 .. Len(blocks)
        /\ b.data \in Nat /\ b.size \in Nat /\ b.size > 0
        /\ ~b.in_use /\ size <= b.size /\ b.alloc_size = 0 /\ Lost(b) = 0
        /\ SumFunction(AllocsOf(blocks)) \in Nat /\ SumFunction(LostOf(blocks)) \in Nat
    <2>1. /\ Sound(blocks) /\ blocks \in Seq(Block) /\ DOMAIN blocks = 1 .. Len(blocks)
          /\ n \in 1 .. Len(blocks) /\ b.size > 0 /\ ~b.in_use /\ b.alloc_size = 0
      BY <1>1 DEF BlocksInv, Sound, Fits
    <2>2. b.data \in Nat /\ b.size \in Nat
      BY <2>1, ListOfBlocks
    <2>3. SumFunction(AllocsOf(blocks)) \in Nat /\ SumFunction(LostOf(blocks)) \in Nat
      BY <2>1, ListOfBlocks, SumIsNumber
    <2>4. size <= b.size
      BY <1>1, <2>2 DEF Fits
    <2> QED  BY <2>1, <2>2, <2>3, <2>4 DEF Lost
  <1>3. /\ Sound(blocks') /\ DOMAIN blocks' = DOMAIN blocks
        /\ \A i \in DOMAIN blocks \ {n} : blocks'[i] = blocks[i]
        /\ blocks'[n].data = b.data /\ blocks'[n].size = b.size
        /\ blocks'[n].in_use = TRUE /\ blocks'[n].alloc_size = size
        /\ SumFunction(SizesOf(blocks')) = SumFunction(SizesOf(blocks))
        /\ SumFunction(AllocsOf(blocks')) = (SumFunction(AllocsOf(blocks)) - b.alloc_size) + size
        /\ SumFunction(LostOf(blocks'))
             = (SumFunction(LostOf(blocks)) - Lost(b)) + Lost(blocks'[n])
    <2>1. PICK u \in BOOLEAN : u = TRUE
      OBVIOUS
    <2>2. /\ blocks' = Used(blocks, n, u, size) /\ Sound(blocks) /\ n \in DOMAIN blocks
          /\ (u \/ size = 0)
      BY <1>1, <1>2, <2>1 DEF Used
    <2>3. /\ Sound(blocks') /\ DOMAIN blocks' = DOMAIN blocks
          /\ \A i \in DOMAIN blocks \ {n} : blocks'[i] = blocks[i]
          /\ blocks'[n].data = blocks[n].data /\ blocks'[n].size = blocks[n].size
          /\ blocks'[n].in_use = u /\ blocks'[n].alloc_size = size
          /\ SumFunction(SizesOf(blocks')) = SumFunction(SizesOf(blocks))
          /\ SumFunction(AllocsOf(blocks'))
               = (SumFunction(AllocsOf(blocks)) - blocks[n].alloc_size) + size
          /\ SumFunction(LostOf(blocks'))
               = (SumFunction(LostOf(blocks)) - Lost(blocks[n])) + Lost(blocks'[n])
      BY <2>2, UseChanged
    <2> QED  BY <2>1, <2>3
  <1> HIDE DEF b
  <1>4. BlocksInv'
    <2>1. SumFunction(AllocsOf(blocks')) = SumFunction(AllocsOf(blocks)) + size
      BY <1>2, <1>3
    <2>2. held' \subseteq [ptr : Nat \ {Null}, size : Nat] /\ threshold' = threshold
      BY <1>1, <1>2, GiveTypes DEF b
    <2>3. used' = used + size
      BY <1>1 DEF Give
    <2> QED  BY <1>1, <1>3, <2>1, <2>2, <2>3 DEF BlocksInv
  <1>5. ASSUME HeldInv, size = wanted
        PROVE  HeldInv' /\ [Abstract!HeapNext]_held
    <2>1. blocks' \in Seq(Block) /\ n \in DOMAIN blocks'
      BY <1>2, <1>3 DEF Sound
    <2>2. Give(blocks'[n].data, size, size)
      BY <1>1, <1>3, <1>5 DEF b
    <2>3. \A i \in DOMAIN blocks : blocks[i].in_use =>
               i \in DOMAIN blocks' /\ blocks'[i] = blocks[i] /\ i # n
      BY <1>2, <1>3 DEF b
    <2>4. blocks'[n].data # Null =>
               \A i \in Allotted(blocks) : blocks[i].in_use => Apart(blocks[i], blocks'[n])
      <3>1. ASSUME blocks'[n].data # Null, NEW i \in Allotted(blocks), blocks[i].in_use
            PROVE  Apart(blocks[i], blocks'[n])
        <4>1. n \in Allotted(blocks) /\ i # n
          BY <1>2, <1>3, <2>3, <3>1 DEF Allotted, b
        <4>2. Apart(blocks[i], b)
          BY <1>2, <4>1 DEF Sound, b
        <4> QED  BY <1>3, <4>2 DEF Apart, EndOf
      <3> QED  BY <3>1
    <2>5. SumFunction(LostOf(blocks')) = SumFunction(LostOf(blocks)) + Lost(blocks'[n])
      BY <1>2, <1>3
    <2>6. blocks'[n].size > 0 /\ size <= blocks'[n].size
      BY <1>2, <1>3
    <2> QED  BY <1>3, <1>5, <2>1, <2>2, <2>3, <2>4, <2>5, <2>6, GiveKeeps
  <1> QED  BY <1>4, <1>5

\* A new block is taken from malloc, which may refuse.
LEMMA ExpandKeeps ==
    ASSUME BlocksInv, NEW size \in Nat, NEW wanted \in Nat, Expand(size, wanted)
    PROVE  /\ BlocksInv'
           /\ HeldInv /\ size = wanted => HeldInv' /\ [Abstract!HeapNext]_held
  <1> DEFINE chunk == AtLeastChunk(size)
             n == Len(blocks) + 1
  <1>1. PICK a \in Malloc(chunk) :
            /\ blocks' = Append(blocks, [data |-> a, size |-> chunk,
                                         in_use |-> TRUE, alloc_size |-> size])
            /\ Give(a, size, wanted)
    BY DEF Expand
  <1> DEFINE b == [data |-> a, size |-> chunk, in_use |-> TRUE, alloc_size |-> size]
  <1>2. chunk \in Nat /\ chunk > 0 /\ size <= chunk
    BY ConstantsAssumption DEF ConstantsAssumption, AtLeastChunk
  <1>3. a \in Nat
    BY ConstantsAssumption DEF ConstantsAssumption, Malloc, Null
  <1>4. /\ b \in Block /\ b.data = a /\ b.size = chunk /\ b.in_use /\ b.alloc_size = size
    BY <1>2, <1>3 DEF Block
  <1>5. /\ Sound(blocks) /\ blocks \in Seq(Block) /\ DOMAIN blocks = 1 .. Len(blocks)
        /\ Len(blocks) \in Nat
    BY DEF BlocksInv, Sound
  <1>6. /\ blocks' = Append(blocks, b) /\ total' = total + chunk
    BY <1>1 DEF Expand
  <1> HIDE DEF b, chunk
  <1>7. b.data # Null => \A i \in Allotted(blocks) : Apart(blocks[i], b)
    BY <1>1, <1>4, ConstantsAssumption DEF ConstantsAssumption, Malloc, Apart, EndOf
  <1>8. Sound(blocks')
    BY <1>2, <1>4, <1>5, <1>6, <1>7, AppendSound
  <1>9. /\ SumFunction(SizesOf(blocks')) = SumFunction(SizesOf(blocks)) + b.size
        /\ SumFunction(AllocsOf(blocks')) = SumFunction(AllocsOf(blocks)) + b.alloc_size
        /\ SumFunction(LostOf(blocks')) = SumFunction(LostOf(blocks)) + Lost(b)
    BY <1>4, <1>5, <1>6, AppendAdds
  <1>10. BlocksInv'
    <2>1. held' \subseteq [ptr : Nat \ {Null}, size : Nat] /\ threshold' = threshold
      BY <1>1, <1>3, GiveTypes
    <2>2. used' = used + size
      BY <1>1 DEF Give
    <2> QED  BY <1>4, <1>6, <1>8, <1>9, <2>1, <2>2 DEF BlocksInv
  <1>11. ASSUME HeldInv, size = wanted
         PROVE  HeldInv' /\ [Abstract!HeapNext]_held
    <2>1. /\ blocks' \in Seq(Block) /\ n \in DOMAIN blocks' /\ blocks'[n] = b
          /\ \A i \in DOMAIN blocks : i \in DOMAIN blocks' /\ blocks'[i] = blocks[i]
      BY <1>4, <1>5, <1>6
    <2>2. Give(blocks'[n].data, size, size)
      BY <1>1, <1>4, <1>11, <2>1
    <2> HIDE DEF n
    <2>3. blocks'[n].data # Null =>
               \A i \in Allotted(blocks) : blocks[i].in_use => Apart(blocks[i], blocks'[n])
      BY <1>7, <2>1
    <2>4. SumFunction(LostOf(blocks')) = SumFunction(LostOf(blocks)) + Lost(blocks'[n])
      BY <1>9, <2>1
    <2>5. /\ blocks'[n].size > 0 /\ size <= blocks'[n].size
          /\ blocks'[n].in_use /\ blocks'[n].alloc_size = size
      BY <1>2, <1>4, <2>1
    <2> QED  BY <1>11, <2>1, <2>2, <2>3, <2>4, <2>5, GiveKeeps
  <1> QED  BY <1>10, <1>11

-------------------------------------------------------------------------------
(* Free and CollectGarbage *)

\* Merging keeps the list sound and the counters right.
LEMMA MergedBlocks ==
    ASSUME NEW bs, Sound(bs)
    PROVE  /\ Sound(Merged(bs))
           /\ SumFunction(SizesOf(Merged(bs))) = SumFunction(SizesOf(bs))
           /\ SumFunction(AllocsOf(Merged(bs))) = SumFunction(AllocsOf(bs))
           /\ SumFunction(LostOf(Merged(bs))) = SumFunction(LostOf(bs))
  BY MergedKeeps DEF SameSums

\* CollectGarbage.
LEMMA CollectKeeps ==
    ASSUME BlocksInv, CollectGarbage
    PROVE  BlocksInv' /\ held' = held /\ (HeldInv => HeldInv')
  <1>1. /\ blocks' = Merged(blocks) /\ UNCHANGED <<total, used, threshold, held>>
        /\ Sound(blocks)
    BY DEF BlocksInv, CollectGarbage
  <1>2. /\ Sound(blocks')
        /\ SumFunction(SizesOf(blocks')) = SumFunction(SizesOf(blocks))
        /\ SumFunction(AllocsOf(blocks')) = SumFunction(AllocsOf(blocks))
        /\ SumFunction(LostOf(blocks')) = SumFunction(LostOf(blocks))
    BY <1>1, MergedBlocks
  <1>3. BlocksInv'
    BY <1>1, <1>2 DEF BlocksInv
  <1>4. HeldInv => HeldInv'
    BY <1>1, <1>2, MergedBacks DEF HeldInv
  <1> QED  BY <1>1, <1>3, <1>4

\* The block that Free finds gives up its size; neighbours may be merged.
LEMMA FreeKeeps ==
    ASSUME BlocksInv, NEW r, Free(r)
    PROVE  /\ BlocksInv'
           /\ HeldInv => HeldInv'
           /\ Abstract!HeapNext
           /\ used' < threshold' \div 2 =>
                \A i \in 1 .. Len(blocks') - 1 : ~Merges(blocks'[i], blocks'[i + 1])
  <1>1. PICK n \in DOMAIN blocks :
            /\ blocks[n].data = r.ptr
            /\ used' = used - blocks[n].alloc_size
            /\ blocks' = AfterFree([blocks EXCEPT ![n].in_use = FALSE, ![n].alloc_size = 0], used')
    BY DEF Free, FreedSize
  <1> DEFINE cs == [blocks EXCEPT ![n].in_use = FALSE, ![n].alloc_size = 0]
             b == blocks[n]
  <1>2. /\ Sound(blocks) /\ blocks \in Seq(Block) /\ DOMAIN blocks = 1 .. Len(blocks)
        /\ Len(blocks) \in Nat
        /\ r \in held /\ held' = held \ {r} /\ UNCHANGED <<total, threshold>>
        /\ b.data = r.ptr /\ r.ptr \in Nat /\ r.ptr # Null /\ r.size \in Nat
        /\ b.alloc_size \in Nat
    <2>1. /\ Sound(blocks) /\ blocks \in Seq(Block) /\ DOMAIN blocks = 1 .. Len(blocks)
          /\ Len(blocks) \in Nat
          /\ r \in held /\ held' = held \ {r} /\ UNCHANGED <<total, threshold>>
          /\ b.data = r.ptr
      BY <1>1 DEF BlocksInv, Sound, Free
    <2>2. b.alloc_size \in Nat
      BY <2>1, ListOfBlocks
    <2> QED  BY <2>1, <2>2 DEF BlocksInv
  <1>3. /\ Sound(cs) /\ DOMAIN cs = DOMAIN blocks
        /\ \A i \in DOMAIN blocks \ {n} : cs[i] = blocks[i]
        /\ cs[n].data = b.data
        /\ SumFunction(SizesOf(cs)) = SumFunction(SizesOf(blocks))
        /\ SumFunction(AllocsOf(cs)) = (SumFunction(AllocsOf(blocks)) - b.alloc_size) + 0
        /\ SumFunction(LostOf(cs)) = (SumFunction(LostOf(blocks)) - Lost(b)) + Lost(cs[n])
    <2>1. PICK u \in BOOLEAN : u = FALSE
      OBVIOUS
    <2>2. /\ cs = Used(blocks, n, u, 0) /\ Sound(blocks) /\ n \in DOMAIN blocks
          /\ (u \/ 0 = 0) /\ 0 \in Nat
      BY <1>1, <1>2, <2>1 DEF Used
    <2> HIDE DEF cs
    <2> QED  BY <2>2, UseChanged
  <1>4. blocks' = AfterFree(cs, used')
    BY <1>1
  <1> HIDE DEF cs, b
  <1>5. \/ blocks' = cs /\ ~ (used' < threshold \div 2)
        \/ blocks' = Merged(cs)
    BY <1>4 DEF AfterFree
  <1>6. /\ Sound(blocks')
        /\ SumFunction(SizesOf(blocks')) = SumFunction(SizesOf(blocks))
        /\ SumFunction(AllocsOf(blocks')) = (SumFunction(AllocsOf(blocks)) - b.alloc_size) + 0
        /\ SumFunction(LostOf(blocks')) = SumFunction(LostOf(blocks))
    <2>1. Lost(b) = 0 /\ Lost(cs[n]) = 0
      BY <1>2, <1>3 DEF Lost
    <2>2. SumFunction(LostOf(blocks)) \in Nat
      BY <1>2, ListOfBlocks, SumIsNumber
    <2>3. SumFunction(LostOf(cs)) = SumFunction(LostOf(blocks))
      BY <1>3, <2>1, <2>2
    <2> QED  BY <1>3, <1>5, <2>3, MergedBlocks
  <1>7. BlocksInv'
    <2>1. SumFunction(AllocsOf(blocks)) \in Nat
      BY <1>2, ListOfBlocks, SumIsNumber
    <2>2. used' = SumFunction(AllocsOf(blocks'))
      BY <1>1, <1>2, <1>6, <2>1 DEF BlocksInv, b
    <2> QED  BY <1>2, <1>6, <2>2 DEF BlocksInv
  <1>8. Abstract!HeapNext
    <2>1. r \in held \ held'
      BY <1>2
    <2>2. Abstract!Release(r)
      BY <1>2 DEF Abstract!Release
    <2> QED  BY <2>1, <2>2 DEF Abstract!HeapNext
  <1>9. ASSUME HeldInv
        PROVE  HeldInv'
    <2>1. \A i, j \in DOMAIN blocks :
              blocks[i].data = blocks[j].data /\ blocks[i].data # Null => i = j
      <3>1. ASSUME NEW i \in DOMAIN blocks, NEW j \in DOMAIN blocks, i # j,
                   blocks[i].data = blocks[j].data, blocks[i].data # Null
            PROVE  FALSE
        <4>1. Apart(blocks[i], blocks[j])
          BY <1>2, <3>1 DEF Sound, Allotted
        <4>2. /\ blocks[i].data \in Nat /\ blocks[i].size \in Nat /\ blocks[i].size > 0
              /\ blocks[j].size \in Nat /\ blocks[j].size > 0
          <5>1. blocks[i].size > 0 /\ blocks[j].size > 0
            BY <1>2 DEF Sound
          <5> QED  BY <1>2, <5>1, ListOfBlocks
        <4> QED  BY <3>1, <4>1, <4>2 DEF Apart, EndOf
      <3> QED  BY <3>1
    <2>2. ASSUME NEW h \in held
          PROVE  \E i \in DOMAIN blocks :
                    /\ blocks[i].data = h.ptr /\ blocks[i].in_use
                    /\ blocks[i].alloc_size = h.size /\ h.size <= blocks[i].size
      BY <1>9 DEF HeldInv, Backed
    <2>3. b.alloc_size = r.size
      BY <1>2, <2>1, <2>2 DEF b
    <2>4. \A h \in held \ {r} : h.ptr # r.ptr
      <3>1. ASSUME NEW h \in held, h.ptr = r.ptr
            PROVE  h = r
        <4>1. h.size = b.alloc_size
          BY <1>2, <2>1, <2>2, <3>1 DEF b
        <4>2. \A x, y \in [ptr : Nat \ {Null}, size : Nat] :
                    x.ptr = y.ptr /\ x.size = y.size => x = y
          OBVIOUS
        <4> QED  BY <1>2, <2>3, <3>1, <4>1, <4>2 DEF BlocksInv
      <3> QED  BY <3>1
    <2>5. Backed(cs, held')
      <3>1. ASSUME NEW h \in held'
            PROVE  \E i \in DOMAIN cs :
                      /\ cs[i].data = h.ptr /\ cs[i].in_use
                      /\ cs[i].alloc_size = h.size /\ h.size <= cs[i].size
        <4>1. h \in held /\ h.ptr # r.ptr
          BY <1>2, <2>4
        <4>2. PICK i \in DOMAIN blocks :
                    /\ blocks[i].data = h.ptr /\ blocks[i].in_use
                    /\ blocks[i].alloc_size = h.size /\ h.size <= blocks[i].size
          BY <2>2, <4>1
        <4>3. i # n
          BY <1>2, <4>1, <4>2 DEF b
        <4> QED  BY <1>3, <4>2, <4>3
      <3> QED  BY <3>1 DEF Backed
    <2>6. Backed(blocks', held')
      BY <1>3, <1>5, <2>5, MergedBacks
    <2>7. /\ SumFunction(HeldSizes(held')) \in Nat /\ IsFiniteSet(held')
          /\ SumFunction(HeldSizes(held)) = SumFunction(HeldSizes(held')) + r.size
      <3>1. /\ IsFiniteSet(held') /\ r \notin held' /\ held = held' \cup {r}
            /\ \A h \in held' : h.size \in Nat
        BY <1>2, <1>9, FS_RemoveElement DEF HeldInv, BlocksInv
      <3> DEFINE hs == held'
      <3>2. /\ IsFiniteSet(hs) /\ r \notin hs /\ \A h \in hs : h.size \in Nat
        BY <3>1
      <3>3. held = hs \cup {r}
        BY <3>1
      <3> HIDE DEF hs
      <3>4. /\ SumFunction(HeldSizes(hs)) \in Nat
            /\ SumFunction(HeldSizes(hs \cup {r})) = SumFunction(HeldSizes(hs)) + r.size
        BY <1>2, <3>2, HeldAdds
      <3> QED  BY <3>2, <3>3, <3>4 DEF hs
    <2>8. used' = SumFunction(HeldSizes(held')) + SumFunction(LostOf(blocks'))
      <3>1. SumFunction(LostOf(blocks)) \in Nat
        BY <1>2, ListOfBlocks, SumIsNumber
      <3>2. used' = used - r.size
        BY <1>1, <2>3 DEF b
      <3>3. used = SumFunction(HeldSizes(held)) + SumFunction(LostOf(blocks))
        BY <1>9 DEF HeldInv
      <3>4. used' = ((SumFunction(HeldSizes(held')) + r.size) + SumFunction(LostOf(blocks))) - r.size
        BY <2>7, <3>2, <3>3
      <3> QED  BY <1>2, <1>6, <2>7, <3>1, <3>4
    <2> QED  BY <2>6, <2>7, <2>8 DEF HeldInv
  <1>10. used' < threshold' \div 2 =>
            \A i \in 1 .. Len(blocks') - 1 : ~Merges(blocks'[i], blocks'[i + 1])
    <2>1. ASSUME used' < threshold' \div 2
          PROVE  \A i \in 1 .. Len(blocks') - 1 : ~Merges(blocks'[i], blocks'[i + 1])
      <3>1. blocks' = Merged(cs)
        BY <1>2, <1>5, <2>1
      <3>2. \A i \in 1 .. Len(Merged(cs)) - 1 : ~Merges(Merged(cs)[i], Merged(cs)[i + 1])
        BY <1>3, MergedKeeps
      <3> QED  BY <3>1, <3>2
    <2> QED  BY <2>1
  <1> QED  BY <1>7, <1>8, <1>9, <1>10

-------------------------------------------------------------------------------
(* The theorems *)

\* One free block, and nobody holds anything.
LEMMA Initially ==
    ASSUME Init
    PROVE  BlocksInv /\ HeldInv
  <1>1. PICK a \in {Null} \cup {x \in Addresses : x + MinChunk <= AddressEnd} :
            blocks = <<[data |-> a, size |-> MinChunk, in_use |-> FALSE, alloc_size |-> 0]>>
    BY DEF Init
  <1> DEFINE b == [data |-> a, size |-> MinChunk, in_use |-> FALSE, alloc_size |-> 0]
             none == <<>>
  <1>2. /\ a \in Nat /\ MinChunk \in Nat /\ MinChunk > 0
        /\ total = MinChunk /\ used = 0 /\ threshold = MinChunk /\ held = {}
    BY ConstantsAssumption DEF ConstantsAssumption, Init, Null
  <1>3. b \in Block /\ b.size = MinChunk /\ ~b.in_use /\ b.alloc_size = 0 /\ Lost(b) = 0
    BY <1>2 DEF Block, Lost
  <1>4. /\ blocks = <<b>> /\ blocks = Append(none, b)
        /\ none \in Seq(Block) /\ DOMAIN none = {}
    BY <1>1
  <1> HIDE DEF b, none
  <1>5. /\ blocks \in Seq(Block) /\ Len(blocks) = 1 /\ blocks[1] = b /\ blocks # <<>>
        /\ DOMAIN blocks = 1 .. 1
    BY <1>3, <1>4
  <1>6. \A i \in 1 .. 1 : i = 1
    OBVIOUS
  <1>7. Sound(blocks)
    BY <1>2, <1>3, <1>5, <1>6 DEF Sound, Allotted
  <1>8. /\ SumFunction(SizesOf(none)) = 0 /\ SumFunction(AllocsOf(none)) = 0
        /\ SumFunction(LostOf(none)) = 0
    <2>1. /\ DOMAIN SizesOf(none) = {} /\ DOMAIN AllocsOf(none) = {} /\ DOMAIN LostOf(none) = {}
      BY <1>4 DEF SizesOf, AllocsOf, LostOf
    <2>2. Summable(SizesOf(none)) /\ Summable(AllocsOf(none)) /\ Summable(LostOf(none))
      BY <1>4, ListOfBlocks
    <2> QED  BY <2>1, <2>2, SumOfNone
  <1>9. /\ SumFunction(SizesOf(blocks)) = SumFunction(SizesOf(none)) + b.size
        /\ SumFunction(AllocsOf(blocks)) = SumFunction(AllocsOf(none)) + b.alloc_size
        /\ SumFunction(LostOf(blocks)) = SumFunction(LostOf(none)) + Lost(b)
    BY <1>3, <1>4, AppendAdds
  <1>10. IsFiniteSet(held) /\ SumFunction(HeldSizes(held)) = 0
    <2>1. IsFiniteSet(held)
      BY <1>2, FS_EmptySet
    <2>2. DOMAIN HeldSizes(held) = {} /\ Summable(HeldSizes(held))
      BY <1>2, <2>1 DEF HeldSizes, Summable
    <2> QED  BY <2>1, <2>2, SumOfNone
  <1>11. BlocksInv
    BY <1>2, <1>3, <1>7, <1>8, <1>9 DEF BlocksInv
  <1>12. HeldInv
    BY <1>2, <1>3, <1>8, <1>9, <1>10 DEF HeldInv, Backed
  <1> QED  BY <1>11, <1>12

\* What an allocation does to the invariant, and to the abstract heap.
LEMMA AllocateKeeps ==
    ASSUME BlocksInv, NEW size \in Nat, NEW wanted \in Nat, Allocate(size, wanted)
    PROVE  /\ BlocksInv'
           /\ HeldInv /\ size = wanted => HeldInv' /\ [Abstract!HeapNext]_held
  BY ReuseKeeps, ExpandKeeps DEF Allocate

\* Sizes that do not wrap are what the caller wants.
LEMMA SizesAreNumbers ==
    /\ \A n \in Sizes : ObjectSize(n) \in Nat /\ n + 1 \in Nat
    /\ \A a \in Arrays : ArraySize(a) \in Nat /\ 1 + a.elem * a.count \in Nat
    /\ NoWrap => /\ \A n \in Sizes : ObjectSize(n) = n + 1
                 /\ \A a \in Arrays : ArraySize(a) = 1 + a.elem * a.count
  <1>1. \A x \in Nat : (x % SizeMod) \in Nat /\ (x < SizeMod => (x % SizeMod) = x)
    BY ConstantsAssumption DEF ConstantsAssumption
  <1>2. \A n \in Sizes : n + 1 \in Nat
    BY ConstantsAssumption DEF ConstantsAssumption
  <1>3. \A a \in Arrays : 1 + a.elem * a.count \in Nat
    <2>1. \A x, y \in Nat : 1 + x * y \in Nat
      OBVIOUS
    <2>2. \A a \in Arrays : a.elem \in Nat /\ a.count \in Nat
      BY ConstantsAssumption DEF ConstantsAssumption
    <2> QED  BY <2>1, <2>2, Zenon
  <1> QED  BY <1>1, <1>2, <1>3, Zenon DEF ObjectSize, ArraySize, NoWrap

\* A step that frees nothing keeps every range.
LEMMA GivesOnly ==
    ASSUME NEW size, NEW wanted, Allocate(size, wanted)
    PROVE  held \subseteq held'
  BY DEF Allocate, Reuse, ReuseOneOf, Expand, Give

\* Every step keeps the blocks sound, and merges when it frees to little use.
LEMMA BlocksStep ==
    ASSUME BlocksInv, [Next]_vars
    PROVE  /\ BlocksInv'
           /\ \A r \in held : r \notin held' /\ used' < threshold' \div 2 =>
                \A i \in 1 .. Len(blocks') - 1 : ~Merges(blocks'[i], blocks'[i + 1])
  <1>1. ASSUME NEW n \in Sizes, AllocateObject(n)
        PROVE  BlocksInv' /\ held \subseteq held'
    BY <1>1, SizesAreNumbers, AllocateKeeps, GivesOnly DEF AllocateObject
  <1>2. ASSUME NEW a \in Arrays, AllocateArray(a)
        PROVE  BlocksInv' /\ held \subseteq held'
    <2>1. ArraySize(a) \in Nat /\ 1 + a.elem * a.count \in Nat
      BY SizesAreNumbers
    <2> DEFINE wanted == 1 + a.elem * a.count
    <2>2. wanted \in Nat /\ Allocate(ArraySize(a), wanted)
      BY <1>2, <2>1 DEF AllocateArray
    <2> HIDE DEF wanted
    <2> QED  BY <2>1, <2>2, AllocateKeeps, GivesOnly
  <1>3. ASSUME NEW r \in held, Free(r)
        PROVE  /\ BlocksInv'
               /\ used' < threshold' \div 2 =>
                    \A i \in 1 .. Len(blocks') - 1 : ~Merges(blocks'[i], blocks'[i + 1])
    BY <1>3, FreeKeeps
  <1>4. CASE CollectGarbage
    BY <1>4, CollectKeeps
  <1>5. ASSUME NEW t \in Thresholds, SetGCThreshold(t)
        PROVE  BlocksInv' /\ held' = held
    BY <1>5, ConstantsAssumption DEF ConstantsAssumption, SetGCThreshold, BlocksInv
  <1>6. CASE UNCHANGED vars
    BY <1>6 DEF vars, BlocksInv
  <1> QED  BY <1>1, <1>2, <1>3, <1>4, <1>5, <1>6 DEF Next, vars

\* Every step without wrap keeps what is held in its blocks, and is a step of
\* the abstract heap.
LEMMA HeldStep ==
    ASSUME NoWrap, BlocksInv, HeldInv, [Next]_vars
    PROVE  HeldInv' /\ [Abstract!HeapNext]_held
  <1>1. ASSUME NEW n \in Sizes, AllocateObject(n)
        PROVE  HeldInv' /\ [Abstract!HeapNext]_held
    <2>1. n + 1 \in Nat /\ ObjectSize(n) = n + 1
      BY SizesAreNumbers
    <2> DEFINE wanted == n + 1
    <2>2. wanted \in Nat /\ Allocate(wanted, wanted)
      BY <1>1, <2>1 DEF AllocateObject
    <2> HIDE DEF wanted
    <2> QED  BY <2>2, AllocateKeeps
  <1>2. ASSUME NEW a \in Arrays, AllocateArray(a)
        PROVE  HeldInv' /\ [Abstract!HeapNext]_held
    <2>1. 1 + a.elem * a.count \in Nat /\ ArraySize(a) = 1 + a.elem * a.count
      BY SizesAreNumbers
    <2> DEFINE wanted == 1 + a.elem * a.count
    <2>2. wanted \in Nat /\ Allocate(wanted, wanted)
      BY <1>2, <2>1 DEF AllocateArray
    <2> HIDE DEF wanted
    <2> QED  BY <2>2, AllocateKeeps
  <1>3. ASSUME NEW r \in held, Free(r)
        PROVE  HeldInv' /\ Abstract!HeapNext
    BY <1>3, FreeKeeps
  <1>4. CASE CollectGarbage
    BY <1>4, CollectKeeps
  <1>5. ASSUME NEW t \in Thresholds, SetGCThreshold(t)
        PROVE  HeldInv' /\ held' = held
    BY <1>5 DEF SetGCThreshold, HeldInv
  <1>6. CASE UNCHANGED vars
    BY <1>6 DEF vars, HeldInv
  <1> QED  BY <1>1, <1>2, <1>3, <1>4, <1>5, <1>6 DEF Next

\* The blocks stay sound.
LEMMA BlocksStaySound == Spec => []BlocksInv
  <1>1. Init => BlocksInv
    BY Initially
  <1>2. BlocksInv /\ [Next]_vars => BlocksInv'
    BY BlocksStep
  <1> QED  BY <1>1, <1>2, PTL DEF Spec

\* Sizes, addresses and counters stay what they are declared to be, whatever
\* the callers ask for: total_allocated_ and used_memory_ never go below zero.
THEOREM MemoryTypes == Spec => []TypeOK
  <1>1. BlocksInv => TypeOK
    <2> SUFFICES ASSUME BlocksInv
                 PROVE  TypeOK
      OBVIOUS
    <2>1. blocks \in Seq(Block) /\ Sound(blocks)
      BY DEF BlocksInv, Sound
    <2>2. SumFunction(SizesOf(blocks)) \in Nat /\ SumFunction(AllocsOf(blocks)) \in Nat
      BY <2>1, ListOfBlocks, SumIsNumber
    <2> QED  BY <2>1, <2>2 DEF BlocksInv, Sound, TypeOK
  <1> QED  BY <1>1, BlocksStaySound, PTL

\* A Free that leaves less than half the threshold in use merges all
\* neighbours, whatever sizes wrap.
THEOREM FreesMerge == Spec => FreeMerges
  <1>1. BlocksInv /\ [Next]_vars =>
            [\A r \in held : r \notin held' /\ used' < threshold' \div 2 =>
                \A i \in 1 .. Len(blocks') - 1 : ~Merges(blocks'[i], blocks'[i + 1])]_vars
    BY BlocksStep
  <1> QED  BY <1>1, BlocksStaySound, PTL DEF Spec, FreeMerges

\* Without wrap, what is held stays in its blocks.
LEMMA HeldStays == ASSUME NoWrap PROVE Spec => [](BlocksInv /\ HeldInv)
  <1>1. Init => BlocksInv /\ HeldInv
    BY Initially
  <1>2. BlocksInv /\ HeldInv /\ [Next]_vars => (BlocksInv /\ HeldInv)'
    BY BlocksStep, HeldStep
  <1> QED  BY <1>1, <1>2, PTL DEF Spec

\* No range that a caller holds is given away or cut short, by reuse, by
\* expansion or by merging.
THEOREM RangesAreBacked == ASSUME NoWrap PROVE Spec => []HeldBacked
  <1>1. BlocksInv /\ HeldInv => HeldBacked
    BY DEF BlocksInv, HeldInv, Backed, HeldBacked, Sound, Apart
  <1> QED  BY <1>1, HeldStays, PTL

\* The counters agree with the blocks and with what the callers hold, however
\* the blocks were merged.
THEOREM AccountsKept == ASSUME NoWrap PROVE Spec => []AccountsAgree
  <1>1. BlocksInv /\ HeldInv => AccountsAgree
    BY DEF BlocksInv, HeldInv, AccountsAgree, HeldSizes, SizesOf, LostOf
  <1> QED  BY <1>1, HeldStays, PTL

\* Every step of the manager is a step of a heap that gives out only what
\* overlaps nothing held, or leaves that heap as it is.
THEOREM HeapRefinement == ASSUME NoWrap PROVE Spec => ImplementsHeap
  <1>1. Init => Abstract!HeapInit
    BY DEF Init, Abstract!HeapInit
  <1>2. BlocksInv /\ HeldInv /\ [Next]_vars => [Abstract!HeapNext]_held
    BY HeldStep
  <1> QED  BY <1>1, <1>2, HeldStays, PTL DEF Spec, ImplementsHeap, Abstract!HeapSpec

===============================================================================
