------------------------------ MODULE HeapProofs ------------------------------
(***************************************************************************)
(* Proofs about Heap, for a heap of any size, any alignment and requests,  *)
(* and any number of threads, traced or not: splitting and coalescing keep *)
(* the blocks apart and the list complete, the count of bytes is right,    *)
(* the trace keeps its nodes, and the heap implements Allocator.           *)
(***************************************************************************)
EXTENDS Heap, FiniteSetTheorems, WellFoundedInduction, TLAPS

HeapType == [next: [Addr \cup {Start} -> 0..End \cup {NoAddr}],
             size: [Addr -> Nat], free: SUBSET Addr, bytes: Int]

Sound(h, used) == h \in HeapType /\ Tiled(h, used) /\ Linked(h)

-----------------------------------------------------------------------------
\* A set of natural numbers has a smallest element.
LEMMA Smallest ==
    ASSUME NEW T, T \subseteq Nat, T # {}
    PROVE  \E x \in T : \A y \in T : x <= y
<1> DEFINE R == OpToRel(<, Nat)
<1>1. IsWellFoundedOn(R, Nat) BY NatLessThanWellFounded
<1>2. PICK x \in T : \A y \in T : ~(<<y, x>> \in R)
  <2> HIDE DEF R
  <2> QED BY <1>1, WFMin, Zenon
<1>3. \A y \in T : ~(y < x)
  BY <1>2 DEF OpToRel
<1>4. \A y \in T : y \in Nat OBVIOUS
<1>5. \A y \in T : x <= y
  <2> HIDE DEF R
  <2> QED BY <1>3, <1>4
<1> QED BY <1>5, Zenon

-----------------------------------------------------------------------------
(***************************************************************************)
(* Sums.  MapThenSumSet is a recursive function over the subsets of its    *)
(* argument; its value does not depend on the order in which elements are  *)
(* chosen.  Each induction takes a counterexample of least cardinality.    *)
(***************************************************************************)
Sum(f, S) == MapThenSumSet(LAMBDA b : f[b], S)

Pick(s) == CHOOSE x \in s : TRUE
Body(f, S, g) == [s \in SUBSET S |-> IF s = {} THEN 0 ELSE f[Pick(s)] + g[s \ {Pick(s)}]]
Iter(f, S) == CHOOSE g : g = Body(f, S, g)

\* The sum is the recursive function, taken at the whole set.
LEMMA Unfold == ASSUME NEW f, NEW S PROVE Sum(f, S) = Iter(f, S)[S]
  BY Zenon DEF Sum, Iter, Body, Pick, MapThenSumSet, MapThenFoldSet

\* g gives the sums of f over the parts of S, in whatever order they are added.
Sums(f, S, g) ==
    /\ g \in [SUBSET S -> Int] /\ g[{}] = 0
    /\ \A s \in SUBSET S : \A x \in s : g[s] = f[x] + g[s \ {x}]

\* A nonempty family of finite sets has a member of the least cardinality.
LEMMA SmallestSet ==
    ASSUME NEW F, F # {}, \A s \in F : IsFiniteSet(s)
    PROVE  \E s \in F : \A t \in F : Cardinality(s) <= Cardinality(t)
<1> DEFINE C == {Cardinality(s) : s \in F}
<1>1. C \subseteq Nat /\ C # {} BY FS_CardinalityType
<1>2. PICK n \in C : \A k \in C : n <= k
  <2> HIDE DEF C
  <2> QED BY <1>1, Smallest
<1> QED BY <1>2

\* A finite set of numbers has sums over all of its parts.
LEMMA SumsExist ==
    ASSUME NEW S, IsFiniteSet(S), NEW f, \A x \in S : f[x] \in Int
    PROVE  \E g : Sums(f, S, g)
<1> DEFINE F == {s \in SUBSET S : ~ \E g : Sums(f, s, g)}
<1>1. SUFFICES ASSUME F # {} PROVE FALSE
  BY Zenon
<1>2. \A s \in F : IsFiniteSet(s) BY FS_Subset
<1>3. PICK s \in F : \A t \in F : Cardinality(s) <= Cardinality(t)
  <2> HIDE DEF F
  <2> QED BY <1>1, <1>2, SmallestSet
<1>4. s # {}
  <2>1. Sums(f, {}, [t \in SUBSET {} |-> 0]) BY DEF Sums
  <2> QED BY <2>1, <1>3
<1>5. PICK y \in s : TRUE BY <1>4
<1> DEFINE r == s \ {y}
<1>6. \E g : Sums(f, r, g)
  <2>1. IsFiniteSet(s) BY <1>2, <1>3
  <2>2. Cardinality(r) = Cardinality(s) - 1 /\ Cardinality(s) \in Nat
    BY <2>1, <1>5, FS_RemoveElement, FS_CardinalityType
  <2>3. ~(Cardinality(s) <= Cardinality(r))
    <3> HIDE DEF r
    <3> QED BY <2>2
  <2>4. r \in SUBSET S BY <1>3
  <2> QED BY <2>3, <2>4, <1>3, Zenon
<1>7. PICK g : Sums(f, r, g) BY <1>6
<1> DEFINE h == [t \in SUBSET s |-> IF y \in t THEN f[y] + g[t \ {y}] ELSE g[t]]
<1>8. Sums(f, s, h)
  <2>0. f[y] \in Int /\ \A x \in s : f[x] \in Int BY <1>3, <1>5
  <2>1. \A t \in SUBSET s : /\ t \ {y} \in SUBSET r
                            /\ y \notin t => t \in SUBSET r
    OBVIOUS
  <2>2. /\ \A t \in SUBSET r : g[t] \in Int
        /\ g[{}] = 0
        /\ \A t \in SUBSET r : \A x \in t : g[t] = f[x] + g[t \ {x}]
    BY <1>7 DEF Sums
  <2> HIDE DEF r
  <2>3. h \in [SUBSET s -> Int]
    BY <2>0, <2>1, <2>2
  <2>4. h[{}] = 0 BY <2>2
  <2>5. ASSUME NEW t \in SUBSET s, NEW x \in t PROVE h[t] = f[x] + h[t \ {x}]
    <3>0. t \ {x} \in SUBSET s OBVIOUS
    <3>1. CASE y \notin t
      <4>1. t \in SUBSET r BY <2>1, <3>1
      <4>2. g[t] = f[x] + g[t \ {x}] BY <2>2, <4>1
      <4>3. h[t] = g[t] /\ h[t \ {x}] = g[t \ {x}] BY <3>0, <3>1
      <4> QED BY <4>2, <4>3
    <3>2. CASE x = y
      <4>1. h[t] = f[y] + g[t \ {y}] BY <3>2
      <4>2. h[t \ {y}] = g[t \ {y}] BY <3>0, <3>2
      <4> QED BY <4>1, <4>2, <3>2
    <3>3. CASE y \in t /\ x # y
      <4>1. t \ {y} \in SUBSET r /\ x \in t \ {y} BY <2>1, <3>3
      <4>2. g[t \ {y}] = f[x] + g[(t \ {y}) \ {x}] BY <2>2, <4>1
      <4>3. h[t] = f[y] + g[t \ {y}] BY <3>3
      <4>4. h[t \ {x}] = f[y] + g[(t \ {x}) \ {y}] BY <3>0, <3>3
      <4>5. (t \ {y}) \ {x} = (t \ {x}) \ {y} OBVIOUS
      <4>6. g[(t \ {x}) \ {y}] \in Int
        <5>1. (t \ {x}) \ {y} \in SUBSET r BY <2>1, <3>0
        <5> QED BY <5>1, <2>2
      <4>7. f[x] \in Int /\ f[y] \in Int BY <2>0
      <4> DEFINE k == g[(t \ {x}) \ {y}]
                 ht == h[t]
                 hx == h[t \ {x}]
                 gy == g[t \ {y}]
      <4>8. gy = f[x] + k /\ ht = f[y] + gy /\ hx = f[y] + k /\ k \in Int
        BY <4>2, <4>3, <4>4, <4>5, <4>6
      <4> HIDE DEF k, ht, hx, gy, h
      <4>9. ht = f[x] + hx BY <4>7, <4>8
      <4> QED BY <4>9 DEF ht, hx
    <3> QED BY <3>1, <3>2, <3>3
  <2> HIDE DEF h
  <2> QED BY <2>3, <2>4, <2>5 DEF Sums
<1> QED BY <1>3, <1>8

\* The recursive function computes them.
LEMMA SumIs ==
    ASSUME NEW S, IsFiniteSet(S), NEW f, \A x \in S : f[x] \in Int,
           NEW g, Sums(f, S, g)
    PROVE  Sum(f, S) = g[S]
<1>0. \A s \in SUBSET S : s # {} => Pick(s) \in s
  BY DEF Pick
<1>1. g = Body(f, S, g)
  <2>1. g = [s \in SUBSET S |-> g[s]] BY DEF Sums
  <2>2. \A s \in SUBSET S : g[s] = IF s = {} THEN 0 ELSE f[Pick(s)] + g[s \ {Pick(s)}]
    BY <1>0 DEF Sums
  <2>3. Body(f, S, g) = [s \in SUBSET S |-> g[s]]
    BY <2>2 DEF Body
  <2> QED BY <2>1, <2>3
<1> DEFINE i == Iter(f, S)
<1>2. i = Body(f, S, i)
  BY <1>1, Zenon DEF Iter
<1> HIDE DEF i
<1>3. \A s \in SUBSET S : i[s] = IF s = {} THEN 0 ELSE f[Pick(s)] + i[s \ {Pick(s)}]
  BY <1>2 DEF Body
<1> DEFINE F == {s \in SUBSET S : i[s] # g[s]}
<1>4. F = {}
  <2>1. SUFFICES ASSUME F # {} PROVE FALSE
    OBVIOUS
  <2>2. \A s \in F : IsFiniteSet(s) BY FS_Subset
  <2>3. PICK s \in F : \A t \in F : Cardinality(s) <= Cardinality(t)
    <3> HIDE DEF F
    <3> QED BY <2>1, <2>2, SmallestSet
  <2>4. s # {}
    BY <1>3, <2>3 DEF Sums
  <2>5. Pick(s) \in s BY <1>0, <2>3, <2>4
  <2> DEFINE r == s \ {Pick(s)}
  <2>6. r \notin F
    <3>1. Cardinality(r) = Cardinality(s) - 1 /\ Cardinality(s) \in Nat
      BY <2>2, <2>3, <2>5, FS_RemoveElement, FS_CardinalityType
    <3> HIDE DEF r, F
    <3>2. ~(Cardinality(s) <= Cardinality(r))
      BY <3>1
    <3> QED BY <3>2, <2>3
  <2>7. i[r] = g[r] BY <2>6, <2>3
  <2>8. i[s] = f[Pick(s)] + i[r] BY <1>3, <2>3, <2>4
  <2>9. g[s] = f[Pick(s)] + g[r] BY <2>3, <2>5 DEF Sums
  <2> HIDE DEF r
  <2> QED BY <2>3, <2>7, <2>8, <2>9
<1>5. i[S] = g[S] BY <1>4
<1> QED BY <1>5, Unfold DEF i

\* An element more adds its number to the sum.
LEMMA SumAdd ==
    ASSUME NEW S, IsFiniteSet(S), NEW x, x \notin S,
           NEW f, \A y \in S \cup {x} : f[y] \in Int
    PROVE  Sum(f, S) \in Int /\ Sum(f, S \cup {x}) = Sum(f, S) + f[x]
<1> DEFINE T == S \cup {x}
<1>0. IsFiniteSet(T) BY FS_AddElement
<1>1. PICK g : Sums(f, T, g)
  <2> HIDE DEF T
  <2>1. \A y \in T : f[y] \in Int BY DEF T
  <2> QED BY <1>0, <2>1, SumsExist
<1> DEFINE h == [s \in SUBSET S |-> g[s]]
<1>2. Sums(f, S, h)
  <2>1. h \in [SUBSET S -> Int] BY <1>1 DEF Sums
  <2>2. h[{}] = 0 BY <1>1 DEF Sums
  <2>3. ASSUME NEW s \in SUBSET S, NEW y \in s PROVE h[s] = f[y] + h[s \ {y}]
    <3>1. s \in SUBSET T /\ s \ {y} \in SUBSET S OBVIOUS
    <3>2. g[s] = f[y] + g[s \ {y}] BY <3>1, <1>1 DEF Sums
    <3> QED BY <3>1, <3>2
  <2> HIDE DEF h
  <2> QED BY <2>1, <2>2, <2>3 DEF Sums
<1>3. Sum(f, S) = h[S] /\ h[S] = g[S] /\ g[S] \in Int
  <2>1. h[S] = g[S] /\ g[S] \in Int BY <1>1 DEF Sums
  <2> HIDE DEF h
  <2>2. Sum(f, S) = h[S] BY <1>2, SumIs
  <2> QED BY <2>1, <2>2
<1>4. Sum(f, T) = g[T]
  <2> HIDE DEF T
  <2>1. \A y \in T : f[y] \in Int BY DEF T
  <2> QED BY <1>0, <1>1, <2>1, SumIs
<1>5. g[T] = f[x] + g[S]
  <2>1. T \in SUBSET T /\ x \in T /\ T \ {x} = S OBVIOUS
  <2> HIDE DEF T
  <2>2. g[T] = f[x] + g[T \ {x}] BY <2>1, <1>1 DEF Sums
  <2> QED BY <2>1, <2>2
<1>6. f[x] \in Int OBVIOUS
<1> HIDE DEF h, T
<1>7. Sum(f, T) = Sum(f, S) + f[x] BY <1>3, <1>4, <1>5, <1>6
<1> QED BY <1>3, <1>7 DEF T

\* The sum looks at the numbers of the elements only, and is a number.
LEMMA SumSame ==
    ASSUME NEW S, IsFiniteSet(S), NEW f, NEW k, \A x \in S : f[x] \in Int /\ k[x] = f[x]
    PROVE  Sum(f, S) = Sum(k, S) /\ Sum(f, S) \in Int
<1>1. PICK g : Sums(f, S, g) BY SumsExist
<1>2. Sums(k, S, g) BY <1>1 DEF Sums
<1>3. Sum(f, S) = g[S] BY <1>1, SumIs
<1>4. Sum(k, S) = g[S] BY <1>2, SumIs
<1>5. g[S] \in Int BY <1>1 DEF Sums
<1> QED BY <1>3, <1>4, <1>5

\* Nothing adds up to zero.
LEMMA SumEmpty == ASSUME NEW f PROVE Sum(f, {}) = 0
<1>1. PICK g : Sums(f, {}, g) BY FS_EmptySet, SumsExist
<1>2. Sum(f, {}) = g[{}] BY <1>1, FS_EmptySet, SumIs
<1> QED BY <1>1, <1>2 DEF Sums
-----------------------------------------------------------------------------
\* The traversals of the list end where they should: the block before an
\* address is the one whose successor is not below it.
LEMMA Predecessor ==
    ASSUME NEW h \in HeapType, Linked(h), NEW b \in Addr
    PROVE  \E i \in h.free \cup {Start} : i < b /\ h.next[i] >= b
<1> DEFINE T == {b - i : i \in {j \in h.free \cup {Start} : j < b}}
<1>0. End \in Nat /\ h.free \subseteq Addr /\ h.free \cup {Start} \subseteq Int
  BY HeapAssumption DEF HeapType, Addr, Start
<1>1. T \subseteq Nat BY <1>0 DEF Addr, Start
<1>2. T # {}
  <2>1. Start < b BY <1>0 DEF Addr, Start
  <2> QED BY <2>1
<1>3. PICK x \in T : \A y \in T : x <= y
  <2> HIDE DEF T
  <2> QED BY <1>1, <1>2, Smallest
<1>4. PICK i \in h.free \cup {Start} : i < b /\ x = b - i
  BY <1>3
<1>5. \A j \in h.free \cup {Start} : j < b => j <= i
  <2>1. SUFFICES ASSUME NEW j \in h.free \cup {Start}, j < b PROVE j <= i
    OBVIOUS
  <2>2. b - j \in T BY <2>1
  <2>3. b - i <= b - j BY <2>2, <1>3, <1>4
  <2> QED BY <2>3, <1>0 DEF Addr
<1>6. h.next[i] \in h.free \cup {End} /\ i < h.next[i]
  BY <1>4 DEF Linked
<1>7. CASE h.next[i] = End BY <1>4, <1>7, <1>0 DEF Addr
<1>8. CASE h.next[i] \in h.free
  <2>1. ~(h.next[i] < b) BY <1>5, <1>6, <1>8, <1>0 DEF Addr, Start
  <2> QED BY <2>1, <1>4, <1>8, <1>0 DEF Addr
<1> QED BY <1>6, <1>7, <1>8

-----------------------------------------------------------------------------
\* The facts about a sound heap the other proofs need, free of set notation.
LEMMA Facts ==
    ASSUME NEW h \in HeapType, NEW used \in SUBSET Addr, Tiled(h, used), Linked(h)
    PROVE  /\ End \in Nat /\ End > 0 /\ Addr \subseteq Int
           /\ h.free \subseteq Addr
           /\ h.size \in [Addr -> Nat]
           /\ h.next \in [Addr \cup {Start} -> 0..End \cup {NoAddr}]
           /\ \A b \in h.free \cup used : b + h.size[b] <= End
           /\ \A b, c \in h.free \cup used : b < c => b + h.size[b] <= c
<1>1. /\ End \in Nat /\ End > 0 /\ Addr \subseteq Int
      /\ h.free \subseteq Addr /\ h.size \in [Addr -> Nat]
      /\ h.next \in [Addr \cup {Start} -> 0..End \cup {NoAddr}]
  BY HeapAssumption DEF HeapType, Addr
<1>2. \A b \in h.free \cup used :
        /\ b \in Addr /\ b + h.size[b] \in h.free \cup used \cup {End}
        /\ \A c \in h.free \cup used : ~(b < c /\ c < b + h.size[b])
  BY <1>1 DEF Tiled
<1>3. \A b \in h.free \cup used : b + h.size[b] <= End
  <2>1. SUFFICES ASSUME NEW b \in h.free \cup used PROVE b + h.size[b] <= End
    OBVIOUS
  <2>2. b + h.size[b] \in Addr \cup {End} BY <1>1, <1>2
  <2> QED BY <2>2, <1>1 DEF Addr
<1>4. \A b, c \in h.free \cup used : b < c => b + h.size[b] <= c
  <2>1. SUFFICES ASSUME NEW b \in h.free \cup used, NEW c \in h.free \cup used, b < c
                 PROVE  b + h.size[b] <= c
    OBVIOUS
  <2>2. ~(c < b + h.size[b]) /\ b \in Int /\ c \in Int /\ h.size[b] \in Nat
    BY <2>1, <1>1, <1>2
  <2> QED BY <2>2
<1> QED BY <1>1, <1>3, <1>4

\* The block before b in the list exists, and there is only one.
LEMMA PrevLemma ==
    ASSUME NEW h \in HeapType, NEW used \in SUBSET Addr, Tiled(h, used), Linked(h),
           NEW b \in h.free
    PROVE  /\ PrevOf(h, b) \in h.free \cup {Start}
           /\ PrevOf(h, b) < b
           /\ h.next[PrevOf(h, b)] = b
           /\ \A j \in h.free \cup {Start} : h.next[j] = b => j = PrevOf(h, b)
<1> DEFINE p == PrevOf(h, b)
<1>0. /\ End \in Nat /\ h.free \subseteq Addr /\ b \in Addr
      /\ h.free \cup {Start} \subseteq Int /\ \A j \in h.free : Start < j
  BY Facts DEF Addr, Start
<1>1. PICK i \in h.free \cup {Start} : i < b /\ h.next[i] >= b
  BY <1>0, Predecessor
<1>2. h.next[i] = b
  <2>1. h.next[i] \in h.free \cup {End} /\ ~(i < b /\ b < h.next[i])
    BY DEF Linked
  <2> QED BY <2>1, <1>0, <1>1 DEF Addr
<1>3. p \in h.free \cup {Start} /\ h.next[p] = b
  BY <1>2 DEF PrevOf
<1>4. p < b BY <1>3 DEF Linked
<1>5. ASSUME NEW j \in h.free \cup {Start}, h.next[j] = b PROVE j = p
  <2> HIDE DEF p
  <2>1. j < b BY <1>5 DEF Linked
  <2>2. ~(j < p)
    <3>1. SUFFICES ASSUME j < p PROVE FALSE OBVIOUS
    <3>2. p \in h.free BY <3>1, <1>0, <1>3
    <3> QED BY <3>1, <3>2, <1>4, <1>5 DEF Linked
  <2>3. ~(p < j)
    <3>1. SUFFICES ASSUME p < j PROVE FALSE OBVIOUS
    <3>2. j \in h.free BY <3>1, <1>0, <1>3
    <3> QED BY <3>1, <3>2, <2>1, <1>3 DEF Linked
  <2> QED BY <2>2, <2>3, <1>0, <1>3
<1> QED BY <1>3, <1>4, <1>5

\* Taking a block out of the list, with and without splitting it.
LEMMA CarveLemma ==
    ASSUME NEW h \in HeapType, NEW used \in SUBSET Addr, Tiled(h, used), Linked(h),
           NEW w \in Nat, NEW b \in FirstFit(h, w)
    PROVE  Sound(Carve(h, b, w), used \cup {b})
<1> DEFINE p == PrevOf(h, b)
           rest == b + w
           g == Carve(h, b, w)
<1>0. /\ b \in h.free /\ w > 0 /\ w <= h.size[b] /\ h.bytes \in Int
      /\ Header \in Nat /\ h.size[b] \in Nat
  BY HeapAssumption DEF FirstFit, HeapType
<1>1. /\ End \in Nat /\ End > 0 /\ Addr \subseteq Int
      /\ h.free \subseteq Addr /\ b \in Addr
      /\ h.size \in [Addr -> Nat]
      /\ h.next \in [Addr \cup {Start} -> 0..End \cup {NoAddr}]
      /\ \A c \in h.free \cup used : c + h.size[c] <= End
      /\ \A c, d \in h.free \cup used : c < d => c + h.size[c] <= d
  BY <1>0, Facts
<1>2. /\ p \in h.free \cup {Start} /\ p < b /\ h.next[p] = b
      /\ \A j \in h.free \cup {Start} : h.next[j] = b => j = p
  BY <1>0, PrevLemma
<1>3. b \notin used /\ b + h.size[b] <= End /\ h.next[b] \in h.free \cup {End}
      /\ b < h.next[b]
  BY <1>0, <1>1 DEF Tiled, Linked
<1>4. CASE h.size[b] - w > MinBlock
  <2>1. g = [next |-> [h.next EXCEPT ![p] = rest, ![rest] = h.next[b], ![b] = NoAddr],
             size |-> [h.size EXCEPT ![b] = w, ![rest] = h.size[b] - w],
             free |-> (h.free \ {b}) \cup {rest},
             bytes |-> h.bytes - w]
    BY <1>4 DEF Carve
  <2>2. rest \in Addr /\ rest \notin h.free \cup used /\ b < rest
    <3>1. rest < b + h.size[b] BY <1>0, <1>1, <1>4, HeapAssumption DEF MinBlock
    <3>2. b < rest BY <1>0, <1>1
    <3>3. b \in Int /\ h.size[b] \in Nat /\ rest \in Int BY <1>0, <1>1
    <3>4. rest \in Addr BY <3>1, <3>2, <3>3, <1>1, <1>3 DEF Addr
    <3>5. ASSUME rest \in h.free \cup used PROVE FALSE
      <4>1. b + h.size[b] <= rest BY <3>2, <3>5, <1>0, <1>1
      <4> QED BY <4>1, <3>1, <3>3
    <3> QED BY <3>2, <3>4, <3>5
  <2>3. h.size[b] - w \in Nat /\ h.size[b] - w > 0
    BY <1>0, <1>4, HeapAssumption DEF MinBlock
  <2>4. g \in HeapType
    <3>1. /\ p \in Addr \cup {Start} /\ rest \in 0..End /\ NoAddr \notin Addr \cup {Start}
          /\ h.next[b] \in 0..End
      BY <2>2, <1>1, <1>2, <1>3 DEF Addr, NoAddr, Start
    <3>2. g.next \in [Addr \cup {Start} -> 0..End \cup {NoAddr}]
      BY <2>1, <3>1, <1>1
    <3>3. g.size \in [Addr -> Nat]
      <4>1. g.size = [h.size EXCEPT ![b] = w, ![rest] = h.size[b] - w] BY <2>1
      <4> HIDE DEF g, rest
      <4> QED BY <4>1, <2>3, <1>1
    <3>4. g.free \subseteq Addr /\ g.bytes \in Int
      BY <2>1, <2>2, <1>0, <1>1
    <3> HIDE DEF p, rest
    <3> QED BY <2>1, <3>2, <3>3, <3>4 DEF HeapType
  <2>5. /\ g.free = (h.free \ {b}) \cup {rest}
        /\ g.size[b] = w /\ g.size[rest] = h.size[b] - w
        /\ \A c \in Addr : c # b /\ c # rest => g.size[c] = h.size[c]
        /\ g.next[p] = rest /\ g.next[rest] = h.next[b]
        /\ \A i \in h.free \cup {Start} : i # b /\ i # p => g.next[i] = h.next[i]
    <3>1. b # rest /\ p # rest /\ p # b /\ rest \notin h.free \cup {Start}
          /\ h.free \subseteq Addr /\ p \in Addr \cup {Start}
      BY <2>2, <1>0, <1>1, <1>2 DEF Addr, Start
    <3> HIDE DEF p, rest
    <3> QED BY <2>1, <2>2, <3>1, <1>0, <1>1
  <2>6. /\ \A c \in h.free \cup used : c \in Int /\ h.size[c] \in Nat
        /\ b \in Int /\ rest \in Int /\ rest + g.size[rest] = b + h.size[b]
        /\ rest < b + h.size[b]
    <3>1. \A c \in h.free \cup used : c \in Int /\ h.size[c] \in Nat BY <1>1
    <3>2. b \in Int /\ rest \in Int /\ g.size[rest] = h.size[b] - w /\ b < rest
      BY <2>2, <2>5, <1>0, <1>1
    <3>3. rest = b + w OBVIOUS
    <3> HIDE DEF g, rest
    <3>4. rest + g.size[rest] = b + h.size[b] BY <3>2, <3>3, <1>0
    <3>5. rest < b + h.size[b] BY <3>2, <3>3, <2>3, <1>0
    <3> QED BY <3>1, <3>2, <3>4, <3>5
  <2>7. Tiled(g, used \cup {b})
    <3>1. g.free \cap (used \cup {b}) = {}
      <4>1. h.free \cap used = {} BY DEF Tiled
      <4>2. rest # b BY <2>2, <2>6
      <4> HIDE DEF g, rest
      <4> QED BY <4>1, <4>2, <2>2, <2>5, <1>3
    <3>2. g.free \cup (used \cup {b}) = h.free \cup used \cup {rest}
      BY <2>5, <1>0
    <3>3. ASSUME NEW c \in h.free \cup used \cup {rest}
          PROVE  /\ g.size[c] > 0
                 /\ c + g.size[c] \in h.free \cup used \cup {rest, End}
                 /\ \A d \in h.free \cup used \cup {rest} :
                       ~(c < d /\ d < c + g.size[c])
      <4>0. /\ \A d \in h.free \cup used :
                  /\ h.size[d] > 0 /\ d + h.size[d] \in h.free \cup used \cup {End}
                  /\ \A e \in h.free \cup used : ~(d < e /\ e < d + h.size[d])
        BY DEF Tiled
      <4> HIDE DEF g, rest, p
      <4>1. CASE c = b
        <5>1. b + g.size[b] = rest /\ b < rest BY <2>2, <2>5 DEF rest
        <5>2. \A d \in h.free \cup used : ~(b < d /\ d < rest)
          BY <4>0, <2>6, <1>0
        <5> QED BY <4>1, <5>1, <5>2, <2>5, <2>6, <1>0
      <4>2. CASE c = rest
        <5>1. b + h.size[b] \in h.free \cup used \cup {End} BY <4>0, <1>0
        <5>2. \A d \in h.free \cup used : ~(rest < d /\ d < b + h.size[b])
          BY <4>0, <2>2, <2>6, <1>0
        <5>3. g.size[rest] > 0 BY <2>3, <2>5
        <5> QED BY <4>2, <5>1, <5>2, <5>3, <2>6
      <4>3. CASE c # b /\ c # rest
        <5>1. c \in h.free \cup used /\ g.size[c] = h.size[c]
          BY <4>3, <2>5, <1>1
        <5>2. ~(c < rest /\ rest < c + h.size[c])
          <6>1. CASE c < b
            BY <6>1, <5>1, <1>0, <1>1, <2>2, <2>6
          <6>2. CASE b < c
            BY <6>2, <5>1, <1>0, <1>1, <2>2, <2>6
          <6> QED BY <6>1, <6>2, <5>1, <4>3, <2>6
        <5> QED BY <5>1, <5>2, <4>0
      <4> QED BY <4>1, <4>2, <4>3
    <3>4. 0 \in h.free \cup used BY DEF Tiled
    <3> QED BY <3>1, <3>2, <3>3, <3>4 DEF Tiled
  <2>8. Linked(g)
    <3>0. /\ \A j \in h.free \cup {Start} :
                /\ h.next[j] \in h.free \cup {End} /\ j < h.next[j]
                /\ \A d \in h.free : ~(j < d /\ d < h.next[j])
                /\ j # Start => j + h.size[j] \notin h.free
          /\ \A d \in h.free : Start < d
          /\ Start \in Int /\ Start < b /\ End \in Int
      BY <1>0, <1>1 DEF Linked, Start, Addr
    <3>1. SUFFICES ASSUME NEW i \in g.free \cup {Start}
                   PROVE  /\ g.next[i] \in g.free \cup {End}
                          /\ i < g.next[i]
                          /\ \A d \in g.free : ~(i < d /\ d < g.next[i])
                          /\ i # Start => i + g.size[i] \notin g.free
      BY DEF Linked
    <3> HIDE DEF g, rest, p
    <3>2. CASE i = p
      <4>1. g.next[i] = rest /\ rest \in g.free /\ p < rest
        BY <3>0, <3>2, <2>5, <2>2, <2>6, <1>2
      <4>2. ASSUME NEW d \in g.free, p < d, d < rest PROVE FALSE
        <5>1. d \in h.free /\ d # b BY <4>2, <2>5, <2>6
        <5>2. ~(d < b) BY <5>1, <4>2, <3>0, <1>2
        <5>3. ~(b < d) BY <5>1, <4>2, <1>0, <1>1, <2>6
        <5> QED BY <5>1, <5>2, <5>3, <2>6
      <4>3. ASSUME p # Start PROVE p + g.size[p] \notin g.free
        <5>1. p \in h.free /\ g.size[p] = h.size[p] /\ p + h.size[p] <= b
          BY <4>3, <1>0, <1>1, <1>2, <2>5, <2>2, <2>6
        <5>2. p + h.size[p] # rest BY <5>1, <2>2, <2>6
        <5> QED BY <5>1, <5>2, <4>3, <3>0, <2>5
      <4> QED BY <3>2, <4>1, <4>2, <4>3
    <3>3. CASE i = rest
      <4>1. g.next[i] = h.next[b] /\ h.next[b] \in g.free \cup {End}
        BY <3>0, <3>3, <2>5, <1>0, <1>3, <2>6
      <4>2. b + h.size[b] <= h.next[b] BY <1>0, <1>1, <1>3
      <4>3. rest < h.next[b]
        BY <4>2, <2>6, <1>0, <1>1, <1>3
      <4>4. \A d \in g.free : ~(rest < d /\ d < h.next[b])
        BY <3>0, <2>5, <2>2, <2>6, <1>0
      <4>5. rest + g.size[rest] \notin g.free
        <5>1. b + h.size[b] \notin h.free BY <3>0, <1>0
        <5> QED BY <5>1, <2>5, <2>6
      <4> QED BY <3>3, <4>1, <4>3, <4>4, <4>5
    <3>4. CASE i # p /\ i # rest
      <4>1. i \in h.free \cup {Start} /\ i # b /\ g.next[i] = h.next[i] /\ h.next[i] # b
        BY <3>4, <2>5, <1>2, <3>0, <1>0
      <4>2. g.next[i] \in g.free \cup {End} /\ i < g.next[i]
        BY <4>1, <3>0, <2>5
      <4>3. i < b => h.next[i] < b
        <5>1. i < b => ~(b < h.next[i]) BY <4>1, <3>0, <1>0
        <5> QED BY <5>1, <4>1, <3>0, <2>6
      <4>4. b < i => rest < i
        <5>1. b < i => b + h.size[b] <= i BY <4>1, <3>0, <1>0, <1>1
        <5>2. i \in Int BY <4>1, <3>0, <2>6
        <5> QED BY <5>1, <5>2, <2>6, <1>0
      <4>5. ~(i < rest /\ rest < h.next[i])
        BY <4>1, <4>3, <4>4, <2>2, <2>6, <3>0
      <4>6. i # Start => i + g.size[i] \notin g.free
        <5>1. SUFFICES ASSUME i # Start PROVE i + g.size[i] \notin g.free OBVIOUS
        <5>2. i \in h.free /\ g.size[i] = h.size[i]
          BY <5>1, <4>1, <3>4, <2>5, <1>1
        <5>3. i + h.size[i] # rest
          <6>1. i < b => i + h.size[i] <= b BY <5>2, <1>0, <1>1
          <6> QED BY <6>1, <5>2, <4>1, <4>4, <2>2, <2>6
        <5> QED BY <5>2, <5>3, <5>1, <3>0, <2>5
      <4> QED BY <4>1, <4>2, <4>5, <4>6, <3>0, <2>5
    <3> QED BY <3>2, <3>3, <3>4
  <2> QED BY <2>4, <2>7, <2>8 DEF Sound
<1>5. CASE ~(h.size[b] - w > MinBlock)
  <2>1. g = [next |-> [h.next EXCEPT ![p] = h.next[b], ![b] = NoAddr],
             size |-> h.size, free |-> h.free \ {b}, bytes |-> h.bytes - h.size[b]]
    BY <1>5 DEF Carve, HeapType
  <2>2. p \in Addr \cup {Start} /\ p # b /\ h.next[b] \in 0..End
    BY <1>1, <1>2, <1>3 DEF Addr, Start
  <2> HIDE DEF p
  <2>3. g.next \in [Addr \cup {Start} -> 0..End \cup {NoAddr}]
    BY <2>1, <2>2, <1>1
  <2>4. g \in HeapType
    BY <2>1, <2>3, <1>0, <1>1 DEF HeapType
  <2>5. Tiled(g, used \cup {b})
    BY <2>1, <1>0 DEF Tiled
  <2>6. g.free = h.free \ {b} /\ g.size = h.size /\ g.next[p] = h.next[b]
        /\ \A i \in h.free \cup {Start} : i # b /\ i # p => g.next[i] = h.next[i]
    BY <2>1, <2>2, <1>1
  <2>7. Linked(g)
    <3>0. /\ \A j \in h.free \cup {Start} :
                /\ h.next[j] \in h.free \cup {End} /\ j < h.next[j]
                /\ \A d \in h.free : ~(j < d /\ d < h.next[j])
                /\ j # Start => j + h.size[j] \notin h.free
          /\ h.free \cup {Start, End} \subseteq Int /\ Start # b /\ End # b
      BY <1>0, <1>1 DEF Linked, Start, Addr
    <3>1. SUFFICES ASSUME NEW i \in g.free \cup {Start}
                   PROVE  /\ g.next[i] \in g.free \cup {End}
                          /\ i < g.next[i]
                          /\ \A d \in g.free : ~(i < d /\ d < g.next[i])
                          /\ i # Start => i + g.size[i] \notin g.free
      BY DEF Linked
    <3> HIDE DEF g
    <3>2. i \in h.free \cup {Start} /\ i # b BY <2>6, <3>0
    <3>3. CASE i = p
      <4>1. g.next[i] = h.next[b] /\ h.next[b] \in g.free \cup {End}
        BY <3>0, <3>3, <2>6, <1>0, <1>3
      <4>2. p < h.next[b] BY <1>2, <1>3, <3>0, <1>0
      <4>3. ASSUME NEW d \in g.free, p < d, d < h.next[b] PROVE FALSE
        <5>1. d \in h.free /\ d # b BY <2>6
        <5>2. ~(d < b) BY <5>1, <4>3, <3>0, <1>2
        <5>3. ~(b < d) BY <5>1, <4>3, <3>0, <1>0
        <5> QED BY <5>1, <5>2, <5>3, <3>0, <1>0
      <4> QED BY <3>0, <3>2, <3>3, <4>1, <4>2, <4>3, <2>6
    <3>4. CASE i # p
      <4>1. g.next[i] = h.next[i] /\ h.next[i] # b BY <3>2, <3>4, <2>6, <1>2
      <4> QED BY <4>1, <3>0, <3>2, <2>6
    <3> QED BY <3>3, <3>4
  <2> QED BY <2>4, <2>5, <2>7 DEF Sound
<1> QED BY <1>4, <1>5

-----------------------------------------------------------------------------
\* Putting a block back into the list, merged with the neighbours it touches.
LEMMA InsertLemma ==
    ASSUME NEW h \in HeapType, NEW used \in SUBSET Addr, Tiled(h, used), Linked(h),
           NEW b \in used
    PROVE  Sound(Insert(h, b), used \ {b})
<1> DEFINE i == IteratorOf(h, b)
           n == h.next[i]
           prev == JoinsPrev(h, i, b)
           next == JoinsNext(h, i, b)
           m == IF prev THEN i ELSE b
           behind == IF next THEN h.next[n] ELSE n
           sum == h.size[b] + (IF prev THEN h.size[i] ELSE 0)
                            + (IF next THEN h.size[n] ELSE 0)
           gone == (IF prev THEN {b} ELSE {}) \cup (IF next THEN {n} ELSE {})
           all == h.free \cup used
           g == Insert(h, b)
<1>1. /\ End \in Nat /\ End > 0 /\ Addr \subseteq Int /\ b \in Addr
      /\ h.free \subseteq Addr
      /\ h.size \in [Addr -> Nat]
      /\ h.next \in [Addr \cup {Start} -> 0..End \cup {NoAddr}]
      /\ \A c \in h.free \cup used : c + h.size[c] <= End
      /\ \A c, d \in h.free \cup used : c < d => c + h.size[c] <= d
  BY Facts
<1>2. /\ h.free \cap used = {} /\ 0 \in all
      /\ \A c \in all : /\ h.size[c] > 0 /\ c + h.size[c] \in all \cup {End}
                        /\ \A d \in all : ~(c < d /\ d < c + h.size[c])
      /\ \A c \in all : c \in Int /\ c \in Addr /\ h.size[c] \in Nat
  BY <1>1 DEF Tiled
<1>3. /\ \A j \in h.free \cup {Start} :
            /\ h.next[j] \in h.free \cup {End} /\ j < h.next[j]
            /\ \A d \in h.free : ~(j < d /\ d < h.next[j])
            /\ j # Start => j + h.size[j] \notin h.free
      /\ \A d \in all : Start < d /\ d < End
      /\ Start \in Int
  BY <1>1, <1>2 DEF Linked, Start, Addr
<1>4. i \in h.free \cup {Start} /\ i < b /\ n >= b
  BY <1>1, Predecessor DEF IteratorOf
<1>5. n \in h.free \cup {End} /\ n \in Int /\ b < n /\ i \in Int /\ i < n
  <2>1. n \in h.free \cup {End} BY <1>3, <1>4
  <2>2. n # b /\ n \in Int /\ b \in Int /\ i \in Int
    BY <2>1, <1>1, <1>2, <1>3, <1>4
  <2> HIDE DEF i, n
  <2> QED BY <2>1, <2>2, <1>3, <1>4
<1>6. /\ prev <=> i # Start /\ i + h.size[i] = b
      /\ next <=> b + h.size[b] = n /\ n # End
  BY DEF JoinsPrev, JoinsNext
<1>7. g = [next |-> [a \in Addr \cup {Start} |->
                      IF a = m THEN behind
                      ELSE IF a = i THEN m
                      ELSE IF a \in gone THEN NoAddr ELSE h.next[a]],
         size |-> [a \in Addr |-> IF a = m THEN sum
                                  ELSE IF a \in gone THEN 0 ELSE h.size[a]],
         free |-> (h.free \cup {m}) \ gone,
         bytes |-> h.bytes]
  BY DEF Insert
<1> HIDE DEF g, i, n, prev, next
\* The neighbours, in terms of which everything else is stated.
<1>8. /\ prev => i \in h.free /\ i \in Addr
      /\ next => n \in h.free /\ n \in Addr
  BY <1>1, <1>4, <1>5, <1>6
<1>9. \A d \in h.free : d <= i \/ n <= d
  <2>1. SUFFICES ASSUME NEW d \in h.free PROVE d <= i \/ n <= d OBVIOUS
  <2>2. ~(i < d /\ d < n) BY <1>3, <1>4 DEF n
  <2> QED BY <2>2, <1>2, <1>5
<1>10. /\ m \in all /\ m \in Addr /\ m \in Int /\ m <= b /\ i <= m /\ m < n
       /\ gone \subseteq all \ {m}
       /\ \A x \in gone : x = b \/ x = n
       /\ sum \in Nat /\ sum > 0
       /\ m + sum = IF next THEN n + h.size[n] ELSE b + h.size[b]
  <2>1. /\ h.size[b] \in Nat /\ h.size[b] > 0 /\ b \in Int
        /\ prev => h.size[i] \in Nat /\ h.size[i] > 0
        /\ next => h.size[n] \in Nat /\ h.size[n] > 0
    BY <1>2, <1>8
  <2>2. m \in all /\ m \in Addr /\ m \in Int /\ m <= b /\ i <= m /\ m < n
    BY <2>1, <1>2, <1>4, <1>5, <1>8
  <2>3. gone \subseteq all \ {m} /\ \A x \in gone : x = b \/ x = n
    BY <2>1, <1>2, <1>4, <1>5, <1>8
  <2>4. sum \in Nat /\ sum > 0 BY <2>1
  <2>5. m + sum = IF next THEN n + h.size[n] ELSE b + h.size[b]
    BY <2>1, <1>5, <1>6
  <2> QED BY <2>2, <2>3, <2>4, <2>5
<1>11. /\ g.free = (h.free \cup {m}) \ gone
       /\ g.size[m] = sum
       /\ \A c \in all \ gone : c # m => g.size[c] = h.size[c]
       /\ g.next[m] = behind
       /\ i # m => g.next[i] = m
       /\ \A j \in h.free \cup {Start} :
             j # m /\ j # i /\ j \notin gone => g.next[j] = h.next[j]
  BY <1>1, <1>2, <1>4, <1>7, <1>10
<1>12. g \in HeapType
  <2>1. behind \in 0..End
    BY <1>1, <1>3, <1>5, <1>8 DEF Addr
  <2>2. g.next \in [Addr \cup {Start} -> 0..End \cup {NoAddr}]
    <3>1. m \in 0..End BY <1>1, <1>10 DEF Addr
    <3> HIDE DEF m, behind, gone
    <3> QED BY <1>1, <1>7, <2>1, <3>1
  <2>3. g.size \in [Addr -> Nat]
    <3> HIDE DEF m, sum, gone
    <3> QED BY <1>1, <1>7, <1>10
  <2>4. g.free \subseteq Addr /\ g.bytes \in Int
    <3> HIDE DEF m, gone
    <3> QED BY <1>1, <1>7, <1>10 DEF HeapType
  <2> HIDE DEF m, behind, sum, gone
  <2> QED BY <1>7, <2>2, <2>3, <2>4 DEF HeapType
<1>13. Tiled(g, used \ {b})
  <2>1. g.free \cup (used \ {b}) = all \ gone /\ g.free \cap (used \ {b}) = {}
    <3>1. b \in gone <=> prev BY <1>5
    <3>2. ~prev => m = b OBVIOUS
    <3>3. prev => m \in h.free BY <1>8
    <3>4. n \notin used BY <1>2, <1>3, <1>5
    <3>5. gone \subseteq {b, n} OBVIOUS
    <3> HIDE DEF m, gone
    <3> QED BY <1>2, <1>10, <1>11, <3>1, <3>2, <3>3, <3>4, <3>5
  <2>2. 0 \in all \ gone
    <3>1. \A x \in gone : x # 0 BY <1>1, <1>10, <1>4, <1>5 DEF Addr
    <3> QED BY <1>2, <3>1
  <2>3. ASSUME NEW c \in all \ gone
        PROVE  /\ g.size[c] > 0
               /\ c + g.size[c] \in (all \ gone) \cup {End}
               /\ \A d \in all \ gone : ~(c < d /\ d < c + g.size[c])
    <3>1. CASE c = m
      <4>1. m + sum \in (all \ gone) \cup {End}
        <5>1. CASE next
          <6>1. n + h.size[n] \in all \cup {End} /\ n + h.size[n] > n /\ n + h.size[n] > b
            BY <5>1, <1>2, <1>5, <1>8
          <6> QED BY <6>1, <5>1, <1>2, <1>5, <1>10
        <5>2. CASE ~next
          <6>1. b + h.size[b] \in all \cup {End} /\ b + h.size[b] > b
            BY <1>2
          <6>2. gone \subseteq {b} BY <5>2
          <6> QED BY <6>1, <6>2, <5>2, <1>2, <1>10
        <5> QED BY <5>1, <5>2
      <4>2. ASSUME NEW d \in all \ gone, m < d, d < m + sum PROVE FALSE
        <5>1. b < d
          <6>1. CASE prev
            <7>1. ~(d < b) BY <6>1, <4>2, <1>2, <1>6, <1>8
            <7>2. d # b BY <6>1
            <7> QED BY <7>1, <7>2, <1>2
          <6>2. CASE ~prev BY <6>2, <4>2
          <6> QED BY <6>1, <6>2
        <5>2. b + h.size[b] <= d BY <5>1, <1>1
        <5>3. CASE next
          <6>1. n <= d /\ d # n BY <5>2, <5>3, <1>6
          <6>2. n + h.size[n] <= d BY <6>1, <5>3, <1>1, <1>2, <1>5, <1>8
          <6> QED BY <6>2, <5>3, <4>2, <1>2, <1>8, <1>10
        <5>4. CASE ~next BY <5>2, <5>4, <4>2, <1>2, <1>10
        <5> QED BY <5>3, <5>4
      <4> HIDE DEF m, sum, gone
      <4> QED BY <3>1, <4>1, <4>2, <1>10, <1>11
    <3>2. CASE c # m
      <4>1. g.size[c] = h.size[c] BY <3>2, <1>11
      <4>2. c \in all /\ c + h.size[c] \in all \cup {End} BY <1>2
      <4>3. ASSUME prev PROVE c + h.size[c] # b
        <5>1. c # i BY <4>3, <3>2
        <5>2. c < i => c + h.size[c] <= i BY <4>3, <4>2, <1>1, <1>8
        <5>3. i < c => b <= c BY <4>3, <4>2, <1>1, <1>6, <1>8
        <5> QED BY <5>1, <5>2, <5>3, <4>2, <1>2, <1>4, <1>5
      <4>4. ASSUME next PROVE c + h.size[c] # n
        <5>1. c # b
          <6>1. b \notin gone => m = b BY <1>5
          <6> QED BY <6>1, <3>2
        <5>2. c < b => c + h.size[c] <= b BY <4>2, <1>1
        <5>3. b < c => n <= c BY <4>4, <4>2, <1>1, <1>6
        <5> QED BY <5>1, <5>2, <5>3, <4>2, <1>2, <1>4, <1>5
      <4>5. c + h.size[c] \notin gone BY <4>3, <4>4
      <4> HIDE DEF m, sum, gone
      <4> QED BY <4>1, <4>2, <4>5, <1>2
    <3> QED BY <3>1, <3>2
  <2> HIDE DEF m, sum, gone, all
  <2> QED BY <2>1, <2>2, <2>3 DEF Tiled
<1>14. Linked(g)
  <2>1. SUFFICES ASSUME NEW j \in g.free \cup {Start}
                 PROVE  /\ g.next[j] \in g.free \cup {End}
                        /\ j < g.next[j]
                        /\ \A d \in g.free : ~(j < d /\ d < g.next[j])
                        /\ j # Start => j + g.size[j] \notin g.free
    BY DEF Linked
  <2>2. /\ \A d \in g.free : d \notin gone /\ (d \in h.free \/ (d = b /\ m = b /\ ~prev))
        /\ \A d \in h.free : d \notin gone => d \in g.free
        /\ m \in g.free
    BY <1>8, <1>10, <1>11
  <2>3. CASE j = m
    <3>1. behind \in g.free \cup {End} /\ m < behind
      <4>1. CASE next
        <5>1. h.next[n] \in h.free \cup {End} /\ n < h.next[n]
          BY <4>1, <1>3, <1>8
        <5>2. h.next[n] \in Int BY <5>1, <1>1
        <5> QED BY <5>1, <5>2, <4>1, <2>2, <1>5, <1>10, <1>2
      <4>2. CASE ~next
        <5>1. n \notin gone BY <4>2, <1>2, <1>5
        <5> QED BY <5>1, <4>2, <2>2, <1>5, <1>10
      <4> QED BY <4>1, <4>2
    <3>2. ASSUME NEW d \in g.free, m < d, d < behind PROVE FALSE
      <4>1. d \in h.free /\ d \in Int BY <3>2, <2>2, <1>2, <1>10
      <4>2. n <= d
        <5>1. ~(d <= i) BY <3>2, <4>1, <1>5, <1>10
        <5> QED BY <5>1, <4>1, <1>9
      <4>3. CASE next
        <5>1. d # n BY <4>3, <2>2
        <5>2. ~(n < d /\ d < h.next[n]) BY <4>1, <4>3, <1>3, <1>8
        <5> QED BY <5>1, <5>2, <4>1, <4>2, <4>3, <3>2, <1>5
      <4>4. CASE ~next BY <4>1, <4>2, <4>4, <3>2, <1>5
      <4> QED BY <4>3, <4>4
    <3>3. m + sum \notin g.free
      <4>1. m + sum # m BY <1>10
      <4>2. CASE next
        <5>1. n + h.size[n] \notin h.free BY <4>2, <1>3, <1>8, <1>4, <1>5
        <5> QED BY <5>1, <4>1, <4>2, <2>2, <1>10
      <4>3. CASE ~next
        <5>1. SUFFICES ASSUME b + h.size[b] \in h.free PROVE FALSE
          BY <4>1, <4>3, <2>2, <1>10
        <5>2. b + h.size[b] > b /\ b + h.size[b] \in Int BY <1>2
        <5>3. n <= b + h.size[b] BY <5>1, <5>2, <1>2, <1>4, <1>5, <1>9
        <5>4. n # End BY <5>1, <5>2, <5>3, <1>3, <1>5
        <5>5. b + h.size[b] <= n BY <5>4, <1>1, <1>5
        <5> QED BY <5>2, <5>3, <5>4, <5>5, <4>3, <1>5, <1>6
      <4> QED BY <4>2, <4>3
    <3> HIDE DEF m, sum, gone, behind
    <3> QED BY <2>3, <3>1, <3>2, <3>3, <1>11
  <2>4. CASE j # m /\ j = i
    <3>1. ~prev /\ m = b /\ g.next[j] = b BY <2>4, <1>11
    <3>2. ASSUME NEW d \in g.free, i < d, d < b PROVE FALSE
      <4>1. d \in h.free /\ d \in Int BY <3>2, <2>2, <1>2
      <4> QED BY <4>1, <3>2, <1>2, <1>5, <1>9
    <3>3. ASSUME i # Start PROVE i + g.size[i] \notin g.free
      <4>1. i \in h.free /\ i \notin gone /\ i # m BY <3>3, <2>4, <2>2, <1>4, <2>1
      <4>2. g.size[i] = h.size[i] BY <4>1, <1>11
      <4>3. i + h.size[i] # b BY <3>1, <3>3, <1>6
      <4> HIDE DEF m, gone
      <4> QED BY <4>1, <4>2, <4>3, <3>1, <3>3, <2>2, <1>3
    <3> HIDE DEF m, gone
    <3> QED BY <2>2, <2>4, <3>1, <3>2, <3>3, <1>4
  <2>5. CASE j # m /\ j # i
    <3>1. j \in h.free \cup {Start} /\ j \notin gone /\ g.next[j] = h.next[j] /\ j \in Int
      <4>1. j \in h.free \cup {Start} BY <2>5, <2>2
      <4>2. Start \notin gone BY <1>3, <1>10
      <4>3. j \notin gone BY <4>2, <2>2, <2>1
      <4> HIDE DEF m, gone
      <4> QED BY <4>1, <4>3, <2>5, <1>11, <1>2, <1>3
    <3>2. h.next[j] \in h.free \cup {End} /\ j < h.next[j] /\ h.next[j] \in Int
      BY <3>1, <1>1, <1>3
    <3>3. j < i => h.next[j] <= i
      <4>1. SUFFICES ASSUME j < i PROVE h.next[j] <= i OBVIOUS
      <4>2. i \in h.free
        BY <4>1, <3>1, <1>3, <1>4
      <4> QED BY <4>1, <4>2, <3>1, <3>2, <1>3, <1>5
    <3>4. i < j => n <= j
      <4>1. i < j => j \in h.free BY <3>1, <1>3, <1>4, <1>5
      <4> QED BY <4>1, <3>1, <1>5, <1>9
    <3>5. h.next[j] # n /\ h.next[j] # b
      <4>1. j < i \/ i < j BY <3>1, <2>5, <1>5
      <4> QED BY <4>1, <3>1, <3>2, <3>3, <3>4, <1>2, <1>4, <1>5
    <3>6. h.next[j] \in g.free \cup {End} BY <3>2, <3>5, <2>2
    <3>7. ~(j < b /\ b < h.next[j])
      <4>1. j < i \/ i < j BY <3>1, <2>5, <1>5
      <4> QED BY <4>1, <3>1, <3>2, <3>3, <3>4, <1>2, <1>4, <1>5
    <3>8. ASSUME j # Start PROVE j + g.size[j] \notin g.free
      <4>1. j \in h.free /\ g.size[j] = h.size[j] BY <3>8, <3>1, <2>5, <1>11
      <4>2. h.size[j] \in Nat /\ h.size[j] > 0 BY <4>1, <1>2
      <4>3. j + h.size[j] # b
        <5>1. j < i => j + h.size[j] <= i
          <6>1. SUFFICES ASSUME j < i PROVE j + h.size[j] <= i OBVIOUS
          <6>2. i \in h.free BY <6>1, <3>1, <1>3, <1>4
          <6> QED BY <6>1, <6>2, <4>1, <1>1
        <5> QED BY <5>1, <4>2, <3>1, <3>4, <2>5, <1>2, <1>4, <1>5
      <4> HIDE DEF m, gone
      <4> QED BY <4>1, <4>3, <3>8, <2>2, <1>3
    <3> HIDE DEF m, gone
    <3> QED BY <3>1, <3>2, <3>6, <3>7, <3>8, <2>2, <1>3
  <2> QED BY <2>3, <2>4, <2>5
<1> QED BY <1>12, <1>13, <1>14 DEF Sound, g

-----------------------------------------------------------------------------
\* The size a call asks of the list is a natural number.
LEMMA WantedNat ==
    ASSUME NEW n \in Nat
    PROVE  Wanted(n) \in Nat
<1> DEFINE sum == n + Header
           pad == (Align - (sum % Align)) % Align
<1>1. sum \in Nat /\ Align \in Nat \ {0} BY HeapAssumption
<1>2. sum % Align \in 0..(Align - 1) BY <1>1
<1>3. Align - (sum % Align) \in Nat BY <1>1, <1>2
<1>4. pad \in 0..(Align - 1)
  <2> DEFINE x == Align - (sum % Align)
  <2>1. x \in Nat BY <1>3
  <2> HIDE DEF x
  <2>2. x % Align \in 0..(Align - 1) BY <2>1, <1>1
  <2> QED BY <2>2 DEF x
<1>5. sum + pad \in Nat
  <2> HIDE DEF sum, pad
  <2> QED BY <1>1, <1>4
<1> QED BY <1>5 DEF Wanted

(***************************************************************************)
(* The client's side: a block that a thread is reallocating or freeing is  *)
(* still held, and by one thread only; the thread whose trace is being     *)
(* taken down has one.                                                     *)
(***************************************************************************)
HeldOK ==
    /\ \A t \in Threads : /\ step[t] = "idle" <=> ptr[t] = NoAddr
                          /\ ptr[t] # NoAddr => owner[ptr[t]] \in Threads
    /\ \A t, u \in Threads : t # u /\ ptr[t] # NoAddr => ptr[t] # ptr[u]
    /\ untracing # NoThread => IsTraced(untracing)

\* What HeldOK says of one thread.
LEMMA HeldFacts ==
    ASSUME HeldOK, NEW t \in Threads
    PROVE  /\ step[t] = "idle" <=> ptr[t] = NoAddr
           /\ ptr[t] # NoAddr => owner[ptr[t]] \in Threads
  BY DEF HeldOK

\* The inductive invariant.
IndInv == TypeOK /\ HeapSound /\ NodesAreOwned /\ HeldOK

\* The types of what the heap and its trace keep.
MemType ==
    /\ heap \in HeapType
    /\ owner \in [Addr -> Threads \cup {Trace, NoThread}]
    /\ root \in [Threads -> Addr \cup {NoAddr}]
    /\ dict \in [Threads -> SUBSET [block: Addr, node: Addr]]
    /\ failed \in Requests \cup {NodeSize, NoSize}

Names == /\ NoThread \notin Threads /\ Trace \notin Threads /\ NoThread # Trace
         /\ NoAddr \notin Addr

\* The names are told apart.
LEMMA NamesDiffer == Names
  BY HeapAssumption DEF Names, Addr, NoAddr

\* NodesAreOwned, as the proofs use it.
LEMMA NodeFacts ==
    ASSUME TypeOK, NodesAreOwned
    PROVE  /\ \A t \in Threads : \A e \in dict[t] :
                 e.node \in Addr /\ e.block \in Addr /\ owner[e.node] = Trace
           /\ \A t \in Threads : IsTraced(t) => root[t] \in Addr /\ owner[root[t]] = Trace
           /\ \A a \in Addr : owner[a] = Trace => \E t \in Threads :
                 a = root[t] \/ \E e \in dict[t] : a = e.node
<1>1. \A t \in Threads : NodesOf(t) \subseteq {b \in Addr : owner[b] = Trace}
  BY DEF NodesAreOwned
<1>2. \A t \in Threads : \A e \in dict[t] : e \in [block: Addr, node: Addr]
  BY DEF TypeOK
<1>3. ASSUME NEW t \in Threads, NEW e \in dict[t]
      PROVE  e.node \in Addr /\ e.block \in Addr /\ owner[e.node] = Trace
  <2>1. e.node \in Addr /\ e.block \in Addr BY <1>2
  <2>2. e.node \in NodesOf(t) BY <2>1, NamesDiffer DEF NodesOf, Names
  <2> QED BY <2>1, <2>2, <1>1
<1>4. ASSUME NEW t \in Threads, IsTraced(t)
      PROVE  root[t] \in Addr /\ owner[root[t]] = Trace
  BY <1>1, <1>4 DEF NodesOf, IsTraced
<1>5. ASSUME NEW a \in Addr, owner[a] = Trace
      PROVE  \E t \in Threads : a = root[t] \/ \E e \in dict[t] : a = e.node
  BY <1>5 DEF NodesAreOwned, NodesOf
<1> QED BY <1>3, <1>4, <1>5

\* One node that was nobody's is added.
LEMMA NodeAdded ==
    ASSUME TypeOK, NodesAreOwned, NEW t \in Threads, NEW d \in Addr,
           owner[d] # Trace, IsTraced(t), NEW b \in Addr, Entry(t, b) = {},
           \A a \in Addr : owner'[a] = Trace <=> owner[a] = Trace \/ a = d,
           root' = root,
           dict' = [dict EXCEPT ![t] = @ \cup {[block |-> b, node |-> d]}]
    PROVE  NodesAreOwned'
<1> DEFINE e0 == [block |-> b, node |-> d]
<1>0. e0.node = d /\ e0.block = b OBVIOUS
<1> HIDE DEF e0
<1>1. dict'[t] = dict[t] \cup {e0} /\ \A u \in Threads \ {t} : dict'[u] = dict[u]
  BY DEF TypeOK, e0
<1>2. NodesOf(t)' = NodesOf(t) \cup {d} /\ \A u \in Threads \ {t} : NodesOf(u)' = NodesOf(u)
  <2>1. {e.node : e \in dict'[t]} = {e.node : e \in dict[t]} \cup {d} BY <1>0, <1>1
  <2>2. d # NoAddr BY NamesDiffer DEF Names
  <2> QED BY <2>1, <2>2, <1>1 DEF NodesOf
<1>3. \A u \in Threads : d \notin NodesOf(u)
  BY DEF NodesAreOwned
<1>4. {a \in Addr : owner'[a] = Trace} = UNION {NodesOf(u)' : u \in Threads}
  BY <1>2 DEF NodesAreOwned
<1>5. \A u, v \in Threads : u # v => NodesOf(u)' \cap NodesOf(v)' = {}
  BY <1>2, <1>3 DEF NodesAreOwned
<1>6. ASSUME NEW u \in Threads, dict'[u] # {}
      PROVE  IsTraced(u)' /\ root'[u] \notin {e.node : e \in dict'[u]}
  <2>1. IsTraced(u)' BY <1>1, <1>6 DEF NodesAreOwned, IsTraced
  <2>2. d # root[t] BY NodeFacts
  <2> QED BY <2>1, <2>2, <1>0, <1>1, <1>6 DEF NodesAreOwned
<1>7. ASSUME NEW u \in Threads, NEW e \in dict'[u], NEW f \in dict'[u],
             e.block = f.block \/ e.node = f.node
      PROVE  e = f
  <2>1. \A x \in dict[t] : x.block # b /\ x.node # d
    BY NodeFacts DEF Entry
  <2> QED BY <2>1, <1>0, <1>1, <1>7 DEF NodesAreOwned
<1> QED BY <1>4, <1>5, <1>6, <1>7 DEF NodesAreOwned

\* Entries of one thread are taken out, and their nodes freed.
LEMMA NodesRemoved ==
    ASSUME TypeOK, NodesAreOwned, NEW t \in Threads, NEW E \in SUBSET dict[t],
           \A a \in Addr : owner'[a] = Trace <=>
                              owner[a] = Trace /\ a \notin {e.node : e \in E},
           root' = root,
           dict' = [dict EXCEPT ![t] = @ \ E]
    PROVE  NodesAreOwned'
<1>1. dict'[t] = dict[t] \ E /\ \A u \in Threads \ {t} : dict'[u] = dict[u]
  BY DEF TypeOK
<1>2. NodesOf(t)' = NodesOf(t) \ {e.node : e \in E}
  <2>1. {e.node : e \in dict'[t]} = {e.node : e \in dict[t]} \ {e.node : e \in E}
    BY <1>1 DEF NodesAreOwned
  <2>2. E # {} => root[t] \notin {e.node : e \in E}
    BY DEF NodesAreOwned
  <2> QED BY <2>1, <2>2, <1>1 DEF NodesOf
<1>3. \A u \in Threads \ {t} : NodesOf(u)' = NodesOf(u) BY <1>1 DEF NodesOf
<1>4. \A u \in Threads \ {t} : NodesOf(u) \cap {e.node : e \in E} = {}
  <2>1. {e.node : e \in E} \subseteq NodesOf(t)
    BY NodeFacts, NamesDiffer DEF NodesOf, Names
  <2> QED BY <2>1 DEF NodesAreOwned
<1>5. {a \in Addr : owner'[a] = Trace} = UNION {NodesOf(u)' : u \in Threads}
  <2>1. {a \in Addr : owner'[a] = Trace} =
           {a \in Addr : owner[a] = Trace} \ {e.node : e \in E}
    OBVIOUS
  <2>2. {a \in Addr : owner[a] = Trace} = UNION {NodesOf(u) : u \in Threads}
    BY DEF NodesAreOwned
  <2>3. \A u \in Threads : NodesOf(u)' = NodesOf(u) \ {e.node : e \in E}
    BY <1>2, <1>3, <1>4
  <2> QED BY <2>1, <2>2, <2>3
<1>6. \A u, v \in Threads : u # v => NodesOf(u)' \cap NodesOf(v)' = {}
  BY <1>2, <1>3 DEF NodesAreOwned
<1>7. ASSUME NEW u \in Threads, dict'[u] # {}
      PROVE  IsTraced(u)' /\ root'[u] \notin {e.node : e \in dict'[u]}
  BY <1>1, <1>7 DEF NodesAreOwned, IsTraced
<1>8. ASSUME NEW u \in Threads, NEW e \in dict'[u], NEW f \in dict'[u],
             e.block = f.block \/ e.node = f.node
      PROVE  e = f
  BY <1>1, <1>8 DEF NodesAreOwned
<1> QED BY <1>5, <1>6, <1>7, <1>8 DEF NodesAreOwned

\* A thread's own node comes or goes, while it has no entries.
LEMMA RootChanged ==
    ASSUME TypeOK, NodesAreOwned, NEW t \in Threads, dict[t] = {},
           NEW r \in Addr \cup {NoAddr}, r # NoAddr => owner[r] # Trace,
           \A a \in Addr : owner'[a] = Trace <=>
                              a = r \/ (owner[a] = Trace /\ a # root[t]),
           root' = [root EXCEPT ![t] = r],
           dict' = dict
    PROVE  NodesAreOwned'
<1>1. root'[t] = r /\ \A u \in Threads \ {t} : root'[u] = root[u]
  BY DEF TypeOK
<1>2. NodesOf(t)' = {r} \ {NoAddr} /\ NodesOf(t) = {root[t]} \ {NoAddr}
  BY <1>1 DEF NodesOf
<1>3. \A u \in Threads \ {t} : NodesOf(u)' = NodesOf(u) BY <1>1 DEF NodesOf
<1>4. \A u \in Threads \ {t} : r \notin NodesOf(u) /\ root[t] \notin NodesOf(u)
  <2>1. SUFFICES ASSUME NEW u \in Threads \ {t}
                 PROVE  r \notin NodesOf(u) /\ root[t] \notin NodesOf(u)
    OBVIOUS
  <2>2. NodesOf(u) \subseteq {a \in Addr : owner[a] = Trace} BY DEF NodesAreOwned
  <2>3. r \notin NodesOf(u) BY <2>2, NamesDiffer DEF Names
  <2>4. NodesOf(t) \cap NodesOf(u) = {} BY DEF NodesAreOwned
  <2>5. NoAddr \notin NodesOf(u) BY DEF NodesOf
  <2> QED BY <2>3, <2>4, <2>5, <1>2
<1>5. {a \in Addr : owner'[a] = Trace} = UNION {NodesOf(u)' : u \in Threads}
  <2>1. {a \in Addr : owner'[a] = Trace} =
           ({a \in Addr : owner[a] = Trace} \ {root[t]}) \cup ({r} \ {NoAddr})
    BY NamesDiffer DEF Names
  <2>2. {a \in Addr : owner[a] = Trace} = UNION {NodesOf(u) : u \in Threads}
    BY DEF NodesAreOwned
  <2>3. ASSUME NEW a PROVE a \in ((UNION {NodesOf(u) : u \in Threads}) \ {root[t]}) \cup ({r} \ {NoAddr})
                            <=> \E u \in Threads : a \in NodesOf(u)'
    BY <1>2, <1>3, <1>4
  <2> QED BY <2>1, <2>2, <2>3
<1>6. \A u, v \in Threads : u # v => NodesOf(u)' \cap NodesOf(v)' = {}
  BY <1>2, <1>3, <1>4 DEF NodesAreOwned
<1>7. ASSUME NEW u \in Threads, dict'[u] # {}
      PROVE  IsTraced(u)' /\ root'[u] \notin {e.node : e \in dict'[u]}
  BY <1>1, <1>7 DEF NodesAreOwned, IsTraced
<1> QED BY <1>5, <1>6, <1>7 DEF NodesAreOwned

\* The trace is left alone.
LEMMA NodesSame ==
    ASSUME NodesAreOwned, \A a \in Addr : owner'[a] = Trace <=> owner[a] = Trace,
           root' = root, dict' = dict
    PROVE  NodesAreOwned'
<1>1. \A u : NodesOf(u)' = NodesOf(u) /\ (IsTraced(u)' <=> IsTraced(u))
  BY DEF NodesOf, IsTraced
<1>2. {a \in Addr : owner'[a] = Trace} = {a \in Addr : owner[a] = Trace} OBVIOUS
<1> QED BY <1>1, <1>2 DEF NodesAreOwned

-----------------------------------------------------------------------------
\* Counting the bytes of a block changes nothing in the list.
LEMMA CountedLemma ==
    ASSUME NEW h \in HeapType, NEW used \in SUBSET Addr, Tiled(h, used), Linked(h),
           NEW b \in used
    PROVE  Sound(Counted(h, b), used)
<1>1. /\ Counted(h, b).next = h.next /\ Counted(h, b).size = h.size
      /\ Counted(h, b).free = h.free
  BY DEF Counted, HeapType
<1>2. Counted(h, b) \in HeapType
  BY DEF Counted, HeapType
<1>3. Tiled(Counted(h, b), used) BY <1>1 DEF Tiled
<1>4. Linked(Counted(h, b)) BY <1>1 DEF Linked
<1> QED BY <1>2, <1>3, <1>4 DEF Sound

\* vPortFree: counting and inserting a block in use.
LEMMA FreeLemma ==
    ASSUME NEW h \in HeapType, NEW used \in SUBSET Addr, Tiled(h, used), Linked(h),
           NEW b \in used
    PROVE  Sound(Insert(Counted(h, b), b), used \ {b})
<1> DEFINE c == Counted(h, b)
<1>1. c \in HeapType /\ Tiled(c, used) /\ Linked(c) BY CountedLemma DEF Sound
<1> HIDE DEF c
<1> QED BY <1>1, InsertLemma DEF c

\* pvPortMalloc, with the trace.
LEMMA AllocateLemma ==
    ASSUME IndInv, NEW t \in Threads, NEW n \in Requests, Allocate(t, n)
    PROVE  /\ MemType' /\ HeapSound' /\ NodesAreOwned'
           /\ \A a \in Addr : owner[a] # NoThread => owner'[a] = owner[a]
           /\ root' = root /\ untracing' = untracing
<1>0. /\ heap \in HeapType /\ Used \in SUBSET Addr
      /\ Tiled(heap, Used) /\ Linked(heap)
      /\ TypeOK /\ NodesAreOwned /\ MemType
      /\ NodeSize \in Nat /\ n \in Nat
  BY HeapAssumption DEF IndInv, TypeOK, MemType, HeapType, HeapSound, Used
<1>1. ASSUME NEW m \in {n, NodeSize}, OutOfMemory(m)
      PROVE  /\ MemType' /\ HeapSound' /\ NodesAreOwned'
             /\ \A a \in Addr : owner[a] # NoThread => owner'[a] = owner[a]
             /\ root' = root /\ untracing' = untracing
  <2>1. HeapSound' /\ MemType'
    BY <1>0, <1>1 DEF OutOfMemory, IndInv, HeapSound, Used, MemType, traceVars
  <2>2. NodesAreOwned' BY <1>0, <1>1, NodesSame DEF OutOfMemory, traceVars
  <2> QED BY <2>1, <2>2, <1>1 DEF OutOfMemory, traceVars
<1>2. ASSUME NEW b \in FirstFit(heap, Wanted(n)),
             ~NeedsNode(t, b),
             heap' = Carve(heap, b, Wanted(n)),
             owner' = [owner EXCEPT ![b] = t],
             UNCHANGED <<traceVars, failed>>
      PROVE  /\ MemType' /\ HeapSound' /\ NodesAreOwned'
             /\ \A a \in Addr : owner[a] # NoThread => owner'[a] = owner[a]
             /\ root' = root /\ untracing' = untracing
  <2>1. Wanted(n) \in Nat BY <1>0, WantedNat
  <2>2. b \in heap.free /\ b \in Addr /\ b \notin Used /\ owner[b] = NoThread
    <3>1. b \in heap.free BY DEF FirstFit
    <3>2. b \in Addr BY <3>1, <1>0 DEF HeapType
    <3> QED BY <3>1, <3>2, <1>0 DEF Tiled, Used
  <2>3. Sound(heap', Used \cup {b})
    BY <1>0, <1>2, <2>1, CarveLemma
  <2>4. Used' = Used \cup {b}
    BY <1>2, <2>2, <1>0, NamesDiffer DEF Used, Names, TypeOK
  <2>5. HeapSound' BY <2>3, <2>4 DEF HeapSound, Sound
  <2>6. MemType'
    BY <1>2, <2>2, <2>3, <1>0 DEF MemType, Sound, traceVars
  <2>7. NodesAreOwned'
    <3>1. \A a \in Addr : owner'[a] = Trace <=> owner[a] = Trace
      BY <1>2, <2>2, <1>0, NamesDiffer DEF TypeOK, Names
    <3> QED BY <3>1, <1>0, <1>2, NodesSame DEF traceVars
  <2>8. \A a \in Addr : owner[a] # NoThread => owner'[a] = owner[a]
    BY <1>2, <2>2, <1>0 DEF TypeOK
  <2> QED BY <2>5, <2>6, <2>7, <2>8, <1>2 DEF traceVars
<1>3. ASSUME NEW b \in FirstFit(heap, Wanted(n)),
             NeedsNode(t, b),
             NEW d \in FirstFit(Carve(heap, b, Wanted(n)), Wanted(NodeSize)),
             heap' = Carve(Carve(heap, b, Wanted(n)), d, Wanted(NodeSize)),
             owner' = [owner EXCEPT ![b] = t, ![d] = Trace],
             dict' = [dict EXCEPT ![t] = @ \cup {[block |-> b, node |-> d]}],
             UNCHANGED <<root, untracing, failed>>
      PROVE  /\ MemType' /\ HeapSound' /\ NodesAreOwned'
             /\ \A a \in Addr : owner[a] # NoThread => owner'[a] = owner[a]
             /\ root' = root /\ untracing' = untracing
  <2> DEFINE h == Carve(heap, b, Wanted(n))
  <2>1. Wanted(n) \in Nat /\ Wanted(NodeSize) \in Nat BY <1>0, WantedNat
  <2>2. b \in heap.free /\ b \in Addr /\ b \notin Used /\ owner[b] = NoThread
    <3>1. b \in heap.free BY DEF FirstFit
    <3>2. b \in Addr BY <3>1, <1>0 DEF HeapType
    <3> QED BY <3>1, <3>2, <1>0 DEF Tiled, Used
  <2>3. Sound(h, Used \cup {b})
    BY <1>0, <2>1, CarveLemma
  <2>4. Used \cup {b} \in SUBSET Addr BY <1>0, <2>2
  <2>5. d \in h.free /\ d \in Addr /\ d \notin Used \cup {b} /\ owner[d] = NoThread
    <3>1. d \in h.free BY DEF FirstFit
    <3>2. d \in Addr BY <3>1, <2>3 DEF Sound, HeapType
    <3> QED BY <3>1, <3>2, <2>3 DEF Sound, Tiled, Used
  <2>6. Sound(heap', (Used \cup {b}) \cup {d})
    <3> HIDE DEF h
    <3>1. h \in HeapType /\ Tiled(h, Used \cup {b}) /\ Linked(h) BY <2>3 DEF Sound
    <3>2. d \in FirstFit(h, Wanted(NodeSize)) /\ heap' = Carve(h, d, Wanted(NodeSize))
      BY <1>3 DEF h
    <3> QED BY <3>1, <3>2, <2>1, <2>4, CarveLemma
  <2>7. Used' = (Used \cup {b}) \cup {d}
    BY <1>3, <2>2, <2>5, <1>0, NamesDiffer DEF Used, Names, TypeOK
  <2>8. HeapSound' BY <2>6, <2>7 DEF HeapSound, Sound
  <2>9. MemType'
    <3>1. [block |-> b, node |-> d] \in [block: Addr, node: Addr] BY <2>2, <2>5
    <3>2. dict' \in [Threads -> SUBSET [block: Addr, node: Addr]]
      BY <3>1, <1>3, <1>0 DEF MemType
    <3>3. owner' \in [Addr -> Threads \cup {Trace, NoThread}]
      BY <1>3, <1>0 DEF MemType
    <3> QED BY <1>3, <3>2, <3>3, <2>6, <1>0 DEF MemType, Sound
  <2>10. NodesAreOwned'
    <3>1. \A a \in Addr : owner'[a] = Trace <=> owner[a] = Trace \/ a = d
      BY <1>3, <2>2, <2>5, <1>0, NamesDiffer DEF TypeOK, Names
    <3>2. owner[d] # Trace BY <2>5, NamesDiffer DEF Names
    <3> QED BY <3>1, <3>2, <2>2, <2>5, <1>0, <1>3, NodeAdded DEF NeedsNode
  <2>11. \A a \in Addr : owner[a] # NoThread => owner'[a] = owner[a]
    BY <1>3, <2>2, <2>5, <1>0 DEF TypeOK
  <2> QED BY <2>8, <2>9, <2>10, <2>11, <1>3
<1> QED BY <1>1, <1>2, <1>3 DEF Allocate

-----------------------------------------------------------------------------
\* What an action that leaves the threads' own state alone has to show.
LEMMA SameClients ==
    ASSUME IndInv, UNCHANGED clientVars, MemType',
           \A a \in Addr : owner[a] \in Threads => owner'[a] = owner[a],
           untracing' \in Threads \cup {NoThread},
           untracing' # NoThread => root'[untracing'] # NoAddr
    PROVE  TypeOK' /\ HeldOK'
<1>1. TypeOK' BY DEF IndInv, TypeOK, MemType, HeapType, clientVars
<1>2. \A t \in Threads : ptr[t] \in Addr \cup {NoAddr} BY DEF IndInv, TypeOK
<1>3. HeldOK' BY <1>2 DEF IndInv, HeldOK, clientVars, IsTraced
<1> QED BY <1>1, <1>3

\* The initial state.
LEMMA InitInv == Init => IndInv
<1> SUFFICES ASSUME Init PROVE IndInv OBVIOUS
<1>0. End \in Nat /\ End > 0 /\ Addr \subseteq Int /\ 0 \in Addr /\ Names
  BY HeapAssumption, NamesDiffer DEF Addr
<1>1. Used = {} BY <1>0 DEF Init, Used
<1>2. /\ heap.free = {0} /\ heap.size[0] = End /\ heap.next[0] = End
      /\ heap.next[Start] = 0 /\ Start < 0 /\ Start # 0
  BY <1>0 DEF Init, Start
<1>3. TypeOK
  <2>1. heap \in [next: [Addr \cup {Start} -> 0..End \cup {NoAddr}], size: [Addr -> Nat],
                  free: SUBSET Addr, bytes: Int]
    <3>1. heap.next \in [Addr \cup {Start} -> 0..End \cup {NoAddr}]
      BY <1>0 DEF Init, Start
    <3>2. heap.size \in [Addr -> Nat] BY <1>0 DEF Init
    <3> QED BY <3>1, <3>2, <1>0 DEF Init
  <2> QED BY <2>1, <1>0 DEF Init, TypeOK
<1>4. HeapSound
  <2>1. Tiled(heap, {}) BY <1>0, <1>2 DEF Tiled
  <2>2. Linked(heap) BY <1>0, <1>2 DEF Linked
  <2> QED BY <2>1, <2>2, <1>1 DEF HeapSound
<1>5. NodesAreOwned
  <2>1. \A t \in Threads : NodesOf(t) = {} BY DEF Init, NodesOf
  <2>2. {b \in Addr : owner[b] = Trace} = {} BY <1>0 DEF Init, Names
  <2> QED BY <2>1, <2>2 DEF NodesAreOwned, Init
<1>6. HeldOK BY DEF HeldOK, Init
<1> QED BY <1>3, <1>4, <1>5, <1>6 DEF IndInv

\* Every step keeps the invariant.
LEMMA NextInv == IndInv /\ [Next]_vars => IndInv'
<1> SUFFICES ASSUME IndInv, [Next]_vars PROVE IndInv' OBVIOUS
<1>0. /\ heap \in HeapType /\ Used \in SUBSET Addr
      /\ Tiled(heap, Used) /\ Linked(heap)
      /\ TypeOK /\ NodesAreOwned /\ MemType /\ HeldOK /\ Names
      /\ NodeSize \in Nat /\ Requests \subseteq Nat
  BY HeapAssumption, NamesDiffer
     DEF IndInv, TypeOK, MemType, HeapType, HeapSound, Used
<1>1. ASSUME NEW t \in Threads, NEW n \in Requests, Malloc(t, n) PROVE IndInv'
  <2>1. /\ MemType' /\ HeapSound' /\ NodesAreOwned'
        /\ \A a \in Addr : owner[a] # NoThread => owner'[a] = owner[a]
        /\ root' = root /\ untracing' = untracing
    BY <1>0, <1>1, AllocateLemma DEF Malloc, Ready
  <2>2. TypeOK' /\ HeldOK'
    <3>1. untracing' \in Threads \cup {NoThread} BY <2>1, <1>0 DEF TypeOK
    <3>2. untracing' # NoThread => root'[untracing'] # NoAddr
      BY <2>1, <1>0 DEF HeldOK, IsTraced
    <3> QED BY <3>1, <3>2, <2>1, <1>0, <1>1, SameClients DEF Malloc, Names
  <2> QED BY <2>1, <2>2 DEF IndInv
<1>2. ASSUME NEW t \in Threads, NEW p \in Addr, NEW n \in Requests, Realloc(t, p, n)
      PROVE  IndInv'
  <2>1. /\ MemType' /\ HeapSound' /\ NodesAreOwned'
        /\ \A a \in Addr : owner[a] # NoThread => owner'[a] = owner[a]
        /\ root' = root /\ untracing' = untracing
    BY <1>0, <1>2, AllocateLemma DEF Realloc, Ready
  <2>2. untracing' \in Threads \cup {NoThread} BY <2>1, <1>0 DEF TypeOK
  <2>3. untracing' # NoThread => root'[untracing'] # NoAddr
    BY <2>1, <1>0 DEF HeldOK, IsTraced
  <2>4. CASE UNCHANGED clientVars
    <3>1. TypeOK' /\ HeldOK'
      BY <2>1, <2>2, <2>3, <2>4, <1>0, SameClients DEF Names
    <3> QED BY <3>1, <2>1 DEF IndInv
  <2>5. CASE /\ step' = [step EXCEPT ![t] = "copy"]
             /\ ptr' = [ptr EXCEPT ![t] = p]
    <3>1. TypeOK'
      BY <2>1, <2>2, <2>5, <1>0 DEF TypeOK, MemType, HeapType
    <3>2. HeldOK'
      <4>1. owner[p] \in Threads /\ \A u \in Threads \ {t} : ptr[u] # p
        BY <1>2 DEF Realloc, Held
      <4>2. \A u \in Threads : ptr[u] \in Addr \cup {NoAddr} BY <1>0 DEF TypeOK
      <4>3. \A u \in Threads : /\ ptr'[u] = IF u = t THEN p ELSE ptr[u]
                               /\ step'[u] = IF u = t THEN "copy" ELSE step[u]
        BY <2>5, <1>0 DEF TypeOK
      <4>4. \A a \in Addr : owner[a] \in Threads => owner'[a] \in Threads
        BY <2>1, <1>0 DEF Names
      <4> QED BY <4>1, <4>2, <4>3, <4>4, <2>3, <1>0 DEF HeldOK, Names, IsTraced
    <3> QED BY <3>1, <3>2, <2>1 DEF IndInv
  <2> QED BY <2>4, <2>5, <1>2 DEF Realloc
<1>3. ASSUME NEW t \in Threads, NEW p \in Addr, Free(t, p) PROVE IndInv'
  <2>1. UNCHANGED <<heap, owner, root, dict, untracing, failed>>
    BY <1>3 DEF Free, traceVars
  <2>2. TypeOK' BY <1>0, <1>3, <2>1 DEF TypeOK, Free
  <2>3. HeapSound' BY <1>0, <2>1 DEF HeapSound, Used
  <2>4. NodesAreOwned' BY <1>0, <2>1, NodesSame
  <2>5. HeldOK'
    <3>1. owner[p] \in Threads /\ \A u \in Threads \ {t} : ptr[u] # p
      BY <1>3 DEF Free, Held
    <3>2. \A u \in Threads : ptr[u] \in Addr \cup {NoAddr} BY <1>0 DEF TypeOK
    <3>3. \A u \in Threads : /\ ptr'[u] = IF u = t THEN p ELSE ptr[u]
                             /\ step'[u] = IF u = t THEN "free" ELSE step[u]
      BY <1>3, <1>0 DEF TypeOK, Free
    <3> QED BY <3>1, <3>2, <3>3, <2>1, <1>0 DEF HeldOK, Names, IsTraced
  <2> QED BY <2>2, <2>3, <2>4, <2>5 DEF IndInv
<1>4. ASSUME NEW t \in Threads, FreeInsert(t) PROVE IndInv'
  <2> DEFINE b == ptr[t]
             E == Entry(t, b)
             nodes == NodesFreed(t, b)
  <2>1. /\ b \in Addr /\ owner[b] \in Threads /\ b \in Used /\ untracing = NoThread
    <3>1. step[t] = "free" /\ untracing = NoThread BY <1>4 DEF FreeInsert, Ready
    <3>2. /\ step[t] = "idle" <=> ptr[t] = NoAddr
          /\ ptr[t] # NoAddr => owner[ptr[t]] \in Threads
      <4> HIDE DEF b, E, nodes
      <4> QED BY <1>0, HeldFacts
    <3>3. ptr[t] \in Addr \cup {NoAddr} BY <1>0 DEF TypeOK
    <3>4. ptr[t] \in Addr /\ owner[ptr[t]] \in Threads
      <4> HIDE DEF b, E, nodes
      <4> QED BY <3>1, <3>2, <3>3
    <3> QED BY <3>1, <3>4, <1>0 DEF Used, Names
  <2>2. /\ E \in SUBSET dict[t] /\ nodes = {e.node : e \in E}
        /\ \A d \in nodes : d \in Addr /\ owner[d] = Trace /\ nodes = {d}
    <3>1. E \in SUBSET dict[t] /\ nodes = {e.node : e \in E} BY DEF Entry, NodesFreed
    <3>2. ASSUME NEW d \in nodes PROVE d \in Addr /\ owner[d] = Trace /\ nodes = {d}
      <4>1. PICK e \in E : d = e.node BY <3>1, <3>2
      <4>2. e.node \in Addr /\ owner[e.node] = Trace BY <3>1, <4>1, <1>0, NodeFacts
      <4>3. \A f \in E : f = e BY <3>1, <1>0 DEF NodesAreOwned, Entry
      <4> QED BY <3>1, <4>1, <4>2, <4>3
    <3> QED BY <3>1, <3>2
  <2>3. owner' = [a \in Addr |-> IF a \in nodes \cup {b} THEN NoThread ELSE owner[a]]
    BY <1>4 DEF FreeInsert
  <2>4. Used' = Used \ (nodes \cup {b})
    <3> HIDE DEF b, nodes
    <3> QED BY <2>3 DEF Used
  <2>5. Sound(heap', Used')
    <3>1. CASE nodes = {}
      <4>1. heap' = Insert(Counted(heap, b), b) BY <1>4, <3>1 DEF FreeInsert
      <4> QED BY <4>1, <3>1, <2>1, <2>4, <1>0, FreeLemma
    <3>2. CASE nodes # {}
      <4> DEFINE h == Counted(heap, b)
      <4>1. PICK d \in nodes : heap' = Insert(Insert(Counted(h, d), d), b)
        BY <1>4, <3>2 DEF FreeInsert
      <4>2. d \in Addr /\ d # b /\ d \in Used /\ nodes = {d}
        <5>1. d \in Addr /\ owner[d] = Trace /\ nodes = {d} BY <2>2
        <5> QED BY <5>1, <2>1, <1>0 DEF Used, Names
      <4>3. h \in HeapType /\ Tiled(h, Used) /\ Linked(h)
        BY <2>1, <1>0, CountedLemma DEF Sound
      <4> DEFINE k == Insert(Counted(h, d), d)
      <4>4. Sound(k, Used \ {d})
        <5> HIDE DEF h
        <5> QED BY <4>2, <4>3, <1>0, FreeLemma
      <4>5. heap' = Insert(k, b) BY <4>1
      <4>6. b \in Used \ {d} /\ Used \ {d} \in SUBSET Addr /\ Used' = (Used \ {d}) \ {b}
        BY <4>2, <2>1, <2>4, <1>0
      <4> HIDE DEF h, k, b
      <4> QED BY <4>4, <4>5, <4>6, InsertLemma DEF Sound
    <3> QED BY <3>1, <3>2
  <2>6. HeapSound' BY <2>5 DEF HeapSound, Sound
  <2> HIDE DEF b, nodes
  <2>7. NodesAreOwned'
    <3>1. \A a \in Addr : owner'[a] = Trace <=>
                              owner[a] = Trace /\ a \notin {e.node : e \in E}
      BY <2>1, <2>2, <2>3, <1>0 DEF Names
    <3>2. root' = root /\ dict' = [dict EXCEPT ![t] = @ \ E]
      BY <1>4 DEF FreeInsert, b
    <3> HIDE DEF E
    <3> QED BY <3>1, <3>2, <2>2, <1>0, NodesRemoved
  <2>8. TypeOK'
    <3>1. owner' \in [Addr -> Threads \cup {Trace, NoThread}]
      BY <2>3, <1>0 DEF TypeOK
    <3>2. heap' \in HeapType BY <2>5 DEF Sound
    <3> QED BY <3>1, <3>2, <1>0, <1>4 DEF FreeInsert, TypeOK, HeapType
  <2>9. HeldOK'
    <3>1. \A u \in Threads : /\ ptr'[u] = IF u = t THEN NoAddr ELSE ptr[u]
                             /\ step'[u] = IF u = t THEN "idle" ELSE step[u]
      BY <1>4, <1>0 DEF TypeOK, FreeInsert
    <3>2. ASSUME NEW u \in Threads, u # t, ptr[u] # NoAddr
          PROVE  owner'[ptr[u]] \in Threads
      <4>1. ptr[u] \in Addr /\ owner[ptr[u]] \in Threads /\ ptr[u] # b
        <5>1. ptr[u] # ptr[t] BY <3>2, <1>0 DEF HeldOK, IsTraced
        <5>2. ptr[u] \in Addr \cup {NoAddr} BY <1>0 DEF TypeOK
        <5>3. owner[ptr[u]] \in Threads
          <6> HIDE DEF b, E, nodes
          <6> QED BY <3>2, <1>0, HeldFacts
        <5> QED BY <5>1, <5>2, <5>3, <3>2 DEF b
      <4>2. ptr[u] \notin nodes BY <4>1, <2>2, <1>0 DEF Names
      <4> QED BY <4>1, <4>2, <2>3
    <3>3. untracing' = NoThread BY <1>4, <2>1 DEF FreeInsert
    <3> QED BY <3>1, <3>2, <3>3, <1>0 DEF HeldOK
  <2> QED BY <2>6, <2>7, <2>8, <2>9 DEF IndInv
<1>5. ASSUME NEW t \in Threads, EnableTrace(t) PROVE IndInv'
  <2>0. UNCHANGED clientVars /\ ~IsTraced(t) /\ untracing = NoThread
    BY <1>5 DEF EnableTrace, Ready
  <2>1. CASE OutOfMemory(NodeSize)
    <3>1. UNCHANGED <<heap, owner, root, dict, untracing>> /\ failed' = NodeSize
      BY <2>1 DEF OutOfMemory, traceVars
    <3>2. MemType' BY <1>0, <3>1 DEF MemType
    <3>3. HeapSound' BY <1>0, <3>1 DEF HeapSound, Used
    <3>4. NodesAreOwned' BY <1>0, <3>1, NodesSame
    <3>5. TypeOK' /\ HeldOK' BY <2>0, <3>1, <3>2, SameClients
    <3> QED BY <3>3, <3>4, <3>5 DEF IndInv
  <2>2. ASSUME NEW d \in FirstFit(heap, Wanted(NodeSize)),
               heap' = Carve(heap, d, Wanted(NodeSize)),
               owner' = [owner EXCEPT ![d] = Trace],
               root' = [root EXCEPT ![t] = d],
               UNCHANGED <<dict, untracing, failed>>
        PROVE  IndInv'
    <3>1. d \in heap.free /\ d \in Addr /\ d \notin Used /\ owner[d] = NoThread
      <4>1. d \in heap.free BY DEF FirstFit
      <4>2. d \in Addr BY <4>1, <1>0 DEF HeapType
      <4> QED BY <4>1, <4>2, <1>0 DEF Tiled, Used
    <3>2. Sound(heap', Used \cup {d}) BY <1>0, <2>2, WantedNat, CarveLemma
    <3>3. Used' = Used \cup {d}
      BY <2>2, <3>1, <1>0 DEF Used, Names, TypeOK
    <3>4. HeapSound' BY <3>2, <3>3 DEF HeapSound, Sound
    <3>5. MemType' BY <2>2, <3>1, <3>2, <1>0 DEF MemType, Sound
    <3>6. NodesAreOwned'
      <4>1. dict[t] = {} BY <2>0, <1>0 DEF NodesAreOwned
      <4>2. owner[d] # Trace BY <3>1, <1>0 DEF Names
      <4>3. \A a \in Addr : owner'[a] = Trace <=>
                               a = d \/ (owner[a] = Trace /\ a # root[t])
        BY <2>0, <2>2, <3>1, <1>0 DEF TypeOK, Names, IsTraced
      <4>4. d \in Addr \cup {NoAddr} /\ dict' = dict BY <3>1, <2>2
      <4> QED BY <4>1, <4>2, <4>3, <4>4, <2>2, <1>0, RootChanged
    <3>7. \A a \in Addr : owner[a] \in Threads => owner'[a] = owner[a]
      BY <2>2, <3>1, <1>0 DEF TypeOK, Names
    <3>8. TypeOK' /\ HeldOK' BY <2>0, <2>2, <3>5, <3>7, SameClients
    <3> QED BY <3>4, <3>6, <3>8 DEF IndInv
  <2> QED BY <2>1, <2>2, <1>5 DEF EnableTrace
<1>6. ASSUME NEW t \in Threads, DisableTrace(t) PROVE IndInv'
  <2>1. UNCHANGED <<heap, owner, root, dict, failed>> /\ UNCHANGED clientVars
        /\ untracing' = t /\ IsTraced(t)
    BY <1>6 DEF DisableTrace
  <2>2. MemType' BY <1>0, <2>1 DEF MemType
  <2>3. HeapSound' BY <1>0, <2>1 DEF HeapSound, Used
  <2>4. NodesAreOwned' BY <1>0, <2>1, NodesSame
  <2>5. TypeOK' /\ HeldOK' BY <2>1, <2>2, SameClients DEF IsTraced
  <2> QED BY <2>3, <2>4, <2>5 DEF IndInv
<1>7. ASSUME NEW t \in Threads, EraseEntry(t) PROVE IndInv'
  <2>1. PICK e \in dict[t] :
           /\ heap' = Insert(Counted(heap, e.node), e.node)
           /\ owner' = [owner EXCEPT ![e.node] = NoThread]
           /\ dict' = [dict EXCEPT ![t] = @ \ {e}]
    BY <1>7 DEF EraseEntry
  <2>2. UNCHANGED clientVars /\ UNCHANGED <<root, untracing, failed>> /\ untracing = t
    BY <1>7 DEF EraseEntry
  <2>3. e.node \in Addr /\ owner[e.node] = Trace /\ e.node \in Used
    BY <1>0, NodeFacts DEF Used, Names
  <2>4. Sound(heap', Used \ {e.node}) BY <1>0, <2>1, <2>3, FreeLemma
  <2>5. Used' = Used \ {e.node} BY <1>0, <2>1, <2>3 DEF Used, TypeOK
  <2>6. HeapSound' BY <2>4, <2>5 DEF HeapSound, Sound
  <2>7. MemType' BY <1>0, <2>1, <2>2, <2>4 DEF MemType, Sound
  <2>8. NodesAreOwned'
    <3>1. \A a \in Addr : owner'[a] = Trace <=>
                              owner[a] = Trace /\ a \notin {f.node : f \in {e}}
      BY <1>0, <2>1, <2>3 DEF TypeOK, Names
    <3>2. {e} \in SUBSET dict[t] OBVIOUS
    <3> QED BY <3>1, <3>2, <1>0, <2>1, <2>2, NodesRemoved
  <2>9. \A a \in Addr : owner[a] \in Threads => owner'[a] = owner[a]
    BY <1>0, <2>1, <2>3 DEF TypeOK, Names
  <2>10. TypeOK' /\ HeldOK'
    <3>1. root[t] # NoAddr BY <1>0, <2>2 DEF HeldOK, Names, IsTraced
    <3> QED BY <3>1, <2>2, <2>7, <2>9, SameClients
  <2> QED BY <2>6, <2>8, <2>10 DEF IndInv
<1>8. ASSUME NEW t \in Threads, EraseThread(t) PROVE IndInv'
  <2> DEFINE r == root[t]
  <2>1. /\ heap' = Insert(Counted(heap, r), r)
        /\ owner' = [owner EXCEPT ![r] = NoThread]
        /\ root' = [root EXCEPT ![t] = NoAddr]
        /\ untracing' = NoThread /\ dict[t] = {} /\ untracing = t
        /\ UNCHANGED clientVars /\ dict' = dict /\ failed' = failed
    BY <1>8 DEF EraseThread
  <2>2. r \in Addr /\ owner[r] = Trace /\ r \in Used
    <3>1. IsTraced(t) BY <1>0, <2>1 DEF HeldOK, Names
    <3> QED BY <3>1, <1>0, NodeFacts DEF Used, Names
  <2>3. Sound(heap', Used \ {r}) BY <1>0, <2>1, <2>2, FreeLemma
  <2>4. Used' = Used \ {r} BY <1>0, <2>1, <2>2 DEF Used, TypeOK
  <2>5. HeapSound' BY <2>3, <2>4 DEF HeapSound, Sound
  <2>6. MemType' BY <1>0, <2>1, <2>3 DEF MemType, Sound
  <2>7. NodesAreOwned'
    <3>1. \A a \in Addr : owner'[a] = Trace <=>
                              a = NoAddr \/ (owner[a] = Trace /\ a # root[t])
      BY <1>0, <2>1, <2>2 DEF TypeOK, Names
    <3> QED BY <3>1, <1>0, <2>1, RootChanged
  <2>8. \A a \in Addr : owner[a] \in Threads => owner'[a] = owner[a]
    BY <1>0, <2>1, <2>2 DEF TypeOK, Names
  <2>9. TypeOK' /\ HeldOK' BY <2>1, <2>6, <2>8, SameClients
  <2> QED BY <2>5, <2>7, <2>9 DEF IndInv
<1>9. CASE UNCHANGED vars
  <2>1. TypeOK' BY <1>0, <1>9 DEF TypeOK, vars
  <2>2. HeapSound' BY <1>0, <1>9 DEF HeapSound, Used, vars
  <2>3. NodesAreOwned' BY <1>0, <1>9, NodesSame DEF vars
  <2>4. HeldOK' BY <1>0, <1>9 DEF HeldOK, IsTraced, vars
  <2> QED BY <2>1, <2>2, <2>3, <2>4 DEF IndInv
<1> QED BY <1>1, <1>2, <1>3, <1>4, <1>5, <1>6, <1>7, <1>8, <1>9 DEF Next

-----------------------------------------------------------------------------
(***************************************************************************)
(* The count of bytes.                                                     *)
(***************************************************************************)

\* The bytes of the blocks in the list.
Total(h) == Sum(h.size, h.free)

\* Exchanging parts of a set exchanges their terms.
LEMMA SumRemove ==
    ASSUME NEW S, IsFiniteSet(S), NEW x \in S, NEW f, \A y \in S : f[y] \in Int
    PROVE  /\ Sum(f, S \ {x}) \in Int /\ Sum(f, S) \in Int
           /\ Sum(f, S) = Sum(f, S \ {x}) + f[x]
<1> DEFINE R == S \ {x}
<1>1. IsFiniteSet(R) /\ x \notin R /\ R \cup {x} = S BY FS_RemoveElement
<1> HIDE DEF R
<1>2. \A y \in R \cup {x} : f[y] \in Int BY <1>1
<1>3. Sum(f, R) \in Int /\ Sum(f, R \cup {x}) = Sum(f, R) + f[x]
  BY <1>1, <1>2, SumAdd
<1>4. f[x] \in Int OBVIOUS
<1>5. Sum(f, S) = Sum(f, R) + f[x] BY <1>1, <1>3
<1>6. Sum(f, S) \in Int BY <1>3, <1>4, <1>5
<1> QED BY <1>3, <1>5, <1>6 DEF R

\* The free blocks are finitely many, so that their bytes add up.
LEMMA FreeIsFinite ==
    ASSUME NEW h \in HeapType
    PROVE  IsFiniteSet(h.free) /\ \A b \in h.free : h.size[b] \in Int
<1>1. IsFiniteSet(Addr) BY HeapAssumption, FS_Interval DEF Addr
<1>2. h.free \in SUBSET Addr /\ h.size \in [Addr -> Nat] BY DEF HeapType
<1>3. IsFiniteSet(h.free) BY <1>1, <1>2, FS_Subset
<1> QED BY <1>2, <1>3

\* pvPortMalloc takes from the count what it takes from the list.
LEMMA CarveCounts ==
    ASSUME NEW h \in HeapType, NEW used \in SUBSET Addr, Tiled(h, used), Linked(h),
           NEW w \in Nat, NEW b \in FirstFit(h, w), h.bytes = Total(h)
    PROVE  Carve(h, b, w).bytes = Total(Carve(h, b, w))
<1> DEFINE rest == b + w
           g == Carve(h, b, w)
           R == h.free \ {b}
<1>0. /\ b \in h.free /\ w > 0 /\ w <= h.size[b] /\ h.bytes \in Int
      /\ Header \in Nat /\ h.size[b] \in Nat
  BY HeapAssumption DEF FirstFit, HeapType
<1>1. /\ End \in Nat /\ Addr \subseteq Int
      /\ h.free \subseteq Addr /\ b \in Addr
      /\ h.size \in [Addr -> Nat]
      /\ \A c \in h.free \cup used : c + h.size[c] <= End
      /\ \A c, d \in h.free \cup used : c < d => c + h.size[c] <= d
  BY <1>0, Facts
<1>2. IsFiniteSet(h.free) /\ \A c \in h.free : h.size[c] \in Int BY FreeIsFinite
<1>3. IsFiniteSet(R) BY <1>2, FS_RemoveElement
<1>4. Sum(h.size, R) \in Int /\ Total(h) = Sum(h.size, R) + h.size[b]
  BY <1>0, <1>2, SumRemove DEF Total
<1>5. CASE h.size[b] - w > MinBlock
  <2>1. /\ g.size = [h.size EXCEPT ![b] = w, ![rest] = h.size[b] - w]
        /\ g.free = (h.free \ {b}) \cup {rest}
        /\ g.bytes = h.bytes - w
    BY <1>5 DEF Carve
  <2>2. rest \in Addr /\ rest \notin h.free /\ b < rest
    <3>0. b \in Int BY <1>1
    <3>1. rest < b + h.size[b] BY <3>0, <1>0, <1>5, HeapAssumption DEF MinBlock
    <3>2. b < rest BY <3>0, <1>0
    <3>3. b \in Int /\ h.size[b] \in Nat /\ rest \in Int BY <3>0, <1>0
    <3>4. b + h.size[b] <= End BY <1>0, <1>1
    <3>5. rest \in Addr BY <3>1, <3>2, <3>3, <3>4, <1>1 DEF Addr
    <3>6. ASSUME rest \in h.free PROVE FALSE
      <4>1. b + h.size[b] <= rest BY <3>2, <3>6, <1>0, <1>1
      <4> QED BY <4>1, <3>1, <3>3
    <3> QED BY <3>2, <3>5, <3>6
  <2> HIDE DEF g, rest
  <2>3. /\ g.size[rest] = h.size[b] - w
        /\ \A c \in R : g.size[c] = h.size[c]
    BY <2>1, <2>2, <1>1
  <2>4. g.free = R \cup {rest} /\ rest \notin R BY <2>1, <2>2
  <2>5. Sum(h.size, R) = Sum(g.size, R)
    <3> HIDE DEF R
    <3>1. \A c \in R : h.size[c] \in Int /\ g.size[c] = h.size[c]
      BY <2>3, <1>2 DEF R
    <3> QED BY <3>1, <1>3, SumSame
  <2>6. Total(g) = Sum(g.size, R) + g.size[rest]
    <3> HIDE DEF R
    <3>1. \A c \in R \cup {rest} : g.size[c] \in Int
      <4>1. g.size[rest] \in Int BY <2>3, <1>0
      <4>2. \A c \in R : g.size[c] \in Int BY <2>3, <1>2 DEF R
      <4> QED BY <4>1, <4>2
    <3>2. Sum(g.size, R \cup {rest}) = Sum(g.size, R) + g.size[rest]
      BY <3>1, <2>4, <1>3, SumAdd
    <3> QED BY <3>2, <2>4 DEF Total
  <2> HIDE DEF R
  <2>7. Total(g) = h.bytes - w BY <2>3, <2>5, <2>6, <1>0, <1>4
  <2> QED BY <2>1, <2>7 DEF g
<1>6. CASE ~(h.size[b] - w > MinBlock)
  <2>1. g.size = h.size /\ g.free = R /\ g.bytes = h.bytes - h.size[b]
    BY <1>6 DEF Carve, HeapType
  <2> HIDE DEF g, R
  <2>2. Total(g) = Sum(h.size, R) BY <2>1 DEF Total
  <2> QED BY <2>1, <2>2, <1>0, <1>4 DEF g
<1> QED BY <1>5, <1>6

\* prvInsertBlockIntoFreeList adds the block to the list whatever it merges it
\* with, and leaves the blocks in use alone.
LEMMA InsertCounts ==
    ASSUME NEW h \in HeapType, NEW used \in SUBSET Addr, Tiled(h, used), Linked(h),
           NEW b \in used
    PROVE  /\ Total(Insert(h, b)) = Total(h) + h.size[b]
           /\ Insert(h, b).bytes = h.bytes
           /\ Insert(h, b).free \subseteq h.free \cup {b}
           /\ \A c \in used \ {b} : Insert(h, b).size[c] = h.size[c]
<1> DEFINE i == IteratorOf(h, b)
           n == h.next[i]
           prev == JoinsPrev(h, i, b)
           next == JoinsNext(h, i, b)
           m == IF prev THEN i ELSE b
           sum == h.size[b] + (IF prev THEN h.size[i] ELSE 0)
                            + (IF next THEN h.size[n] ELSE 0)
           gone == (IF prev THEN {b} ELSE {}) \cup (IF next THEN {n} ELSE {})
           g == Insert(h, b)
           R == (h.free \ (IF prev THEN {i} ELSE {})) \ (IF next THEN {n} ELSE {})
<1>1. /\ Addr \subseteq Int /\ b \in Addr /\ h.free \subseteq Addr
      /\ h.size \in [Addr -> Nat] /\ h.free \cap used = {} /\ End \in Nat
      /\ \A c \in h.free \cup {Start} : h.next[c] \in h.free \cup {End} /\ c < h.next[c]
      /\ Start \in Int
  BY Facts DEF Tiled, Linked, Start
<1>2. i \in h.free \cup {Start} /\ i < b /\ n >= b
  BY <1>1, Predecessor DEF IteratorOf
<1>3. /\ g.size = [a \in Addr |-> IF a = m THEN sum
                                  ELSE IF a \in gone THEN 0 ELSE h.size[a]]
      /\ g.free = (h.free \cup {m}) \ gone
      /\ g.bytes = h.bytes
  BY DEF Insert
<1>4. /\ prev => i # Start /\ i \in h.free
      /\ next => n # End /\ n \in h.free
  <2>1. n \in h.free \cup {End} BY <1>1, <1>2
  <2> QED BY <2>1, <1>2 DEF JoinsPrev, JoinsNext
<1>5. i # n /\ i # b /\ b \notin h.free
  <2>1. i < n /\ b \in Int /\ i \in Int /\ n \in Int
    <3>1. n \in h.free \cup {End} /\ i < n BY <1>1, <1>2
    <3>2. h.free \subseteq Int /\ End \in Int /\ Start \in Int /\ b \in Int
      <4>1. h.free \subseteq Addr /\ Addr \subseteq Int BY <1>1
      <4>2. b \in Addr /\ End \in Nat /\ Start \in Int BY <1>1
      <4>3. b \in Int BY <4>1, <4>2
      <4>4. h.free \subseteq Int BY <4>1, Zenon
      <4> QED BY <4>2, <4>3, <4>4
    <3>3. i \in h.free \cup {Start} BY <1>2
    <3> HIDE DEF i, n
    <3> QED BY <3>1, <3>2, <3>3
  <2>2. b \notin h.free BY <1>1
  <2> HIDE DEF i, n
  <2> QED BY <2>1, <2>2, <1>2
<1> HIDE DEF g, i, n, prev, next
<1>6. R \subseteq h.free /\ m \notin R /\ g.free = R \cup {m} /\ b \notin R
  BY <1>3, <1>4, <1>5
<1>7. IsFiniteSet(h.free) /\ (\A c \in h.free : h.size[c] \in Int) /\ IsFiniteSet(R)
  <2>1. IsFiniteSet(h.free) /\ \A c \in h.free : h.size[c] \in Int BY FreeIsFinite
  <2> HIDE DEF R
  <2> QED BY <2>1, <1>6, FS_Subset
<1>8. \A c \in R : g.size[c] = h.size[c]
  BY <1>1, <1>3, <1>6
<1>9. m \in Addr /\ g.size[m] = sum /\ h.size[b] \in Nat
  BY <1>1, <1>3, <1>4
<1>10. Total(g) = Sum(h.size, R) + sum /\ sum \in Int
  <2>1. sum \in Int
    <3>1. prev => h.size[i] \in Int BY <1>4, <1>7
    <3>2. next => h.size[n] \in Int BY <1>4, <1>7
    <3> QED BY <3>1, <3>2, <1>9
  <2> HIDE DEF R, m, sum
  <2>2. Sum(h.size, R) = Sum(g.size, R)
    <3>1. \A c \in R : h.size[c] \in Int /\ g.size[c] = h.size[c]
      BY <1>6, <1>7, <1>8
    <3> QED BY <3>1, <1>7, SumSame
  <2>3. \A c \in R \cup {m} : g.size[c] \in Int
    BY <2>1, <1>6, <1>7, <1>8, <1>9
  <2>4. Total(g) = Sum(g.size, R) + g.size[m]
    BY <2>3, <1>6, <1>7, SumAdd DEF Total
  <2> QED BY <2>1, <2>2, <2>4, <1>9
<1>11. /\ Total(h) = Sum(h.size, R) + (IF prev THEN h.size[i] ELSE 0)
                                    + (IF next THEN h.size[n] ELSE 0)
       /\ Sum(h.size, R) \in Int
  <2> DEFINE Q == h.free \ (IF prev THEN {i} ELSE {})
  <2>1. IsFiniteSet(Q) /\ Q \subseteq h.free
    <3>1. Q \in SUBSET h.free OBVIOUS
    <3> HIDE DEF Q
    <3> QED BY <3>1, <1>7, FS_Subset
  <2>2. /\ Total(h) = Sum(h.size, Q) + (IF prev THEN h.size[i] ELSE 0)
        /\ Sum(h.size, Q) \in Int
    <3>1. CASE prev
      <4>1. Q = h.free \ {i} BY <3>1
      <4> QED BY <4>1, <3>1, <1>4, <1>7, SumRemove DEF Total
    <3>2. CASE ~prev
      <4>1. Q = h.free BY <3>2
      <4> HIDE DEF Q
      <4>2. \A c \in h.free : h.size[c] \in Int /\ h.size[c] = h.size[c] BY <1>7
      <4>3. Sum(h.size, Q) \in Int BY <4>1, <4>2, <1>7, SumSame
      <4> QED BY <4>1, <4>3, <3>2 DEF Total
    <3> QED BY <3>1, <3>2
  <2>3. R = Q \ (IF next THEN {n} ELSE {}) /\ (next => n \in Q)
    BY <1>4, <1>5
  <2> HIDE DEF Q, R
  <2>4. /\ Sum(h.size, Q) = Sum(h.size, R) + (IF next THEN h.size[n] ELSE 0)
        /\ Sum(h.size, R) \in Int
    <3>1. CASE next
      <4>1. R = Q \ {n} /\ n \in Q BY <3>1, <2>3
      <4>2. \A c \in Q : h.size[c] \in Int BY <2>1, <1>7
      <4>3. Sum(h.size, Q) = Sum(h.size, R) + h.size[n] /\ Sum(h.size, R) \in Int
        BY <4>1, <4>2, <2>1, SumRemove
      <4> QED BY <4>3, <3>1
    <3>2. CASE ~next
      <4>1. R = Q BY <3>2, <2>3
      <4> QED BY <4>1, <3>2, <2>2
    <3> QED BY <3>1, <3>2
  <2>5. /\ prev => h.size[i] \in Int
        /\ next => h.size[n] \in Int
    BY <1>4, <1>7
  <2> QED BY <2>2, <2>4, <2>5
<1>12. Total(g) = Total(h) + h.size[b]
  <2>1. /\ prev => h.size[i] \in Int
        /\ next => h.size[n] \in Int
    BY <1>4, <1>7
  <2> HIDE DEF R
  <2> QED BY <2>1, <1>9, <1>10, <1>11
<1>13. g.free \subseteq h.free \cup {b} BY <1>3, <1>4
<1>14. \A c \in used \ {b} : g.size[c] = h.size[c]
  <2>1. \A c \in used \ {b} : c # m /\ c \notin gone /\ c \in Addr
    BY <1>1, <1>4
  <2> HIDE DEF m, gone
  <2> QED BY <2>1, <1>3
<1> HIDE DEF R
<1> QED BY <1>3, <1>12, <1>13, <1>14 DEF g

-----------------------------------------------------------------------------
\* Every number is a multiple of the alignment and a remainder.
LEMMA DivMod ==
    ASSUME NEW m \in Nat \ {0}, NEW x \in Int
    PROVE  \E q \in Int, r \in 0..(m - 1) : x % m = r /\ x = m * q + r
<1> DEFINE q == x \div m
           r == x % m
           p == m * q
<1>1. q \in Int /\ r \in 0..(m - 1)
  OBVIOUS
<1>2. r = x - p
  OBVIOUS
<1> HIDE DEF q
<1>3. p \in Int
  BY <1>1
<1> HIDE DEF r, p
<1>4. x = p + r
  BY <1>1, <1>2, <1>3
<1> QED BY <1>1, <1>4 DEF p, r

\* The remainder is the only one in the range of the modulus.
LEMMA ModUnique ==
    ASSUME NEW m \in Nat \ {0}, NEW q \in Int, NEW r \in 0..(m - 1)
    PROVE  (m * q + r) % m = r
OBVIOUS

\* Products are distributed over sums.
LEMMA Distributes ==
    ASSUME NEW m \in Nat \ {0}, NEW p \in Int, NEW q \in Int
    PROVE  /\ m * (p + q) = m * p + m * q
           /\ m * p \in Int /\ m * q \in Int
OBVIOUS

\* The sum of two multiples of the alignment is one.
LEMMA GridSum ==
    ASSUME NEW m \in Nat \ {0}, NEW a \in Int, NEW b \in Int, a % m = 0, b % m = 0
    PROVE  (a + b) % m = 0
<1>1. PICK p \in Int, r \in 0..(m - 1) : a % m = r /\ a = m * p + r
  BY DivMod
<1>2. PICK q \in Int, s \in 0..(m - 1) : b % m = s /\ b = m * q + s
  BY DivMod
<1>3. a + b = m * (p + q) + 0
  <2> DEFINE mp == m * p
             mq == m * q
  <2>1. m * (p + q) = mp + mq /\ mp \in Int /\ mq \in Int
    BY Distributes
  <2>2. a = mp + 0 /\ b = mq + 0 BY <1>1, <1>2
  <2> HIDE DEF mp, mq
  <2> QED BY <2>1, <2>2
<1>4. 0 \in 0..(m - 1) /\ p + q \in Int OBVIOUS
<1>5. (m * (p + q) + 0) % m = 0 BY <1>4, ModUnique
<1> QED BY <1>3, <1>5

\* xWantedSize is padded to the alignment.
LEMMA WantedGrid ==
    ASSUME NEW n \in Nat
    PROVE  Wanted(n) % Align = 0
<1> DEFINE sum == n + Header
           rest == sum % Align
           pad == (Align - rest) % Align
<1>1. sum \in Int /\ Align \in Nat \ {0} BY HeapAssumption
<1>2. PICK q \in Int, r \in 0..(Align - 1) : rest = r /\ sum = Align * q + r
  <2> HIDE DEF sum
  <2> QED BY <1>1, DivMod
<1> HIDE DEF rest, sum
<1>3. 0 \in 0..(Align - 1) /\ 0 % Align = 0
  <2>1. 0 \in 0..(Align - 1) BY <1>1
  <2>2. (Align * 0 + 0) % Align = 0 BY <2>1, <1>1, ModUnique
  <2>3. Align * 0 + 0 = 0 BY <1>1
  <2> QED BY <2>1, <2>2, <2>3
<1>4. (sum + pad) % Align = 0
  <2>1. CASE r = 0
    <3>1. Align - rest = Align * 1 + 0 BY <2>1, <1>1, <1>2
    <3>2. (Align * 1 + 0) % Align = 0 BY <1>1, <1>3, ModUnique
    <3>3. pad = 0 BY <3>1, <3>2
    <3>4. sum % Align = 0 BY <2>1, <1>2 DEF rest
    <3>5. sum + pad = sum BY <3>3, <1>1
    <3> QED BY <3>4, <3>5
  <2>2. CASE r # 0
    <3>1. Align - r \in 0..(Align - 1) BY <2>2, <1>1, <1>2
    <3>2. (Align * 0 + (Align - r)) % Align = Align - r BY <3>1, <1>1, ModUnique
    <3>3. Align * 0 + (Align - r) = Align - r BY <1>1, <3>1
    <3>4. pad = Align - r BY <3>2, <3>3, <1>2
    <3> DEFINE aq == Align * q
    <3>5. Align * (q + 1) = aq + Align * 1 /\ aq \in Int BY <1>1, <1>2, Distributes
    <3>6. sum = aq + r BY <1>2
    <3> HIDE DEF aq
    <3>7. Align * 1 = Align BY <1>1
    <3> HIDE DEF pad
    <3>8. sum + pad = Align * (q + 1) + 0
      <4>1. Align * (q + 1) = aq + Align BY <3>5, <3>7
      <4>2. sum + pad = aq + Align BY <3>4, <3>5, <3>6, <1>1, <1>2
      <4>3. aq + Align = (aq + Align) + 0 BY <3>5, <1>1
      <4> QED BY <4>1, <4>2, <4>3
    <3>9. (Align * (q + 1) + 0) % Align = 0
      <4>1. q + 1 \in Int BY <1>2
      <4> QED BY <4>1, <1>1, <1>3, ModUnique
    <3> QED BY <3>8, <3>9
  <2> QED BY <2>1, <2>2
<1> HIDE DEF pad
<1> QED BY <1>3, <1>4 DEF Wanted, sum, pad, rest

-----------------------------------------------------------------------------
\* A set of block headers that are aligned.
OnGrid(S) == \A b \in S : b % Align = 0

\* pvPortMalloc creates aligned headers only.
LEMMA CarveGrid ==
    ASSUME NEW h \in HeapType, NEW used \in SUBSET Addr, OnGrid(h.free \cup used),
           NEW n \in Nat, NEW b \in FirstFit(h, Wanted(n))
    PROVE  OnGrid(Carve(h, b, Wanted(n)).free \cup (used \cup {b}))
<1> DEFINE w == Wanted(n)
           g == Carve(h, b, w)
<1>1. w \in Nat /\ w % Align = 0 BY WantedNat, WantedGrid
<1>2. b \in h.free /\ b \in Int /\ b % Align = 0
  <2>1. b \in h.free BY DEF FirstFit
  <2>2. b \in Int BY <2>1 DEF HeapType, Addr
  <2> QED BY <2>1, <2>2 DEF OnGrid
<1> HIDE DEF w
<1>3. (b + w) % Align = 0
  <2>1. Align \in Nat \ {0} /\ w \in Int BY <1>1, HeapAssumption
  <2>2. w % Align = 0 /\ b % Align = 0 /\ b \in Int BY <1>1, <1>2
  <2> QED BY <2>1, <2>2, GridSum, Zenon
<1>4. g.free \subseteq h.free \cup {b + w}
  <2>1. CASE h.size[b] - w > MinBlock
    BY <2>1 DEF Carve
  <2>2. CASE ~(h.size[b] - w > MinBlock)
    <3>1. g.free = h.free \ {b} BY <2>2 DEF Carve, HeapType
    <3> QED BY <3>1
  <2> QED BY <2>1, <2>2
<1> HIDE DEF g
<1>5. \A c \in g.free \cup (used \cup {b}) : c \in h.free \cup used \/ c = b + w
  BY <1>2, <1>4
<1>6. OnGrid(g.free \cup (used \cup {b})) BY <1>3, <1>5, Zenon DEF OnGrid
<1> QED BY <1>6 DEF g, w

\* BytesCounted, of a heap and its used blocks, with n bytes that are counted
\* before their block is in the list.
Counts(h, used, n) == h.bytes = Total(h) + n /\ OnGrid(h.free \cup used)

\* BytesCounted, in the words of these lemmas.
LEMMA CountsIs == BytesCounted <=> heap.bytes = Total(heap) /\ OnGrid(heap.free \cup Used)
  BY DEF BytesCounted, OnGrid, Total, Sum

\* The sum of a heap is a number.
LEMMA TotalInt ==
    ASSUME NEW h \in HeapType
    PROVE  Total(h) \in Int /\ h.bytes \in Int
<1>1. IsFiniteSet(h.free) /\ \A b \in h.free : h.size[b] \in Int BY FreeIsFinite
<1>2. \A b \in h.free : h.size[b] \in Int /\ h.size[b] = h.size[b] BY <1>1
<1>3. Sum(h.size, h.free) \in Int BY <1>1, <1>2, SumSame
<1> QED BY <1>3 DEF Total, HeapType

\* pvPortMalloc, as a whole.
LEMMA CarveKeepsCount ==
    ASSUME NEW h \in HeapType, NEW used \in SUBSET Addr, Tiled(h, used), Linked(h),
           NEW n \in Nat, NEW b \in FirstFit(h, Wanted(n)), Counts(h, used, 0)
    PROVE  Counts(Carve(h, b, Wanted(n)), used \cup {b}, 0)
<1>1. h.bytes = Total(h) BY TotalInt DEF Counts
<1>2. Wanted(n) \in Nat BY WantedNat
<1>3. Carve(h, b, Wanted(n)).bytes = Total(Carve(h, b, Wanted(n)))
  BY <1>1, <1>2, CarveCounts
<1>4. OnGrid(Carve(h, b, Wanted(n)).free \cup (used \cup {b}))
  BY CarveGrid DEF Counts
<1>5. Carve(h, b, Wanted(n)) \in HeapType BY <1>2, CarveLemma DEF Sound
<1>6. Total(Carve(h, b, Wanted(n))) \in Int BY <1>5, TotalInt
<1> QED BY <1>3, <1>4, <1>6 DEF Counts

\* vPortFree, with n bytes of an outer call counted already.
LEMMA FreeKeepsCount ==
    ASSUME NEW h \in HeapType, NEW used \in SUBSET Addr, Tiled(h, used), Linked(h),
           NEW b \in used, NEW n \in Int, Counts(h, used, h.size[b] + n)
    PROVE  /\ Counts(Insert(h, b), used \ {b}, n)
           /\ \A c \in used \ {b} : Insert(h, b).size[c] = h.size[c]
<1> DEFINE g == Insert(h, b)
<1>1. /\ Total(g) = Total(h) + h.size[b] /\ g.bytes = h.bytes
      /\ g.free \subseteq h.free \cup {b}
      /\ \A c \in used \ {b} : g.size[c] = h.size[c]
  BY InsertCounts
<1>2. Total(h) \in Int /\ h.size[b] \in Int
  <2>1. Total(h) \in Int BY TotalInt
  <2>2. h.size[b] \in Nat BY DEF HeapType
  <2> QED BY <2>1, <2>2
<1> HIDE DEF g
<1>3. h.bytes = Total(h) + (h.size[b] + n) BY DEF Counts
<1>4. g.bytes = Total(g) + n BY <1>1, <1>2, <1>3
<1>5. \A c \in g.free \cup (used \ {b}) : c \in h.free \cup used BY <1>1
<1>6. OnGrid(g.free \cup (used \ {b})) BY <1>5, Zenon DEF OnGrid, Counts
<1> QED BY <1>1, <1>4, <1>6 DEF Counts, g

\* The bytes of b are counted.
LEMMA CountedCounts ==
    ASSUME NEW h \in HeapType, NEW used \in SUBSET Addr, NEW b \in used,
           NEW n \in Int, Counts(h, used, n)
    PROVE  /\ Counts(Counted(h, b), used, h.size[b] + n)
           /\ Counted(h, b).size = h.size
<1> DEFINE g == Counted(h, b)
<1>1. g.size = h.size /\ g.free = h.free /\ g.bytes = h.bytes + h.size[b]
  BY DEF Counted, HeapType
<1>2. Total(h) \in Int /\ h.bytes \in Int /\ h.size[b] \in Int
  <2>1. Total(h) \in Int /\ h.bytes \in Int BY TotalInt
  <2>2. h.size[b] \in Nat BY DEF HeapType
  <2> QED BY <2>1, <2>2
<1> HIDE DEF g
<1>3. Total(g) = Total(h) BY <1>1 DEF Total
<1>4. h.bytes = Total(h) + n BY DEF Counts
<1>5. g.bytes = Total(g) + (h.size[b] + n) BY <1>1, <1>2, <1>3, <1>4
<1>6. OnGrid(g.free \cup used) BY <1>1 DEF Counts
<1> QED BY <1>1, <1>5, <1>6 DEF Counts, g

\* vPortFree of a block, with nothing around it.
LEMMA FreeCounts ==
    ASSUME NEW h \in HeapType, NEW used \in SUBSET Addr, Tiled(h, used), Linked(h),
           NEW b \in used, NEW n \in Int, Counts(h, used, n)
    PROVE  /\ Counts(Insert(Counted(h, b), b), used \ {b}, n)
           /\ \A c \in used \ {b} : Insert(Counted(h, b), b).size[c] = h.size[c]
<1> DEFINE g == Counted(h, b)
<1>1. g \in HeapType /\ Tiled(g, used) /\ Linked(g) BY CountedLemma DEF Sound
<1>2. Counts(g, used, h.size[b] + n) /\ g.size = h.size BY CountedCounts
<1>3. Counts(g, used, g.size[b] + n) BY <1>2
<1> HIDE DEF g
<1>4. /\ Counts(Insert(g, b), used \ {b}, n)
      /\ \A c \in used \ {b} : Insert(g, b).size[c] = g.size[c]
  BY <1>1, <1>3, FreeKeepsCount
<1> QED BY <1>2, <1>4 DEF g

\* Fewer used blocks are aligned, too.
LEMMA CountsFewer ==
    ASSUME NEW h, NEW used, NEW few, few \subseteq used, NEW n, Counts(h, used, n)
    PROVE  Counts(h, few, n)
<1>1. \A c \in h.free \cup few : c \in h.free \cup used OBVIOUS
<1> QED BY <1>1, Zenon DEF Counts, OnGrid

-----------------------------------------------------------------------------
\* The invariant of the second induction.
Counting == Counts(heap, Used, 0)

\* The invariant of the induction below is BytesCounted.
LEMMA CountingIs == ASSUME TypeOK PROVE Counting <=> BytesCounted
<1>1. heap \in HeapType BY DEF TypeOK, HeapType
<1>2. Total(heap) \in Int BY <1>1, TotalInt
<1> QED BY <1>2, CountsIs DEF Counting, Counts

\* prvHeapInit counts its one block.
LEMMA CountInit == Init => Counting
<1> SUFFICES ASSUME Init PROVE Counting OBVIOUS
<1>0. IndInv BY InitInv
<1>1. 0 \in Addr /\ End \in Nat BY HeapAssumption DEF Addr
<1>2. heap.free = {0} /\ heap.size[0] = End /\ heap.bytes = End BY <1>1 DEF Init
<1>3. Used = {} BY DEF Init, Used
<1>4. Total(heap) = End
  <2>1. IsFiniteSet({}) /\ 0 \notin {} /\ \A y \in {} \cup {0} : heap.size[y] \in Int
    BY <1>1, <1>2, FS_EmptySet
  <2>2. Sum(heap.size, {} \cup {0}) = Sum(heap.size, {}) + heap.size[0]
    BY <2>1, SumAdd
  <2>3. {} \cup {0} = {0} OBVIOUS
  <2> QED BY <2>2, <2>3, <1>1, <1>2, SumEmpty DEF Total
<1>5. 0 % Align = 0
  <2>1. Align \in Nat \ {0} /\ 0 \in 0..(Align - 1) BY HeapAssumption
  <2>2. (Align * 0 + 0) % Align = 0 BY <2>1, ModUnique
  <2>3. Align * 0 + 0 = 0 BY <2>1
  <2> QED BY <2>2, <2>3
<1>6. OnGrid(heap.free \cup Used) BY <1>2, <1>3, <1>5 DEF OnGrid
<1> QED BY <1>1, <1>2, <1>4, <1>6 DEF Counting, Counts

\* pvPortMalloc, with the trace.
LEMMA AllocateCounts ==
    ASSUME IndInv, Counting, NEW t \in Threads, NEW n \in Nat, Allocate(t, n)
    PROVE  Counting'
<1>0. /\ heap \in HeapType /\ Used \in SUBSET Addr
      /\ Tiled(heap, Used) /\ Linked(heap) /\ Counts(heap, Used, 0)
      /\ NodeSize \in Nat /\ owner \in [Addr -> Threads \cup {Trace, NoThread}]
  BY HeapAssumption DEF IndInv, TypeOK, HeapType, HeapSound, Used, Counting
<1>1. ASSUME NEW m, OutOfMemory(m) PROVE Counting'
  BY <1>0, <1>1 DEF OutOfMemory, Counting, Used
<1>2. ASSUME NEW b \in FirstFit(heap, Wanted(n)),
             heap' = Carve(heap, b, Wanted(n)),
             owner' = [owner EXCEPT ![b] = t]
      PROVE  Counting'
  <2>1. Counts(heap', Used \cup {b}, 0) BY <1>0, <1>2, CarveKeepsCount
  <2>2. Used' \subseteq Used \cup {b} BY <1>0, <1>2 DEF Used
  <2> QED BY <2>1, <2>2, CountsFewer DEF Counting
<1>3. ASSUME NEW b \in FirstFit(heap, Wanted(n)),
             NEW d \in FirstFit(Carve(heap, b, Wanted(n)), Wanted(NodeSize)),
             heap' = Carve(Carve(heap, b, Wanted(n)), d, Wanted(NodeSize)),
             owner' = [owner EXCEPT ![b] = t, ![d] = Trace]
      PROVE  Counting'
  <2> DEFINE h == Carve(heap, b, Wanted(n))
  <2>1. Counts(h, Used \cup {b}, 0) BY <1>0, CarveKeepsCount
  <2>2. h \in HeapType /\ Tiled(h, Used \cup {b}) /\ Linked(h)
    BY <1>0, WantedNat, CarveLemma DEF Sound
  <2>3. Used \cup {b} \in SUBSET Addr
    BY <1>0 DEF FirstFit, HeapType
  <2>4. Used' \subseteq (Used \cup {b}) \cup {d} BY <1>0, <1>3 DEF Used
  <2>5. d \in FirstFit(h, Wanted(NodeSize)) /\ heap' = Carve(h, d, Wanted(NodeSize))
    BY <1>3
  <2> HIDE DEF h
  <2>6. Counts(heap', (Used \cup {b}) \cup {d}, 0)
    BY <1>0, <2>1, <2>2, <2>3, <2>5, CarveKeepsCount
  <2> QED BY <2>4, <2>6, CountsFewer DEF Counting
<1> QED BY <1>1, <1>2, <1>3 DEF Allocate

\* Every step keeps the count.
LEMMA CountNext == IndInv /\ Counting /\ [Next]_vars => Counting'
<1> SUFFICES ASSUME IndInv, Counting, [Next]_vars PROVE Counting' OBVIOUS
<1>0. /\ heap \in HeapType /\ Used \in SUBSET Addr
      /\ Tiled(heap, Used) /\ Linked(heap) /\ Counts(heap, Used, 0)
      /\ TypeOK /\ NodesAreOwned /\ HeldOK /\ Names
      /\ NodeSize \in Nat /\ Requests \subseteq Nat
      /\ owner \in [Addr -> Threads \cup {Trace, NoThread}] /\ 0 \in Int
  BY HeapAssumption, NamesDiffer
     DEF IndInv, TypeOK, HeapType, HeapSound, Used, Counting
<1>1. ASSUME NEW t \in Threads, NEW n \in Requests, Malloc(t, n) PROVE Counting'
  BY <1>0, <1>1, AllocateCounts DEF Malloc
<1>2. ASSUME NEW t \in Threads, NEW p \in Addr, NEW n \in Requests, Realloc(t, p, n)
      PROVE  Counting'
  BY <1>0, <1>2, AllocateCounts DEF Realloc
<1>3. ASSUME UNCHANGED <<heap, owner>> PROVE Counting'
  BY <1>0, <1>3 DEF Counting, Used
<1>4. ASSUME NEW t \in Threads, FreeInsert(t) PROVE Counting'
  <2> DEFINE b == ptr[t]
             nodes == NodesFreed(t, b)
  <2>1. /\ b \in Addr /\ owner[b] \in Threads /\ b \in Used
    <3>1. step[t] = "free" BY <1>4 DEF FreeInsert, Ready
    <3>2. /\ step[t] = "idle" <=> ptr[t] = NoAddr
          /\ ptr[t] # NoAddr => owner[ptr[t]] \in Threads
      BY <1>0, HeldFacts, Zenon
    <3>3. ptr[t] \in Addr \cup {NoAddr} BY <1>0 DEF TypeOK
    <3>4. ptr[t] \in Addr /\ owner[ptr[t]] \in Threads
      <4> HIDE DEF b, nodes
      <4> QED BY <3>1, <3>2, <3>3
    <3> QED BY <3>1, <3>4, <1>0 DEF Used, Names
  <2>2. \A d \in nodes : d \in Addr /\ owner[d] = Trace
    <3>1. ASSUME NEW d \in nodes PROVE d \in Addr /\ owner[d] = Trace
      <4>1. PICK e \in dict[t] : d = e.node BY DEF NodesFreed, Entry
      <4>2. e.node \in Addr /\ owner[e.node] = Trace BY <4>1, <1>0, NodeFacts
      <4> QED BY <4>1, <4>2
    <3> QED BY <3>1
  <2>3. /\ \/ nodes = {} /\ heap' = Insert(Counted(heap, b), b)
           \/ \E d \in nodes : heap' = Insert(Insert(Counted(Counted(heap, b), d), d), b)
        /\ owner' = [a \in Addr |-> IF a \in nodes \cup {b} THEN NoThread ELSE owner[a]]
    BY <1>4 DEF FreeInsert
  <2> HIDE DEF b, nodes
  <2>4. Used' = Used \ (nodes \cup {b}) BY <2>3 DEF Used
  <2>5. CASE nodes = {}
    <3>1. heap' = Insert(Counted(heap, b), b) /\ Used' = Used \ {b} BY <2>3, <2>4, <2>5
    <3>2. Counts(heap', Used \ {b}, 0) BY <3>1, <2>1, <1>0, FreeCounts
    <3> QED BY <3>1, <3>2 DEF Counting
  <2>6. ASSUME NEW d \in nodes,
               heap' = Insert(Insert(Counted(Counted(heap, b), d), d), b)
        PROVE  Counting'
    <3> DEFINE h == Counted(heap, b)
               k == Insert(Counted(h, d), d)
               size == heap.size[b]
    <3>1. d \in Used /\ d # b
      BY <2>1, <2>2, <1>0 DEF Used, Names
    <3>2. h \in HeapType /\ Tiled(h, Used) /\ Linked(h)
      BY <2>1, <1>0, CountedLemma DEF Sound
    <3>3. Counts(h, Used, size + 0) /\ h.size = heap.size BY <2>1, <1>0, CountedCounts
    <3>4. size \in Nat /\ size + 0 \in Int
      <4>1. size \in Nat BY <2>1, <1>0 DEF HeapType
      <4> HIDE DEF size
      <4> QED BY <4>1
    <3> HIDE DEF h
    <3>5. /\ Counts(k, Used \ {d}, size + 0)
          /\ \A c \in Used \ {d} : k.size[c] = h.size[c]
      <4> HIDE DEF size
      <4> QED BY <3>1, <3>2, <3>3, <3>4, <1>0, FreeCounts
    <3>6. k \in HeapType /\ Tiled(k, Used \ {d}) /\ Linked(k)
      BY <3>1, <3>2, <1>0, FreeLemma DEF Sound
    <3>7. k.size[b] = size
      <4> HIDE DEF k
      <4> QED BY <3>1, <3>3, <3>5, <2>1
    <3>8. heap' = Insert(k, b) BY <2>6 DEF h
    <3> HIDE DEF k, size
    <3>9. Counts(k, Used \ {d}, k.size[b] + 0) BY <3>5, <3>7
    <3>10. b \in Used \ {d} /\ Used \ {d} \in SUBSET Addr BY <3>1, <2>1, <1>0
    <3>11. Counts(heap', (Used \ {d}) \ {b}, 0)
      BY <3>6, <3>8, <3>9, <3>10, <1>0, FreeKeepsCount
    <3>12. Used' \subseteq (Used \ {d}) \ {b} BY <2>4, <2>6
    <3> QED BY <3>11, <3>12, CountsFewer DEF Counting
  <2> QED BY <2>3, <2>5, <2>6
<1>5. ASSUME NEW t \in Threads, EnableTrace(t) PROVE Counting'
  <2>1. CASE OutOfMemory(NodeSize) BY <2>1, <1>3 DEF OutOfMemory
  <2>2. ASSUME NEW d \in FirstFit(heap, Wanted(NodeSize)),
               heap' = Carve(heap, d, Wanted(NodeSize)),
               owner' = [owner EXCEPT ![d] = Trace]
        PROVE  Counting'
    <3>1. Counts(heap', Used \cup {d}, 0) BY <1>0, <2>2, CarveKeepsCount
    <3>2. Used' \subseteq Used \cup {d} BY <1>0, <2>2 DEF Used
    <3> QED BY <3>1, <3>2, CountsFewer DEF Counting
  <2> QED BY <2>1, <2>2, <1>5 DEF EnableTrace
<1>6. ASSUME NEW t \in Threads, NEW d \in Addr, owner[d] = Trace,
             heap' = Insert(Counted(heap, d), d),
             owner' = [owner EXCEPT ![d] = NoThread]
      PROVE  Counting'
  <2>1. d \in Used BY <1>0, <1>6 DEF Used, Names
  <2>2. Counts(heap', Used \ {d}, 0) BY <2>1, <1>0, <1>6, FreeCounts
  <2>3. Used' \subseteq Used \ {d} BY <1>0, <1>6 DEF Used
  <2> QED BY <2>2, <2>3, CountsFewer DEF Counting
<1>7. ASSUME NEW t \in Threads, EraseEntry(t) PROVE Counting'
  <2>1. PICK e \in dict[t] :
           /\ heap' = Insert(Counted(heap, e.node), e.node)
           /\ owner' = [owner EXCEPT ![e.node] = NoThread]
    BY <1>7 DEF EraseEntry
  <2>2. e.node \in Addr /\ owner[e.node] = Trace BY <1>0, NodeFacts
  <2> QED BY <2>1, <2>2, <1>6
<1>8. ASSUME NEW t \in Threads, EraseThread(t) PROVE Counting'
  <2>1. /\ heap' = Insert(Counted(heap, root[t]), root[t])
        /\ owner' = [owner EXCEPT ![root[t]] = NoThread]
        /\ untracing = t
    BY <1>8 DEF EraseThread
  <2>2. root[t] \in Addr /\ owner[root[t]] = Trace
    <3>1. IsTraced(t) BY <1>0, <2>1 DEF HeldOK, Names
    <3> QED BY <3>1, <1>0, NodeFacts
  <2> QED BY <2>1, <2>2, <1>6
<1>9. ASSUME NEW t \in Threads, NEW p \in Addr, Free(t, p) \/ DisableTrace(t) PROVE Counting'
  BY <1>3, <1>9 DEF Free, DisableTrace
<1>10. ASSUME NEW t \in Threads, DisableTrace(t) PROVE Counting'
  BY <1>3, <1>10 DEF DisableTrace
<1>11. CASE UNCHANGED vars BY <1>3, <1>11 DEF vars
<1> QED BY <1>1, <1>2, <1>4, <1>5, <1>7, <1>8, <1>9, <1>10, <1>11 DEF Next

-----------------------------------------------------------------------------
\* The invariant holds in every behaviour.
LEMMA Invariance == Spec => []IndInv
  BY InitInv, NextInv, PTL DEF Spec

(***************************************************************************)
(* The list, the headers, the trace's dictionaries and the threads' calls  *)
(* keep their types.                                                       *)
(***************************************************************************)
THEOREM TypeCorrect == Spec => []TypeOK
<1>1. IndInv => TypeOK BY DEF IndInv
<1> QED BY <1>1, Invariance, PTL

(***************************************************************************)
(* Whatever is allocated, reallocated, freed by any thread, and traced in  *)
(* between, the blocks of memmgr_heap.c tile the heap without overlap and  *)
(* the free ones are all in the list, in order and merged.                 *)
(***************************************************************************)
THEOREM HeapStaysSound == Spec => []HeapSound
<1>1. IndInv => HeapSound BY DEF IndInv
<1> QED BY <1>1, Invariance, PTL

(***************************************************************************)
(* traceMALLOC and traceFREE neither lose nor share a dictionary node,     *)
(* although they allocate and free it in the middle of a call of the heap. *)
(***************************************************************************)
THEOREM TraceKeepsNodes == Spec => []NodesAreOwned
<1>1. IndInv => NodesAreOwned BY DEF IndInv
<1> QED BY <1>1, Invariance, PTL

(***************************************************************************)
(* xFreeBytesRemaining stays the sum of the blocks in the list and every   *)
(* header stays aligned, through splits, merges and the nested calls of    *)
(* the trace, which count the outer block before they free the inner one.  *)
(***************************************************************************)
THEOREM BytesStayCounted == Spec => []BytesCounted
<1>1. Spec => []Counting
  BY CountInit, CountNext, Invariance, PTL DEF Spec
<1>2. IndInv /\ Counting => BytesCounted BY CountingIs DEF IndInv
<1> QED BY <1>1, <1>2, Invariance, PTL

(***************************************************************************)
(* There is no leftover fragmentation: once every block has been given     *)
(* back, the heap is the one free block that prvHeapInit made of it.       *)
(***************************************************************************)
WholeWhenUnused == Used = {} => heap.free = {0} /\ heap.size[0] = End

THEOREM AllFreedIsWhole == Spec => []WholeWhenUnused
<1>1. IndInv => WholeWhenUnused
  <2> SUFFICES ASSUME IndInv, Used = {} PROVE heap.free = {0} /\ heap.size[0] = End
    BY DEF WholeWhenUnused
  <2>1. /\ heap \in HeapType /\ Used \in SUBSET Addr
        /\ Tiled(heap, Used) /\ Linked(heap)
    BY DEF IndInv, TypeOK, HeapType, HeapSound
  <2>2. /\ End \in Nat /\ heap.free \subseteq Addr /\ heap.size \in [Addr -> Nat]
        /\ 0 \in heap.free /\ 0 # Start
        /\ \A b, c \in heap.free : b < c => b + heap.size[b] <= c
    <3>1. 0 \in heap.free BY <2>1 DEF Tiled
    <3> QED BY <3>1, <2>1, Facts DEF Start
  <2>3. 0 + heap.size[0] \in heap.free \cup {End} /\ 0 + heap.size[0] \notin heap.free
    BY <2>1, <2>2 DEF Tiled, Linked
  <2>4. heap.size[0] = End BY <2>2, <2>3
  <2>5. \A b \in heap.free : b = 0 BY <2>2, <2>4 DEF Addr
  <2> QED BY <2>2, <2>4, <2>5
<1> QED BY <1>1, Invariance, PTL

-----------------------------------------------------------------------------
(***************************************************************************)
(* The refinement of Allocator: every operation on the list is one on the  *)
(* set of blocks in use.                                                   *)
(***************************************************************************)
\* Header and padding: what a call asks of the list, and when it does.
LEMMA WantedBounds ==
    ASSUME NEW n \in Nat
    PROVE  /\ Wanted(n) > 0 => /\ n > 0 /\ n + Header <= Wanted(n)
                               /\ Wanted(n) <= n + Header + Align - 1
           /\ n > 0 /\ n + Header + Align - 1 <= SizeMax => Wanted(n) > 0
<1> DEFINE sum == n + Header
           pad == (Align - (sum % Align)) % Align
<1>1. n \in Nat /\ Header \in Nat \ {0} /\ Align \in Nat \ {0} /\ SizeMax \in Nat
  BY HeapAssumption
<1>2. sum \in Nat BY <1>1
<1>3. pad \in 0..(Align - 1)
  <2> HIDE DEF sum
  <2>1. sum % Align \in 0..(Align - 1) BY <1>1, <1>2
  <2> DEFINE x == Align - (sum % Align)
  <2>2. x \in Nat BY <1>1, <2>1
  <2> HIDE DEF x
  <2>3. x % Align \in 0..(Align - 1) BY <2>2, <1>1
  <2> QED BY <2>3 DEF x
<1>4. Wanted(n) = IF n = 0 \/ sum + pad > SizeMax THEN 0 ELSE sum + pad BY DEF Wanted
<1>5. sum = n + Header OBVIOUS
<1> HIDE DEF sum, pad
<1> QED BY <1>1, <1>3, <1>4, <1>5

\* Every address lies in a block.
LEMMA Covered ==
    ASSUME NEW h \in HeapType, NEW used \in SUBSET Addr, Tiled(h, used), Linked(h),
           NEW a \in Addr
    PROVE  \E b \in h.free \cup used : b <= a /\ a < b + h.size[b]
<1> DEFINE all == h.free \cup used
           T == {a - b : b \in {c \in all : c <= a}}
<1>0. /\ End \in Nat /\ all \subseteq Addr /\ a \in 0..(End - 1)
      /\ \A b \in Addr : h.size[b] \in Nat /\ b \in Nat
  <2>1. End \in Nat /\ h.free \subseteq Addr /\ h.size \in [Addr -> Nat] BY Facts
  <2>2. all \subseteq Addr BY <2>1
  <2>3. \A b \in Addr : h.size[b] \in Nat BY <2>1
  <2>4. a \in 0..(End - 1) /\ \A b \in Addr : b \in Nat BY DEF Addr
  <2> HIDE DEF all
  <2> QED BY <2>1, <2>2, <2>3, <2>4
<1>t. /\ 0 \in all
      /\ \A b \in all : h.size[b] > 0 /\ b + h.size[b] \in all \cup {End}
  BY DEF Tiled
<1> HIDE DEF all
<1>1. T \subseteq Nat /\ T # {}
  <2>1. T \subseteq Nat BY <1>0
  <2>2. a - 0 \in T BY <1>0, <1>t
  <2> QED BY <2>1, <2>2
<1>2. PICK x \in T : \A y \in T : x <= y
  <2> HIDE DEF T
  <2> QED BY <1>1, Smallest
<1>3. PICK b \in all : b <= a /\ x = a - b BY <1>2
<1>4. ASSUME NEW c \in all, c <= a PROVE c <= b
  <2>1. a - c \in T BY <1>4
  <2>2. a - b <= a - c BY <2>1, <1>2, <1>3
  <2>3. a \in Int /\ b \in Int /\ c \in Int BY <1>0
  <2> QED BY <2>2, <2>3
<1>5. b \in Nat /\ h.size[b] \in Nat /\ h.size[b] > 0 BY <1>0, <1>t
<1>6. a < b + h.size[b]
  <2> DEFINE c == b + h.size[b]
  <2>1. SUFFICES ASSUME ~(a < c) PROVE FALSE OBVIOUS
  <2>2. c \in Nat /\ c > b BY <1>5
  <2>3. c \in all \cup {End} BY <1>t
  <2> HIDE DEF c
  <2>4. c <= a /\ c # End BY <2>1, <2>2, <1>0
  <2>5. c <= b BY <2>3, <2>4, <1>4
  <2> QED BY <2>2, <2>5, <1>5
<1> QED BY <1>3, <1>6 DEF all

\* Free memory is in one piece wherever it can be: where there is room between
\* the used blocks, there is a free block of that size.
LEMMA Room ==
    ASSUME NEW h \in HeapType, NEW used \in SUBSET Addr, Tiled(h, used), Linked(h),
           NEW p \in Nat \ {0}, NEW a \in 0..(End - p),
           \A c \in used : a + p <= c \/ c + h.size[c] <= a
    PROVE  \E b \in h.free : h.size[b] >= p
<1>0. /\ End \in Nat /\ a \in Nat /\ p \in Nat /\ p > 0 /\ a + p <= End /\ a \in Addr
      /\ \A b \in Addr : h.size[b] \in Nat /\ b \in Nat
      /\ h.free \subseteq Addr
  BY Facts DEF Addr
<1>1. PICK b \in h.free \cup used : b <= a /\ a < b + h.size[b]
  BY <1>0, Covered
<1>2. b \in Addr /\ b \in Nat /\ h.size[b] \in Nat BY <1>0
<1>3. b \notin used
  BY <1>0, <1>1, <1>2
<1>4. b + h.size[b] >= a + p
  <2> DEFINE c == b + h.size[b]
  <2>1. SUFFICES ASSUME ~(c >= a + p) PROVE FALSE OBVIOUS
  <2>2. c \in Nat /\ c > a BY <1>1, <1>2, <1>0
  <2>3. c \in h.free \cup used \cup {End} BY DEF Tiled
  <2>4. c \notin h.free
    <3>1. b # Start BY <1>2 DEF Start
    <3> QED BY <3>1, <1>1, <1>3 DEF Linked
  <2> HIDE DEF c
  <2>5. c < a + p BY <2>1, <2>2, <1>0
  <2>6. c # End BY <2>5, <2>2, <1>0
  <2>7. c \in used BY <2>3, <2>4, <2>6
  <2>8. c + h.size[c] <= a BY <2>5, <2>7, <2>2, <1>0
  <2>9. h.size[c] \in Nat BY <2>7, <1>0
  <2> QED BY <2>2, <2>8, <2>9, <1>0
<1>5. h.size[b] >= p BY <1>0, <1>1, <1>2, <1>4
<1> QED BY <1>1, <1>3, <1>5

\* Sums of natural numbers are natural numbers.
LEMMA SumNat ==
    ASSUME NEW S, IsFiniteSet(S), NEW f, \A x \in S : f[x] \in Nat
    PROVE  Sum(f, S) \in Nat
<1> DEFINE F == {s \in SUBSET S : Sum(f, s) \notin Nat}
<1>1. SUFFICES ASSUME F # {} PROVE FALSE
  BY Zenon
<1>2. \A s \in F : IsFiniteSet(s) BY FS_Subset
<1>3. PICK s \in F : \A t \in F : Cardinality(s) <= Cardinality(t)
  <2> HIDE DEF F
  <2> QED BY <1>1, <1>2, SmallestSet
<1>4. s # {} BY <1>3, SumEmpty
<1>5. PICK y \in s : TRUE BY <1>4
<1>6. IsFiniteSet(s) /\ s \in SUBSET S /\ Sum(f, s) \notin Nat BY <1>2, <1>3
<1>7. f[y] \in Nat /\ \A x \in s : f[x] \in Int BY <1>5, <1>6
<1>8. /\ Sum(f, s \ {y}) \in Int
      /\ Sum(f, s) = Sum(f, s \ {y}) + f[y]
  BY <1>5, <1>6, <1>7, SumRemove
<1>9. s \ {y} \notin F
  <2>1. Cardinality(s \ {y}) = Cardinality(s) - 1 /\ Cardinality(s) \in Nat
    BY <1>5, <1>6, FS_RemoveElement, FS_CardinalityType
  <2>2. ~(Cardinality(s) <= Cardinality(s \ {y})) BY <2>1
  <2> QED BY <2>2, <1>3, Zenon
<1>10. s \ {y} \in SUBSET S BY <1>6
<1>11. Sum(f, s \ {y}) \in Nat BY <1>9, <1>10
<1> DEFINE r == Sum(f, s \ {y})
           u == Sum(f, s)
<1>12. r \in Nat /\ u = r + f[y] BY <1>8, <1>11
<1> HIDE DEF r, u
<1>13. u \in Nat BY <1>7, <1>12
<1> QED BY <1>6, <1>13 DEF u

\* No free block is larger than all of them together.
LEMMA TotalAtLeast ==
    ASSUME NEW h \in HeapType, NEW b \in h.free
    PROVE  Total(h) >= h.size[b]
<1>1. IsFiniteSet(h.free) /\ \A c \in h.free : h.size[c] \in Int BY FreeIsFinite
<1>2. \A c \in h.free : h.size[c] \in Nat
  <2>1. h.free \subseteq Addr /\ h.size \in [Addr -> Nat] BY DEF HeapType
  <2> QED BY <2>1
<1>3. Sum(h.size, h.free) = Sum(h.size, h.free \ {b}) + h.size[b]
  BY <1>1, SumRemove
<1>4. Sum(h.size, h.free \ {b}) \in Nat
  <2>1. IsFiniteSet(h.free \ {b}) BY <1>1, FS_Subset
  <2>2. \A c \in h.free \ {b} : h.size[c] \in Nat BY <1>2
  <2> HIDE DEF HeapType
  <2> QED BY <2>1, <2>2, SumNat
<1> DEFINE r == Sum(h.size, h.free \ {b})
           u == Sum(h.size, h.free)
           s == h.size[b]
<1>5. u = r + s /\ r \in Nat /\ s \in Nat BY <1>2, <1>3, <1>4
<1> HIDE DEF r, u, s
<1>6. u >= s BY <1>5
<1> QED BY <1>6 DEF u, s, Total

-----------------------------------------------------------------------------
\* HeldBlocks, of a heap, its used blocks and their owners.
Blocks(h, used, own) == {[at |-> c, size |-> h.size[c], by |-> own[c]] : c \in used}

\* pvPortMalloc fails only when there is no room.
LEMMA FullWhenNone ==
    ASSUME NEW h \in HeapType, NEW used \in SUBSET Addr, Tiled(h, used), Linked(h),
           Counts(h, used, 0), NEW own, NEW n \in Nat, FirstFit(h, Wanted(n)) = {}
    PROVE  Promise!Full(Blocks(h, used, own), n)
<1> DEFINE p == n + Header + Align - 1
           w == Wanted(n)
<1>0. /\ p \in Nat \ {0} /\ n \in Nat /\ SizeMax \in Nat /\ w \in Nat
      /\ SizeMax \div 2 \in Nat /\ SizeMax \div 2 <= SizeMax
  BY HeapAssumption, WantedNat
<1>1. SUFFICES ASSUME n > 0, p <= SizeMax \div 2, NEW a \in 0..(End - p),
                      \A b \in Blocks(h, used, own) : Promise!Outside(b, a, p)
               PROVE  FALSE
  BY <1>0 DEF Promise!Full, Promise!Padded
<1>2. w > 0 /\ w <= p
  <2>1. n + Header + Align - 1 <= SizeMax BY <1>0, <1>1
  <2>2. Wanted(n) > 0 BY <1>1, <2>1, WantedBounds
  <2> QED BY <2>2, WantedBounds
<1>3. \A c \in used : a + p <= c \/ c + h.size[c] <= a
  <2>1. SUFFICES ASSUME NEW c \in used PROVE a + p <= c \/ c + h.size[c] <= a
    OBVIOUS
  <2> DEFINE r == [at |-> c, size |-> h.size[c], by |-> own[c]]
  <2>2. r \in Blocks(h, used, own) BY DEF Blocks
  <2>3. Promise!Outside(r, a, p) BY <1>1, <2>2
  <2>4. r.at = c /\ r.size = h.size[c] OBVIOUS
  <2> HIDE DEF r, p
  <2> QED BY <2>3, <2>4 DEF Promise!Outside
<1> HIDE DEF p, w
<1>4. \E b \in h.free : h.size[b] >= p BY <1>0, <1>1, <1>3, Room
<1>5. h.free \subseteq Nat /\ \A c \in h.free : h.size[c] \in Nat
  <2>1. h.free \subseteq Addr /\ h.size \in [Addr -> Nat] BY DEF HeapType
  <2>2. Addr \subseteq Nat BY DEF Addr
  <2> QED BY <2>1, <2>2
<1> DEFINE T == {c \in h.free : h.size[c] >= w}
<1>6. T \subseteq Nat /\ T # {} BY <1>0, <1>2, <1>4, <1>5
<1>7. PICK b \in T : \A c \in T : b <= c
  <2> HIDE DEF T
  <2> QED BY <1>6, Smallest
<1>8. b \in h.free /\ h.size[b] >= w /\ \A c \in h.free : c < b => h.size[c] < w
  <2>1. b \in h.free /\ h.size[b] >= w OBVIOUS
  <2>2. ASSUME NEW c \in h.free, c < b PROVE h.size[c] < w
    <3>1. c \notin T BY <1>5, <1>7, <2>1, <2>2
    <3>2. ~(h.size[c] >= w) BY <3>1
    <3> QED BY <3>2, <1>0, <1>5
  <2> QED BY <2>1, <2>2
<1> HIDE DEF T
<1>9. w <= h.bytes
  <2>1. Total(h) >= h.size[b] BY <1>8, TotalAtLeast
  <2>2. Total(h) \in Int /\ h.bytes = Total(h) + 0 BY TotalInt DEF Counts
  <2>3. h.size[b] \in Nat BY <1>5, <1>8
  <2> QED BY <2>1, <2>2, <2>3, <1>0, <1>8
<1>10. w <= SizeMax \div 2 BY <1>0, <1>1, <1>2
<1>11. b \in FirstFit(h, w) BY <1>2, <1>8, <1>9, <1>10 DEF FirstFit
<1> QED BY <1>11 DEF w

\* Splitting leaves the blocks in use as they are, and gives the new one what
\* was asked for, or a little more.
LEMMA CarveSizes ==
    ASSUME NEW h \in HeapType, NEW used \in SUBSET Addr, Tiled(h, used), Linked(h),
           NEW w \in Nat, NEW b \in FirstFit(h, w)
    PROVE  /\ b \in Addr /\ b \notin used
           /\ \A c \in used : Carve(h, b, w).size[c] = h.size[c]
           /\ w > 0 /\ Carve(h, b, w).size[b] \in Nat
           /\ w <= Carve(h, b, w).size[b] /\ Carve(h, b, w).size[b] <= w + MinBlock
<1> DEFINE g == Carve(h, b, w)
           s == h.size[b]
           rest == b + w
<1>1. b \in h.free /\ w > 0 /\ s >= w BY DEF FirstFit
<1>2. /\ h.free \subseteq Addr /\ h.size \in [Addr -> Nat] /\ Addr \subseteq Int
      /\ MinBlock \in Nat
  BY HeapAssumption DEF HeapType, Addr, MinBlock
<1>3. b \in Addr /\ b \in Int /\ s \in Nat BY <1>1, <1>2
<1>4. b \notin used BY <1>1 DEF Tiled
<1>5. CASE s - w > MinBlock
  <2>1. g.size = [h.size EXCEPT ![b] = w, ![rest] = s - w] BY <1>5 DEF Carve
  <2> HIDE DEF g
  <2>2. rest # b /\ b < rest /\ rest < b + s BY <1>1, <1>2, <1>3, <1>5
  <2>3. rest \notin used BY <1>1, <2>2 DEF Tiled
  <2> HIDE DEF rest, s
  <2>4. g.size[b] = w BY <2>1, <2>2, <1>2, <1>3
  <2>5. ASSUME NEW c \in used PROVE g.size[c] = h.size[c]
    <3>1. c \in Addr /\ c # b /\ c # rest BY <2>3, <1>4
    <3> QED BY <3>1, <2>1, <1>2
  <2>6. w <= w + MinBlock BY <1>2
  <2> QED BY <2>4, <2>5, <2>6, <1>1, <1>3, <1>4 DEF g
<1>6. CASE ~(s - w > MinBlock)
  <2>1. g.size = h.size BY <1>6 DEF Carve, HeapType
  <2> HIDE DEF g
  <2>2. s <= w + MinBlock BY <1>2, <1>3, <1>6
  <2> QED BY <2>1, <2>2, <1>1, <1>3, <1>4 DEF g
<1> QED BY <1>5, <1>6

\* The block pvPortMalloc takes is one the caller may be given.
LEMMA Served ==
    ASSUME NEW h \in HeapType, NEW used \in SUBSET Addr, Tiled(h, used), Linked(h),
           Counts(h, used, 0), NEW own, NEW n \in Nat,
           NEW b \in FirstFit(h, Wanted(n)), NEW u \in Threads \cup {Trace}
    PROVE  Promise!Serves([at |-> b, size |-> Carve(h, b, Wanted(n)).size[b], by |-> u],
                          u, n, Blocks(h, used, own))
<1> DEFINE g == Carve(h, b, Wanted(n))
           r == [at |-> b, size |-> g.size[b], by |-> u]
<1>1. Wanted(n) \in Nat BY WantedNat
<1>2. Sound(g, used \cup {b}) BY <1>1, CarveLemma
<1>3. /\ b \in Addr /\ b \notin used
      /\ \A c \in used : g.size[c] = h.size[c]
      /\ Wanted(n) > 0 /\ g.size[b] \in Nat
      /\ Wanted(n) <= g.size[b] /\ g.size[b] <= Wanted(n) + MinBlock
  BY <1>1, CarveSizes
<1>4. n > 0 /\ n + Header <= Wanted(n) /\ Wanted(n) <= n + Header + Align - 1
  BY <1>3, WantedBounds
<1>5. Header \in Nat /\ Align \in Nat /\ MinBlock \in Nat /\ End \in Nat
  BY HeapAssumption DEF MinBlock
<1>6. b % Align = 0
  <2>1. b \in h.free BY DEF FirstFit
  <2> QED BY <2>1 DEF Counts, OnGrid
<1> HIDE DEF g
<1>7. /\ b + g.size[b] <= End
      /\ \A c \in used : /\ b < c => b + g.size[b] <= c
                         /\ c < b => c + g.size[c] <= b
  <2>1. g \in HeapType /\ used \cup {b} \in SUBSET Addr /\ Tiled(g, used \cup {b}) /\ Linked(g)
    BY <1>2, <1>3 DEF Sound
  <2>2. /\ \A c \in g.free \cup (used \cup {b}) : c + g.size[c] <= End
        /\ \A c, d \in g.free \cup (used \cup {b}) : c < d => c + g.size[c] <= d
    BY <2>1, Facts
  <2> QED BY <2>2
<1>8. n + Header <= g.size[b] /\ g.size[b] <= n + Header + Align - 1 + MinBlock
  BY <1>1, <1>3, <1>4, <1>5
<1>9. r.at = b /\ r.size = g.size[b] /\ r.by = u OBVIOUS
<1>10. r \in Promise!Block
  <2>1. b \in 0..(End - 1) BY <1>3 DEF Addr
  <2>2. g.size[b] \in 1..End BY <2>1, <1>3, <1>1, <1>5, <1>7
  <2> QED BY <2>1, <2>2 DEF Promise!Block
<1>11. \A c \in Blocks(h, used, own) : Promise!Outside(c, b, g.size[b])
  <2>1. SUFFICES ASSUME NEW c \in used
                 PROVE  b + g.size[b] <= c \/ c + h.size[c] <= b
    BY DEF Blocks, Promise!Outside
  <2>2. c \in Int /\ b \in Int /\ c # b BY <1>3 DEF Addr
  <2>3. c < b \/ b < c BY <2>2
  <2> QED BY <2>3, <1>3, <1>7
<1> HIDE DEF r
<1>12. Promise!Serves(r, u, n, Blocks(h, used, own))
  BY <1>4, <1>6, <1>7, <1>8, <1>9, <1>10, <1>11 DEF Promise!Serves, Promise!Padded
<1> QED BY <1>12 DEF r, g

\* The entry of a block among those in use.
Rec(h, b, u) == [at |-> b, size |-> h.size[b], by |-> u]

\* The blocks of a set have the same sizes and owners.
SameBlocks(h, g, S, own, own2) == \A c \in S : g.size[c] = h.size[c] /\ own2[c] = own[c]

\* A block is added to those in use ...
LEMMA BlocksAdded ==
    ASSUME NEW h, NEW g, NEW used, NEW own, NEW own2, NEW b, b \notin used,
           SameBlocks(h, g, used, own, own2)
    PROVE  /\ Blocks(g, used \cup {b}, own2) = Blocks(h, used, own) \cup {Rec(g, b, own2[b])}
           /\ Rec(g, b, own2[b]) \notin Blocks(h, used, own)
<1>1. \A c \in used : Rec(g, c, own2[c]) = Rec(h, c, own[c])
  BY DEF SameBlocks, Rec
<1>2. \A x : x \in Blocks(g, used \cup {b}, own2) <=>
             x \in Blocks(h, used, own) \cup {Rec(g, b, own2[b])}
  BY <1>1 DEF Blocks, Rec
<1>3. \A x \in Blocks(h, used, own) : x.at # b BY DEF Blocks
<1>4. Rec(g, b, own2[b]).at = b BY DEF Rec
<1> QED BY <1>2, <1>3, <1>4

\* ... or taken out of them.
LEMMA BlocksRemoved ==
    ASSUME NEW h, NEW g, NEW used, NEW own, NEW own2, NEW b \in used,
           \A c \in used \ {b} : g.size[c] = h.size[c] /\ own2[c] = own[c]
    PROVE  Blocks(g, used \ {b}, own2) =
               Blocks(h, used, own) \ {[at |-> b, size |-> h.size[b], by |-> own[b]]}
<1>1. \A c \in used \ {b} : [at |-> c, size |-> g.size[c], by |-> own2[c]] =
                            [at |-> c, size |-> h.size[c], by |-> own[c]]
  OBVIOUS
<1>2. \A c \in used \ {b} : [at |-> c, size |-> h.size[c], by |-> own[c]] #
                            [at |-> b, size |-> h.size[b], by |-> own[b]]
  <2>1. \A c \in used \ {b} : /\ [at |-> c, size |-> h.size[c], by |-> own[c]].at = c
                              /\ [at |-> b, size |-> h.size[b], by |-> own[b]].at = b
    OBVIOUS
  <2> QED BY <2>1
<1>3. \A x : x \in Blocks(g, used \ {b}, own2) <=>
         x \in Blocks(h, used, own) \ {[at |-> b, size |-> h.size[b], by |-> own[b]]}
  BY <1>1, <1>2 DEF Blocks
<1> QED BY <1>3

-----------------------------------------------------------------------------
\* HeldBlocks, in the words of these lemmas.
LEMMA HeldIs == HeldBlocks = Blocks(heap, Used, owner)
BY DEF HeldBlocks, Blocks

\* Block b is taken for n bytes, and belongs to u from then on.
Takes(h, n, b, g) == b \in FirstFit(h, Wanted(n)) /\ g = Carve(h, b, Wanted(n))
Owns(own, b, u, own2) == own2 = [own EXCEPT ![b] = u]

\* pvPortMalloc, without the trace: the new block is held as well.
LEMMA Granted ==
    ASSUME NEW h \in HeapType, NEW used \in SUBSET Addr, Tiled(h, used), Linked(h),
           Counts(h, used, 0), NEW own \in [Addr -> Threads \cup {Trace, NoThread}],
           NEW n \in Nat,
           NEW b, NEW g, Takes(h, n, b, g),
           NEW u \in Threads \cup {Trace}, NEW own2, Owns(own, b, u, own2)
    PROVE  /\ g \in HeapType /\ used \cup {b} \in SUBSET Addr
           /\ Tiled(g, used \cup {b}) /\ Linked(g)
           /\ Counts(g, used \cup {b}, 0)
           /\ b \in Addr /\ b \notin used
           /\ Promise!Serves(Rec(g, b, u), u, n, Blocks(h, used, own))
           /\ Blocks(g, used \cup {b}, own2) = Blocks(h, used, own) \cup {Rec(g, b, u)}
           /\ Rec(g, b, u) \notin Blocks(h, used, own)
<1>1. Wanted(n) \in Nat BY WantedNat
<1>2. g \in HeapType /\ Tiled(g, used \cup {b}) /\ Linked(g)
  BY <1>1, CarveLemma DEF Sound, Takes
<1>3. Counts(g, used \cup {b}, 0) BY CarveKeepsCount DEF Takes
<1>4. b \in Addr /\ b \notin used /\ \A c \in used : g.size[c] = h.size[c]
  BY <1>1, CarveSizes DEF Takes
<1>5. Promise!Serves(Rec(g, b, u), u, n, Blocks(h, used, own)) BY Served DEF Rec, Takes
<1>6. own2[b] = u /\ \A c \in used : own2[c] = own[c] BY <1>4 DEF Owns
<1>7. used \cup {b} \in SUBSET Addr BY <1>4
<1>8. /\ Blocks(g, used \cup {b}, own2) = Blocks(h, used, own) \cup {Rec(g, b, u)}
      /\ Rec(g, b, u) \notin Blocks(h, used, own)
  <2>1. b \notin used /\ SameBlocks(h, g, used, own, own2)
    BY <1>4, <1>6 DEF SameBlocks
  <2>2. /\ Blocks(g, used \cup {b}, own2) = Blocks(h, used, own) \cup {Rec(g, b, own2[b])}
        /\ Rec(g, b, own2[b]) \notin Blocks(h, used, own)
    BY <2>1, BlocksAdded
  <2>3. own2[b] = u BY <1>6
  <2> QED BY <2>2, <2>3
<1> QED BY <1>2, <1>3, <1>4, <1>5, <1>7, <1>8

\* The blocks of a set have the same sizes in two heaps.
SameSizes(g, h, S) == \A c \in S : g.size[c] = h.size[c]

\* Block b is put back.
Puts(h, b, g) == g = Insert(Counted(h, b), b)

\* vPortFree, without the trace: the block is held no more.
LEMMA Returned ==
    ASSUME NEW h \in HeapType, NEW used \in SUBSET Addr, Tiled(h, used), Linked(h),
           NEW b \in used, NEW g, Puts(h, b, g)
    PROVE  /\ g \in HeapType /\ Tiled(g, used \ {b}) /\ Linked(g)
           /\ SameSizes(g, h, used \ {b})
<1> DEFINE c0 == Counted(h, b)
<1>0. g = Insert(c0, b) BY DEF Puts
<1>1. c0 \in HeapType /\ Tiled(c0, used) /\ Linked(c0) BY CountedLemma DEF Sound
<1>2. c0.size = h.size BY DEF Counted, HeapType
<1> HIDE DEF c0
<1>3. g \in HeapType /\ Tiled(g, used \ {b}) /\ Linked(g) BY <1>0, <1>1, InsertLemma DEF Sound
<1>4. \A c \in used \ {b} : g.size[c] = h.size[c] BY <1>0, <1>1, <1>2, InsertCounts
<1> QED BY <1>3, <1>4 DEF SameSizes

\* Owners of other blocks do not matter.
LEMMA BlocksSame ==
    ASSUME NEW h, NEW used, NEW own, NEW own2, \A c \in used : own2[c] = own[c]
    PROVE  Blocks(h, used, own2) = Blocks(h, used, own)
BY DEF Blocks

-----------------------------------------------------------------------------
\* An allocation, with what the trace does, is one of Allocator.
LEMMA AllocateMaps ==
    ASSUME IndInv, Counting, NEW t \in Threads, NEW n \in Requests, Allocate(t, n),
           Given' = Given
    PROVE  Promise!Allocate(t, n)
<1>0. /\ heap \in HeapType /\ Used \in SUBSET Addr
      /\ Tiled(heap, Used) /\ Linked(heap) /\ Counts(heap, Used, 0)
      /\ owner \in [Addr -> Threads \cup {Trace, NoThread}] /\ Names
      /\ NodeSize \in Nat /\ n \in Nat
      /\ \A a \in Addr : a \notin Used <=> owner[a] = NoThread
  BY HeapAssumption, NamesDiffer
     DEF IndInv, TypeOK, HeapType, HeapSound, Used, Counting
<1>1. CASE FirstFit(heap, Wanted(n)) = {} /\ OutOfMemory(n)
  <2>1. HeldBlocks' = HeldBlocks /\ Traced' = Traced /\ failed' = n
    BY <1>1 DEF OutOfMemory, traceVars, HeldBlocks, Used, Traced, IsTraced
  <2>2. Promise!Full(HeldBlocks, n) BY <1>0, <1>1, FullWhenNone, HeldIs
  <2> QED BY <2>1, <2>2 DEF Promise!Allocate, Promise!Fail
<1>2. ASSUME NEW b \in FirstFit(heap, Wanted(n)),
             \/ /\ ~NeedsNode(t, b)
                /\ heap' = Carve(heap, b, Wanted(n))
                /\ owner' = [owner EXCEPT ![b] = t]
                /\ UNCHANGED <<traceVars, failed>>
             \/ /\ NeedsNode(t, b)
                /\ FirstFit(Carve(heap, b, Wanted(n)), Wanted(NodeSize)) = {}
                /\ OutOfMemory(NodeSize)
             \/ \E d \in FirstFit(Carve(heap, b, Wanted(n)), Wanted(NodeSize)) :
                   /\ NeedsNode(t, b)
                   /\ heap' = Carve(Carve(heap, b, Wanted(n)), d, Wanted(NodeSize))
                   /\ owner' = [owner EXCEPT ![b] = t, ![d] = Trace]
                   /\ UNCHANGED <<root, failed>>
      PROVE  Promise!Allocate(t, n)
  <2> DEFINE h == Carve(heap, b, Wanted(n))
             own == [owner EXCEPT ![b] = t]
             used == Used \cup {b}
             r == Rec(h, b, t)
  <2>1. /\ h \in HeapType /\ used \in SUBSET Addr /\ Tiled(h, used) /\ Linked(h)
        /\ Counts(h, used, 0)
        /\ b \in Addr /\ b \notin Used
        /\ Promise!Serves(r, t, n, HeldBlocks)
        /\ Blocks(h, used, own) = HeldBlocks \cup {r}
        /\ r \notin HeldBlocks
    <3>1. t \in Threads \cup {Trace} OBVIOUS
    <3>2. Takes(heap, n, b, h) /\ Owns(owner, b, t, own) BY DEF Takes, Owns
    <3> HIDE DEF h, own
    <3>3. /\ h \in HeapType /\ Used \cup {b} \in SUBSET Addr
          /\ Tiled(h, Used \cup {b}) /\ Linked(h)
          /\ Counts(h, Used \cup {b}, 0)
          /\ b \in Addr /\ b \notin Used
          /\ Promise!Serves(Rec(h, b, t), t, n, Blocks(heap, Used, owner))
          /\ Blocks(h, Used \cup {b}, own) = Blocks(heap, Used, owner) \cup {Rec(h, b, t)}
          /\ Rec(h, b, t) \notin Blocks(heap, Used, owner)
      BY <3>1, <3>2, <1>0, Granted
    <3> QED BY <3>3, HeldIs
  <2>2. own \in [Addr -> Threads \cup {Trace, NoThread}] BY <1>0
  <2>3. r \in Promise!Block BY <2>1 DEF Promise!Serves
  <2>4. NeedsNode(t, b) => t \in Traced BY DEF NeedsNode, Traced
  <2>5. CASE /\ heap' = h /\ owner' = own /\ UNCHANGED <<traceVars, failed>>
    <3>1. Used' = used
      BY <2>1, <2>5, <1>0 DEF Used, Names
    <3>2. HeldBlocks' = HeldBlocks \cup {r}
      <4>1. HeldBlocks' = Blocks(heap', Used', owner') BY DEF HeldBlocks, Blocks
      <4> QED BY <4>1, <3>1, <2>1, <2>5
    <3>3. Traced' = Traced /\ failed' = failed BY <2>5 DEF traceVars, Traced, IsTraced
    <3>4. r \in HeldBlocks' \ HeldBlocks BY <3>2, <2>1
    <3> HIDE DEF h, own, used, r
    <3> QED BY <3>2, <3>3, <3>4, <2>1 DEF Promise!Allocate
  <2>6. CASE /\ NeedsNode(t, b) /\ FirstFit(h, Wanted(NodeSize)) = {}
             /\ OutOfMemory(NodeSize)
    <3>1. HeldBlocks' = HeldBlocks /\ Traced' = Traced /\ failed' = NodeSize
      BY <2>6 DEF OutOfMemory, traceVars, HeldBlocks, Used, Traced, IsTraced
    <3> HIDE DEF h, own, used, r
    <3>2. Promise!Full(Blocks(h, used, own), NodeSize)
      BY <1>0, <2>1, <2>6, FullWhenNone
    <3>3. Promise!Full(HeldBlocks \cup {r}, NodeSize) BY <3>2, <2>1
    <3> QED BY <3>1, <3>3, <2>1, <2>3, <2>4, <2>6 DEF Promise!Allocate, Promise!Fail
  <2>7. ASSUME NEW d \in FirstFit(h, Wanted(NodeSize)), NeedsNode(t, b),
               heap' = Carve(h, d, Wanted(NodeSize)),
               owner' = [own EXCEPT ![d] = Trace],
               UNCHANGED <<root, failed>>
        PROVE  Promise!Allocate(t, n)
    <3> DEFINE s == Rec(heap', d, Trace)
    <3>1. Trace \in Threads \cup {Trace} OBVIOUS
    <3> HIDE DEF h, own, used, r
    <3>2. /\ d \in Addr /\ d \notin used
          /\ Promise!Serves(s, Trace, NodeSize, Blocks(h, used, own))
          /\ Blocks(heap', used \cup {d}, owner') = Blocks(h, used, own) \cup {s}
      <4>1. Takes(h, NodeSize, d, heap') /\ Owns(own, d, Trace, owner')
        BY <2>7 DEF Takes, Owns
      <4> QED BY <3>1, <4>1, <1>0, <2>1, <2>2, Granted DEF s
    <3>3. Used' = used \cup {d}
      <4>1. owner' = [a \in Addr |-> IF a = d THEN Trace
                                     ELSE IF a = b THEN t ELSE owner[a]]
        BY <2>7, <1>0, <2>1 DEF own
      <4> QED BY <4>1, <2>1, <3>2, <1>0 DEF Used, Names, used
    <3>4. HeldBlocks' = HeldBlocks \cup {r, s}
      <4>1. HeldBlocks' = Blocks(heap', Used', owner') BY DEF HeldBlocks, Blocks
      <4>2. HeldBlocks' = (HeldBlocks \cup {r}) \cup {s} BY <4>1, <3>2, <3>3, <2>1
      <4> HIDE DEF s
      <4> QED BY <4>2
    <3>5. Traced' = Traced /\ failed' = failed BY <2>7 DEF Traced, IsTraced
    <3>6. r \in HeldBlocks' \ HeldBlocks /\ s \in HeldBlocks' BY <3>4, <2>1
    <3>7. Promise!Serves(s, Trace, NodeSize, HeldBlocks \cup {r}) BY <3>2, <2>1
    <3> HIDE DEF s
    <3> QED BY <3>4, <3>5, <3>6, <3>7, <2>1, <2>4, <2>7 DEF Promise!Allocate
  <2>8. ASSUME NEW d \in FirstFit(h, Wanted(NodeSize)),
               owner' = [owner EXCEPT ![b] = t, ![d] = Trace]
        PROVE  owner' = [own EXCEPT ![d] = Trace]
    BY <2>8
  <2> QED BY <2>5, <2>6, <2>7, <2>8, <1>2
<1> QED BY <1>1, <1>2 DEF Allocate

-----------------------------------------------------------------------------
\* What malloc and realloc leave of the threads' own state, for Allocator.
LEMMA GivenSame ==
    ASSUME IndInv, NEW t \in Threads, step[t] = "idle",
           \/ UNCHANGED clientVars
           \/ \E p : step' = [step EXCEPT ![t] = "copy"] /\ ptr' = [ptr EXCEPT ![t] = p]
    PROVE  Given' = Given
<1>1. CASE UNCHANGED clientVars BY <1>1 DEF clientVars, Given
<1>2. ASSUME NEW p, step' = [step EXCEPT ![t] = "copy"], ptr' = [ptr EXCEPT ![t] = p]
      PROVE  Given' = Given
  <2>1. step \in [Threads -> {"idle", "copy", "free"}]
        /\ ptr \in [Threads -> Addr \cup {NoAddr}]
    BY DEF IndInv, TypeOK
  <2>2. \A u \in Threads : step'[u] = "free" <=> step[u] = "free" BY <1>2, <2>1
  <2>3. \A u \in Threads : step[u] = "free" => ptr'[u] = ptr[u] BY <1>2, <2>1
  <2> QED BY <2>2, <2>3 DEF Given
<1> QED BY <1>1, <1>2

\* free is called.
LEMMA FreeMaps ==
    ASSUME IndInv, NEW t \in Threads, NEW p \in Addr, Free(t, p)
    PROVE  Promise!Give(p) /\ failed = NoSize
<1>1. /\ UNCHANGED <<heap, owner, traceVars, failed>>
      /\ owner[p] \in Threads /\ \A u \in Threads \ {t} : ptr[u] # p
      /\ step[t] # "free" /\ failed = NoSize
      /\ step' = [step EXCEPT ![t] = "free"] /\ ptr' = [ptr EXCEPT ![t] = p]
  BY DEF Free, Held, Ready, Crashed
<1>2. /\ step \in [Threads -> {"idle", "copy", "free"}]
      /\ ptr \in [Threads -> Addr \cup {NoAddr}] /\ Names
  BY NamesDiffer DEF IndInv, TypeOK
<1>3. \A u \in Threads : /\ step'[u] = IF u = t THEN "free" ELSE step[u]
                         /\ ptr'[u] = IF u = t THEN p ELSE ptr[u]
  BY <1>1, <1>2
<1>4. p \notin Given BY <1>1 DEF Given
<1>5. Given' = Given \cup {p}
  <2>1. \A x : x \in Given' <=> x \in Given \/ x = p BY <1>1, <1>3 DEF Given
  <2> QED BY <2>1
<1>6. HeldBlocks' = HeldBlocks /\ Traced' = Traced /\ failed' = failed
  BY <1>1 DEF HeldBlocks, Used, Traced, IsTraced, traceVars
<1>7. \E b \in HeldBlocks : b.at = p /\ b.by # Trace
  <2> DEFINE r == [at |-> p, size |-> heap.size[p], by |-> owner[p]]
  <2>1. p \in Used BY <1>1, <1>2 DEF Used, Names
  <2>2. r \in HeldBlocks BY <2>1 DEF HeldBlocks
  <2>3. r.at = p /\ r.by = owner[p] OBVIOUS
  <2>4. owner[p] # Trace BY <1>1, <1>2 DEF Names
  <2> HIDE DEF r
  <2> QED BY <2>2, <2>3, <2>4
<1> QED BY <1>1, <1>4, <1>5, <1>6, <1>7 DEF Promise!Give

\* The block is put back, with the node of its entry if there is one.
LEMMA FreeInsertMaps ==
    ASSUME IndInv, NEW t \in Threads, FreeInsert(t)
    PROVE  \E p \in 0..(End - 1) : Promise!TakeBack(p) /\ failed = NoSize
<1> DEFINE b == ptr[t]
           nodes == NodesFreed(t, b)
           R(x) == Rec(heap, x, owner[x])
<1>0. /\ heap \in HeapType /\ Used \in SUBSET Addr
      /\ Tiled(heap, Used) /\ Linked(heap)
      /\ TypeOK /\ NodesAreOwned /\ HeldOK /\ Names
  BY NamesDiffer DEF IndInv, TypeOK, HeapType, HeapSound, Used
<1>1. /\ b \in Addr /\ owner[b] \in Threads /\ b \in Used
      /\ step[t] = "free" /\ failed = NoSize
  <2>1. step[t] = "free" /\ failed = NoSize BY DEF FreeInsert, Ready, Crashed
  <2>2. /\ step[t] = "idle" <=> ptr[t] = NoAddr
        /\ ptr[t] # NoAddr => owner[ptr[t]] \in Threads
    <3> HIDE DEF b, nodes
    <3> QED BY <1>0, HeldFacts
  <2>3. ptr[t] \in Addr \cup {NoAddr} BY <1>0 DEF TypeOK
  <2>4. b \in Addr /\ owner[b] \in Threads BY <2>1, <2>2, <2>3
  <2> QED BY <2>1, <2>4, <1>0 DEF Used, Names
<1>2. \A d \in nodes : d \in Used /\ owner[d] = Trace /\ nodes = {d} /\ d # b
  <2>1. SUFFICES ASSUME NEW d \in nodes
                 PROVE  d \in Addr /\ owner[d] = Trace /\ nodes = {d}
    BY <1>0, <1>1 DEF Used, Names
  <2>2. PICK e \in Entry(t, b) : d = e.node BY DEF NodesFreed
  <2>3. e \in dict[t] BY DEF Entry
  <2>4. e.node \in Addr /\ owner[e.node] = Trace BY <2>3, <1>0, NodeFacts
  <2>5. \A f \in Entry(t, b) : f = e BY <2>3, <1>0 DEF NodesAreOwned, Entry
  <2> QED BY <2>2, <2>4, <2>5 DEF NodesFreed
<1>3. owner' = [a \in Addr |-> IF a \in nodes \cup {b} THEN NoThread ELSE owner[a]]
  BY DEF FreeInsert
<1>4. Used' = Used \ (nodes \cup {b})
  <2> HIDE DEF b, nodes
  <2> QED BY <1>3 DEF Used
<1>5. \A c \in Used' : owner'[c] = owner[c]
  <2> HIDE DEF b, nodes
  <2>1. \A c \in Used' : c \in Addr /\ c \notin nodes \cup {b} BY <1>0, <1>4
  <2> QED BY <2>1, <1>3
<1>6. HeldBlocks' = Blocks(heap', Used', owner)
  <2>1. HeldBlocks' = Blocks(heap', Used', owner') BY DEF HeldBlocks, Blocks
  <2> QED BY <2>1, <1>5, BlocksSame
<1>7. R(b) \in HeldBlocks /\ R(b).at = b
  <2> HIDE DEF b
  <2> QED BY <1>1 DEF Rec, HeldBlocks
<1>8. \/ HeldBlocks' = HeldBlocks \ {R(b)}
      \/ \E d \in HeldBlocks : d.by = Trace /\ HeldBlocks' = HeldBlocks \ {R(b), d}
  <2>1. CASE nodes = {}
    <3>1. heap' = Insert(Counted(heap, b), b) /\ Used' = Used \ {b}
      BY <2>1, <1>4 DEF FreeInsert
    <3> HIDE DEF b, nodes
    <3>2. Blocks(heap', Used \ {b}, owner) = Blocks(heap, Used, owner) \ {R(b)}
      <4>1. Puts(heap, b, heap') BY <3>1 DEF Puts
      <4>2. SameSizes(heap', heap, Used \ {b}) BY <4>1, <1>0, <1>1, Returned
      <4> QED BY <4>2, <1>1, BlocksRemoved DEF Rec, SameSizes
    <3> QED BY <3>1, <3>2, <1>6, HeldIs
  <2>2. CASE nodes # {}
    <3>1. PICK d \in nodes :
             heap' = Insert(Insert(Counted(Counted(heap, b), d), d), b)
      BY <2>2 DEF FreeInsert
    <3> DEFINE h == Counted(heap, b)
               k == Insert(Counted(h, d), d)
    <3>2. d \in Used /\ owner[d] = Trace /\ nodes = {d} /\ d # b BY <1>2
    <3> HIDE DEF b, nodes
    <3>3. h \in HeapType /\ Tiled(h, Used) /\ Linked(h) /\ h.size = heap.size
      <4>1. h.size = heap.size BY <1>0 DEF Counted, HeapType
      <4> QED BY <4>1, <1>0, <1>1, CountedLemma DEF Sound
    <3> HIDE DEF h
    <3>a. Puts(h, d, k) BY DEF Puts
    <3> HIDE DEF k
    <3>b. /\ k \in HeapType /\ Tiled(k, Used \ {d}) /\ Linked(k)
          /\ SameSizes(k, h, Used \ {d})
      BY <3>a, <3>2, <3>3, <1>0, Returned
    <3>c. Blocks(k, Used \ {d}, owner) = Blocks(h, Used, owner) \ {Rec(h, d, owner[d])}
      BY <3>b, <3>2, BlocksRemoved DEF Rec, SameSizes
    <3>4. /\ k \in HeapType /\ Tiled(k, Used \ {d}) /\ Linked(k)
          /\ \A c \in Used \ {d} : k.size[c] = h.size[c]
          /\ Blocks(k, Used \ {d}, owner) = Blocks(h, Used, owner) \ {Rec(h, d, owner[d])}
      BY <3>b, <3>c DEF SameSizes
    <3>5. heap' = Insert(k, b) BY <3>1 DEF h, k
    <3>6. b \in Used \ {d} /\ Used \ {d} \in SUBSET Addr BY <1>0, <1>1, <3>2
    <3>7. \A c \in (Used \ {d}) \ {b} : heap'.size[c] = k.size[c]
      BY <3>4, <3>5, <3>6, InsertCounts
    <3>8. Blocks(heap', (Used \ {d}) \ {b}, owner) =
             Blocks(k, Used \ {d}, owner) \ {Rec(k, b, owner[b])}
      BY <3>6, <3>7, BlocksRemoved DEF Rec
    <3>9. Blocks(h, Used, owner) = HeldBlocks /\ Rec(h, d, owner[d]) = R(d)
      BY <3>3 DEF Blocks, HeldBlocks, Rec
    <3>10. Rec(k, b, owner[b]) = R(b) BY <3>3, <3>4, <3>6 DEF Rec
    <3>11. Used' = (Used \ {d}) \ {b} BY <3>2, <1>4
    <3>12. HeldBlocks' = HeldBlocks \ {R(b), R(d)}
      <4> HIDE DEF R
      <4>1. HeldBlocks' = (HeldBlocks \ {R(d)}) \ {R(b)}
        BY <3>4, <3>8, <3>9, <3>10, <3>11, <1>6
      <4> QED BY <4>1
    <3>13. R(d) \in HeldBlocks /\ R(d).by = Trace BY <3>2 DEF HeldBlocks, Rec
    <3> HIDE DEF R
    <3> QED BY <3>12, <3>13
  <2> QED BY <2>1, <2>2
<1>9. b \in Given /\ Given' = Given \ {b}
  <2>1. \A u \in Threads : /\ ptr'[u] = IF u = t THEN NoAddr ELSE ptr[u]
                           /\ step'[u] = IF u = t THEN "idle" ELSE step[u]
    BY <1>0 DEF TypeOK, FreeInsert
  <2>2. \A u \in Threads \ {t} : step[u] = "free" => ptr[u] # b
    <3>1. b # NoAddr BY <1>0, <1>1 DEF Names
    <3> QED BY <3>1, <1>0 DEF HeldOK
  <2>3. \A x : x \in Given' <=> x \in Given /\ x # b
    BY <2>1, <2>2, <1>1 DEF Given
  <2>4. b \in Given BY <1>1 DEF Given
  <2> HIDE DEF b
  <2> QED BY <2>3, <2>4
<1>10. Traced' = Traced /\ failed' = failed BY DEF FreeInsert, Traced, IsTraced
<1>11. b \in 0..(End - 1) BY <1>1 DEF Addr
<1> HIDE DEF b, nodes, R
<1>12. Promise!TakeBack(b) BY <1>7, <1>8, <1>9, <1>10 DEF Promise!TakeBack
<1> QED BY <1>1, <1>11, <1>12

\* The trace of a thread begins.
LEMMA EnableMaps ==
    ASSUME IndInv, Counting, NEW t \in Threads, EnableTrace(t)
    PROVE  Promise!StartTrace(t) /\ failed = NoSize
<1>0. /\ heap \in HeapType /\ Used \in SUBSET Addr
      /\ Tiled(heap, Used) /\ Linked(heap) /\ Counts(heap, Used, 0)
      /\ owner \in [Addr -> Threads \cup {Trace, NoThread}] /\ Names
      /\ root \in [Threads -> Addr \cup {NoAddr}]
      /\ NodeSize \in Nat /\ Trace \in Threads \cup {Trace}
      /\ \A a \in Addr : a \notin Used <=> owner[a] = NoThread
  BY HeapAssumption, NamesDiffer
     DEF IndInv, TypeOK, HeapType, HeapSound, Used, Counting
<1>1. UNCHANGED clientVars /\ ~IsTraced(t) /\ failed = NoSize
  BY DEF EnableTrace, Ready, Crashed
<1>2. t \notin Traced /\ Given' = Given
  BY <1>1 DEF Traced, Given, clientVars
<1>3. CASE FirstFit(heap, Wanted(NodeSize)) = {} /\ OutOfMemory(NodeSize)
  <2>1. HeldBlocks' = HeldBlocks /\ Traced' = Traced /\ failed' = NodeSize
    BY <1>3 DEF OutOfMemory, traceVars, HeldBlocks, Used, Traced, IsTraced
  <2>2. Promise!Full(HeldBlocks, NodeSize) BY <1>0, <1>3, FullWhenNone, HeldIs
  <2> QED BY <2>1, <2>2, <1>1, <1>2 DEF Promise!StartTrace, Promise!Fail
<1>4. ASSUME NEW d \in FirstFit(heap, Wanted(NodeSize)),
             heap' = Carve(heap, d, Wanted(NodeSize)),
             owner' = [owner EXCEPT ![d] = Trace],
             root' = [root EXCEPT ![t] = d],
             UNCHANGED <<dict, untracing, failed>>
      PROVE  Promise!StartTrace(t)
  <2> DEFINE r == Rec(heap', d, Trace)
  <2>1. Takes(heap, NodeSize, d, heap') /\ Owns(owner, d, Trace, owner')
    BY <1>4 DEF Takes, Owns
  <2>2. /\ d \in Addr /\ d \notin Used
        /\ Promise!Serves(r, Trace, NodeSize, Blocks(heap, Used, owner))
        /\ Blocks(heap', Used \cup {d}, owner') = Blocks(heap, Used, owner) \cup {r}
        /\ r \notin Blocks(heap, Used, owner)
    <3>1. /\ heap \in HeapType /\ Used \in SUBSET Addr /\ Tiled(heap, Used) /\ Linked(heap)
          /\ Counts(heap, Used, 0) /\ NodeSize \in Nat /\ Trace \in Threads \cup {Trace}
          /\ owner \in [Addr -> Threads \cup {Trace, NoThread}]
      BY <1>0
    <3>2. d \in Addr /\ d \notin Used BY <2>1, <3>1, Granted
    <3>3. Promise!Serves(Rec(heap', d, Trace), Trace, NodeSize, Blocks(heap, Used, owner))
      BY <2>1, <3>1, Granted
    <3>4. Rec(heap', d, Trace) \notin Blocks(heap, Used, owner)
      BY <2>1, <3>1, Granted
    <3>5. Blocks(heap', Used \cup {d}, owner') =
             Blocks(heap, Used, owner) \cup {Rec(heap', d, Trace)}
      <4>1. \A c \in Used : heap'.size[c] = heap.size[c]
        BY <1>0, <1>4, WantedNat, CarveSizes
      <4>2. \A c \in Used : owner'[c] = owner[c] BY <1>0, <1>4, <3>2
      <4>3. owner'[d] = Trace BY <1>0, <1>4, <3>2
      <4>4. Blocks(heap', Used \cup {d}, owner') =
               Blocks(heap, Used, owner) \cup {Rec(heap', d, owner'[d])}
        <5>1. d \notin Used /\ SameBlocks(heap, heap', Used, owner, owner')
          BY <4>1, <4>2, <3>2 DEF SameBlocks
        <5> QED BY <5>1, BlocksAdded
      <4> QED BY <4>3, <4>4
    <3> QED BY <3>2, <3>3, <3>4, <3>5
  <2>3. Used' = Used \cup {d} BY <1>4, <2>2, <1>0 DEF Used, Names
  <2> HIDE DEF r
  <2>4. HeldBlocks' = HeldBlocks \cup {r} /\ r \in HeldBlocks' \ HeldBlocks
    <3>1. HeldBlocks' = Blocks(heap', Used', owner') BY DEF HeldBlocks, Blocks
    <3> QED BY <3>1, <2>2, <2>3, HeldIs
  <2>5. Promise!Serves(r, Trace, NodeSize, HeldBlocks) BY <2>2, HeldIs
  <2>6. Traced' = Traced \cup {t}
    <3>1. \A u \in Threads : root'[u] = IF u = t THEN d ELSE root[u] BY <1>4, <1>0
    <3>2. d # NoAddr BY <2>2, <1>0 DEF Names
    <3>3. \A u : u \in Traced' <=> u \in Traced \/ u = t
      BY <3>1, <3>2 DEF Traced, IsTraced
    <3> QED BY <3>3
  <2>7. failed' = failed BY <1>4
  <2> QED BY <2>4, <2>5, <2>6, <2>7, <1>2 DEF Promise!StartTrace
<1> QED BY <1>1, <1>3, <1>4 DEF EnableTrace

\* A block of the trace is put back.
LEMMA EraseMaps ==
    ASSUME IndInv, NEW t \in Threads, t \in Traced, NEW d \in Addr, owner[d] = Trace,
           heap' = Insert(Counted(heap, d), d),
           owner' = [owner EXCEPT ![d] = NoThread],
           UNCHANGED clientVars, failed' = failed,
           Traced' \in {Traced, Traced \ {t}}
    PROVE  Promise!StopTrace(t)
<1>0. /\ heap \in HeapType /\ Used \in SUBSET Addr
      /\ Tiled(heap, Used) /\ Linked(heap)
      /\ owner \in [Addr -> Threads \cup {Trace, NoThread}] /\ Names
  BY NamesDiffer DEF IndInv, TypeOK, HeapType, HeapSound, Used
<1> DEFINE r == Rec(heap, d, owner[d])
<1>1. d \in Used BY <1>0 DEF Used, Names
<1>2. Used' = Used \ {d} BY <1>0 DEF Used
<1>3. SameSizes(heap', heap, Used \ {d})
  <2>1. Puts(heap, d, heap') BY DEF Puts
  <2> QED BY <2>1, <1>0, <1>1, Returned
<1>4. Blocks(heap', Used \ {d}, owner) = Blocks(heap, Used, owner) \ {r}
  BY <1>1, <1>3, BlocksRemoved DEF Rec, SameSizes
<1>5. HeldBlocks' = HeldBlocks \ {r}
  <2>1. HeldBlocks' = Blocks(heap', Used', owner') BY DEF HeldBlocks, Blocks
  <2>2. \A c \in Used \ {d} : owner'[c] = owner[c] BY <1>0
  <2>3. Blocks(heap', Used \ {d}, owner') = Blocks(heap', Used \ {d}, owner)
    BY <2>2, BlocksSame
  <2> HIDE DEF r
  <2> QED BY <2>1, <2>3, <1>2, <1>4, HeldIs
<1>6. r \in HeldBlocks /\ r.by = Trace BY <1>1 DEF HeldBlocks, Rec
<1>7. Given' = Given BY DEF Given, clientVars
<1> HIDE DEF r
<1> QED BY <1>5, <1>6, <1>7 DEF Promise!StopTrace

-----------------------------------------------------------------------------
(***************************************************************************)
(* A trace is taken down only while no check has failed.                   *)
(***************************************************************************)
Sane == untracing # NoThread => failed = NoSize

\* Every step keeps it so: only a call that allocates can fail, and none does
\* while the scheduler is suspended for the trace.
LEMMA SaneInv == Sane /\ [Next]_vars => Sane'
<1> SUFFICES ASSUME Sane, [Next]_vars PROVE Sane' OBVIOUS
<1>1. ASSUME NEW t \in Threads, NEW n, Allocate(t, n), untracing = NoThread
      PROVE  Sane'
  BY <1>1 DEF Allocate, OutOfMemory, traceVars, Sane
<1>2. ASSUME NEW t \in Threads, NEW n, NEW p,
             Malloc(t, n) \/ Realloc(t, p, n)
      PROVE  Sane'
  BY <1>1, <1>2 DEF Malloc, Realloc, Ready
<1>3. ASSUME NEW t \in Threads, NEW p, Free(t, p) PROVE Sane'
  BY <1>3 DEF Free, traceVars, Sane
<1>4. ASSUME NEW t \in Threads, FreeInsert(t) PROVE Sane'
  BY <1>4 DEF FreeInsert, Sane
<1>5. ASSUME NEW t \in Threads, EnableTrace(t) PROVE Sane'
  BY <1>5 DEF EnableTrace, OutOfMemory, traceVars, Ready, Sane
<1>6. ASSUME NEW t \in Threads, DisableTrace(t) PROVE Sane'
  BY <1>6 DEF DisableTrace, Ready, Crashed, Sane
<1>7. ASSUME NEW t \in Threads, EraseEntry(t) \/ EraseThread(t) PROVE Sane'
  BY <1>7 DEF EraseEntry, EraseThread, Sane
<1>8. CASE UNCHANGED vars BY <1>8 DEF vars, Sane
<1> QED BY <1>2, <1>3, <1>4, <1>5, <1>6, <1>7, <1>8 DEF Next

\* The heap begins as Allocator does.
LEMMA InitMaps == Init => Promise!Init
<1> SUFFICES ASSUME Init PROVE Promise!Init OBVIOUS
<1>1. Used = {} BY DEF Init, Used
<1>2. HeldBlocks = {} BY <1>1 DEF HeldBlocks
<1>3. Given = {} BY DEF Init, Given
<1>4. Traced = {} BY DEF Init, Traced, IsTraced
<1> QED BY <1>2, <1>3, <1>4 DEF Init, Promise!Init, NoSize, Promise!NoSize

\* Every step of the heap is one of Allocator, or none.
LEMMA NextMaps ==
    IndInv /\ Counting /\ Sane /\ [Next]_vars => [Promise!Next]_(Promise!vars)
<1> SUFFICES ASSUME IndInv, Counting, Sane, [Next]_vars
             PROVE  Promise!Next \/ UNCHANGED <<HeldBlocks, Given, Traced, failed>>
  BY DEF Promise!vars
<1>0. NoSize = Promise!NoSize BY DEF NoSize, Promise!NoSize
<1>1. ASSUME NEW t \in Threads, NEW n \in Requests, Malloc(t, n) PROVE Promise!Next
  <2>1. Allocate(t, n) /\ UNCHANGED clientVars /\ step[t] = "idle" /\ failed = NoSize
    BY <1>1 DEF Malloc, Ready, Crashed
  <2>2. Promise!Allocate(t, n) BY <2>1, GivenSame, AllocateMaps
  <2> QED BY <2>1, <2>2, <1>0 DEF Promise!Next
<1>2. ASSUME NEW t \in Threads, NEW n \in Requests, NEW p \in Addr, Realloc(t, p, n)
      PROVE  Promise!Next
  <2>1. /\ Allocate(t, n) /\ step[t] = "idle" /\ failed = NoSize
        /\ \/ UNCHANGED clientVars
           \/ step' = [step EXCEPT ![t] = "copy"] /\ ptr' = [ptr EXCEPT ![t] = p]
    BY <1>2 DEF Realloc, Ready, Crashed
  <2>2. Promise!Allocate(t, n) BY <2>1, GivenSame, AllocateMaps
  <2> QED BY <2>1, <2>2, <1>0 DEF Promise!Next
<1>3. ASSUME NEW t \in Threads, NEW p \in Addr, Free(t, p) PROVE Promise!Next
  <2>1. Promise!Give(p) /\ failed = NoSize BY <1>3, FreeMaps
  <2> QED BY <2>1, <1>0 DEF Promise!Next, Addr
<1>4. ASSUME NEW t \in Threads, FreeInsert(t) PROVE Promise!Next
  <2>1. \E p \in 0..(End - 1) : Promise!TakeBack(p) /\ failed = NoSize
    BY <1>4, FreeInsertMaps
  <2> QED BY <2>1, <1>0 DEF Promise!Next
<1>5. ASSUME NEW t \in Threads, EnableTrace(t) PROVE Promise!Next
  <2>1. Promise!StartTrace(t) /\ failed = NoSize BY <1>5, EnableMaps
  <2> QED BY <2>1, <1>0 DEF Promise!Next
<1>6. ASSUME NEW t \in Threads, DisableTrace(t)
      PROVE  UNCHANGED <<HeldBlocks, Given, Traced, failed>>
  BY <1>6 DEF DisableTrace, clientVars, HeldBlocks, Used, Given, Traced, IsTraced
<1>7. ASSUME NEW t \in Threads, EraseEntry(t) \/ EraseThread(t)
      PROVE  untracing = t /\ failed = NoSize /\ IsTraced(t) /\ t \in Traced
  <2>1. untracing = t /\ t # NoThread
    BY <1>7, NamesDiffer DEF EraseEntry, EraseThread, Names
  <2> QED BY <2>1 DEF Sane, IndInv, HeldOK, Traced
<1>8. ASSUME NEW t \in Threads, EraseEntry(t) PROVE Promise!Next
  <2>1. PICK e \in dict[t] : /\ heap' = Insert(Counted(heap, e.node), e.node)
                             /\ owner' = [owner EXCEPT ![e.node] = NoThread]
    BY <1>8 DEF EraseEntry
  <2>2. e.node \in Addr /\ owner[e.node] = Trace BY NodeFacts DEF IndInv
  <2>3. UNCHANGED clientVars /\ failed' = failed /\ Traced' = Traced
    BY <1>8 DEF EraseEntry, Traced, IsTraced
  <2>4. Promise!StopTrace(t) BY <2>1, <2>2, <2>3, <1>7, <1>8, EraseMaps
  <2> QED BY <2>4, <1>0, <1>7, <1>8 DEF Promise!Next
<1>9. ASSUME NEW t \in Threads, EraseThread(t) PROVE Promise!Next
  <2>1. /\ heap' = Insert(Counted(heap, root[t]), root[t])
        /\ owner' = [owner EXCEPT ![root[t]] = NoThread]
        /\ root' = [root EXCEPT ![t] = NoAddr]
        /\ UNCHANGED clientVars /\ failed' = failed
    BY <1>9 DEF EraseThread
  <2>2. root[t] \in Addr /\ owner[root[t]] = Trace
    BY <1>7, <1>9, NodeFacts DEF IndInv
  <2>3. Traced' = Traced \ {t}
    <3>1. \A u \in Threads : root'[u] = IF u = t THEN NoAddr ELSE root[u]
      BY <2>1 DEF IndInv, TypeOK
    <3>2. \A u : u \in Traced' <=> u \in Traced /\ u # t
      BY <3>1 DEF Traced, IsTraced
    <3> QED BY <3>2
  <2>4. Promise!StopTrace(t) BY <2>1, <2>2, <2>3, <1>7, <1>9, EraseMaps
  <2> QED BY <2>4, <1>0, <1>7, <1>9 DEF Promise!Next
<1>10. CASE UNCHANGED vars
  BY <1>10 DEF vars, HeldBlocks, Used, Given, Traced, IsTraced
<1> QED BY <1>1, <1>2, <1>3, <1>4, <1>5, <1>6, <1>8, <1>9, <1>10 DEF Next

(***************************************************************************)
(* With its list, headers, splits and merges and the nested calls of the   *)
(* trace, the heap does what Allocator promises, whatever its size, its    *)
(* alignment and the requests: blocks in use are large enough, apart, and  *)
(* stay where they are until they were freed, and pvPortMalloc gives up    *)
(* only when there is no room for a block of that size.                    *)
(***************************************************************************)
THEOREM HeapRefines == Spec => Implements
<1>1. Init => Promise!Init /\ Sane BY InitMaps DEF Init, Sane
<1>2. Spec => []Counting BY CountInit, CountNext, Invariance, PTL DEF Spec
<1>3. Spec => []Sane BY <1>1, SaneInv, PTL DEF Spec
<1> QED BY <1>1, <1>2, <1>3, NextMaps, Invariance, PTL DEF Spec, Implements, Promise!Spec
=============================================================================
