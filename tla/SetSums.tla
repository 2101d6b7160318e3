------------------------------ MODULE SetSums ------------------------------
(***************************************************************************)
(* The laws of sums over finite sets that the proofs about money need.     *)
(* A sum is the MapThenSumSet of the community modules, which takes the    *)
(* elements in an order of its own; the laws say that the order does not   *)
(* matter.  Induction is over a set G of subsets, which stands for what is *)
(* to be proved of them.                                                   *)
(***************************************************************************)
EXTENDS Integers, FiniteSetsExt, FiniteSetTheorems, WellFoundedInduction, TLAPS

LEMMA LeastNat ==
    ASSUME NEW S, S \subseteq Nat, S # {}
    PROVE  \E n \in S : \A m \in S : n <= m
<1>1. PICK n \in S : \A m \in S : ~(<<m, n>> \in OpToRel(<, Nat))
  BY NatLessThanWellFounded, WFMin
<1>2. OpToRel(<, Nat) = {p \in Nat \X Nat : p[1] < p[2]}
  BY DEF OpToRel
<1>3. \A m \in Nat, k \in Nat : m < k => <<m, k>> \in {p \in Nat \X Nat : p[1] < p[2]}
  OBVIOUS
<1>4. \A m \in S : ~(m < n)
  BY <1>1, <1>2, <1>3
<1> QED
  BY <1>4

\* What is so for a set whenever it is so for its proper subsets is so for every
\* subset of a finite set.
LEMMA SubsetInduction ==
    ASSUME NEW D, IsFiniteSet(D), NEW G,
           \A s \in SUBSET D : (\A t \in SUBSET s : t # s => t \in G) => s \in G
    PROVE  SUBSET D \subseteq G
<1> SUFFICES ASSUME (SUBSET D) \ G # {} PROVE FALSE
  OBVIOUS
<1> DEFINE Sizes == {Cardinality(s) : s \in (SUBSET D) \ G}
<1>1. \A s \in SUBSET D : IsFiniteSet(s) /\ Cardinality(s) \in Nat
  BY FS_Subset, FS_CardinalityType
<1>2. Sizes \subseteq Nat /\ Sizes # {}
  BY <1>1
<1>3. \A t \in (SUBSET D) \ G : Cardinality(t) \in Sizes
  OBVIOUS
<1>4. ASSUME NEW n \in Sizes PROVE \E s \in (SUBSET D) \ G : n = Cardinality(s)
  OBVIOUS
<1> HIDE DEF Sizes
<1>5. PICK n \in Sizes : \A m \in Sizes : n <= m
  BY <1>2, LeastNat
<1>6. \A m \in Sizes : ~(m < n)
  BY <1>2, <1>5
<1>7. PICK s \in (SUBSET D) \ G : n = Cardinality(s)
  BY <1>4
<1>8. ASSUME NEW t \in SUBSET s, t # s PROVE t \in G
  <2>1. Cardinality(t) < Cardinality(s)
    BY <1>1, <1>7, <1>8, FS_Subset
  <2>2. t \in SUBSET D
    BY <1>7
  <2> QED
    BY <1>3, <1>6, <1>7, <2>1, <2>2
<1>9. s \in SUBSET D /\ s \notin G
  BY <1>7
<1> QED
  BY <1>8, <1>9, Zenon

----------------------------------------------------------------------------
\* The table of the sums of f over the subsets of T.

Pick(s) == CHOOSE x \in s : TRUE
IsSums(g, f, T) ==
    g = [s \in SUBSET T |-> IF s = {} THEN 0 ELSE f[Pick(s)] + g[s \ {Pick(s)}]]

SumOver(f, S) == MapThenSumSet(LAMBDA i : f[i], S)

LEMMA PickIn == ASSUME NEW s, s # {} PROVE Pick(s) \in s /\ s \ {Pick(s)} \in SUBSET s /\ s \ {Pick(s)} # s
<1>1. Pick(s) \in s
  BY DEF Pick
<1> QED
  BY <1>1

LEMMA SumIs == ASSUME NEW f, NEW S PROVE SumOver(f, S) = (CHOOSE g : IsSums(g, f, S))[S]
BY DEF SumOver, MapThenSumSet, MapThenFoldSet, IsSums, Pick

LEMMA SumsAgree ==
    ASSUME NEW f, NEW T, NEW U, IsFiniteSet(T), NEW g, IsSums(g, f, T), NEW h, IsSums(h, f, U),
           NEW s \in SUBSET T, s \in SUBSET U
    PROVE  g[s] = h[s]
<1> DEFINE G == {t \in SUBSET s : g[t] = h[t]}
<1>1. IsFiniteSet(s)
  BY FS_Subset
<1>2. ASSUME NEW t \in SUBSET s, \A u \in SUBSET t : u # t => u \in G PROVE t \in G
  <2>1. t \in SUBSET T /\ t \in SUBSET U
    OBVIOUS
  <2>2. CASE t = {}
    BY <2>1, <2>2 DEF IsSums
  <2>3. CASE t # {}
    <3>1. t \ {Pick(t)} \in G
      BY <1>2, <2>3, PickIn
    <3>2. g[t] = f[Pick(t)] + g[t \ {Pick(t)}] /\ h[t] = f[Pick(t)] + h[t \ {Pick(t)}]
      BY <2>1, <2>3 DEF IsSums
    <3> QED
      BY <3>1, <3>2
  <2> QED
    BY <2>2, <2>3
<1> HIDE DEF G
<1>3. SUBSET s \subseteq G
  BY <1>1, <1>2, SubsetInduction
<1> QED
  BY <1>3 DEF G

LEMMA SumsExist ==
    ASSUME NEW f, NEW T, IsFiniteSet(T)
    PROVE  \E g : IsSums(g, f, T)
<1> DEFINE G == {s \in SUBSET T : \E g : IsSums(g, f, s)}
           Of(s) == CHOOSE g : IsSums(g, f, s)
<1>1. ASSUME NEW s \in SUBSET T, \A t \in SUBSET s : t # s => t \in G PROVE s \in G
  <2> DEFINE Rest(t) == t \ {Pick(t)}
             g == [t \in SUBSET s |-> IF t = {} THEN 0 ELSE f[Pick(t)] + Of(Rest(t))[Rest(t)]]
  <2>1. \A t \in SUBSET s : t # s => IsSums(Of(t), f, t)
    BY <1>1
  <2>2. ASSUME NEW t \in SUBSET s, t # {} PROVE Of(Rest(t))[Rest(t)] = g[Rest(t)]
    <3>1. Rest(t) \in SUBSET s /\ Rest(t) # s
      BY <2>2, PickIn
    <3>2. CASE Rest(t) = {}
      <4>1. Of(Rest(t))[Rest(t)] = 0
        <5> HIDE DEF Of, Rest
        <5> QED
          BY <2>1, <3>1, <3>2 DEF IsSums
      <4> QED
        BY <3>1, <3>2, <4>1
    <3>3. CASE Rest(t) # {}
      <4> DEFINE r == Rest(t)
      <4>1. g[r] = f[Pick(r)] + Of(Rest(r))[Rest(r)]
        BY <3>1, <3>3
      <4>2. Rest(r) \in SUBSET r /\ Rest(r) # r /\ Rest(r) \in SUBSET s /\ Rest(r) # s
        BY <3>1, <3>3, PickIn
      <4>3. IsSums(Of(r), f, r) /\ IsSums(Of(Rest(r)), f, Rest(r))
        BY <2>1, <3>1, <4>2
      <4>4. Of(r)[r] = f[Pick(r)] + Of(r)[Rest(r)]
        <5> HIDE DEF Of
        <5> QED
          BY <3>3, <4>3 DEF IsSums
      <4>5. IsFiniteSet(r) /\ IsFiniteSet(Rest(r))
        BY <3>1, <4>2, FS_Subset
      <4>6. Of(r)[Rest(r)] = Of(Rest(r))[Rest(r)]
        <5> HIDE DEF Of, Rest, r
        <5> QED
          BY <4>2, <4>3, <4>5, SumsAgree
      <4> QED
        BY <4>1, <4>4, <4>6
    <3> QED
      BY <3>2, <3>3
  <2>3. IsSums(g, f, s)
    <3>1. \A t \in SUBSET s : t # {} => f[Pick(t)] + Of(Rest(t))[Rest(t)] = f[Pick(t)] + g[Rest(t)]
      BY <2>2
    <3> HIDE DEF Of
    <3> QED
      BY <3>1 DEF IsSums
  <2> QED
    BY <2>3
<1> HIDE DEF G
<1>2. SUBSET T \subseteq G
  BY <1>1, SubsetInduction
<1> QED
  BY <1>2 DEF G

LEMMA SumsTyped ==
    ASSUME NEW f, NEW T, IsFiniteSet(T), \A i \in T : f[i] \in Nat, NEW g, IsSums(g, f, T)
    PROVE  \A s \in SUBSET T : g[s] \in Nat
<1> DEFINE G == {s \in SUBSET T : g[s] \in Nat}
<1>1. ASSUME NEW s \in SUBSET T, \A t \in SUBSET s : t # s => t \in G PROVE s \in G
  <2>1. CASE s = {}
    BY <2>1 DEF IsSums
  <2>2. CASE s # {}
    <3>1. Pick(s) \in T /\ s \ {Pick(s)} \in G
      BY <1>1, <2>2, PickIn
    <3>2. g[s] = f[Pick(s)] + g[s \ {Pick(s)}]
      BY <2>2 DEF IsSums
    <3> QED
      BY <3>1, <3>2
  <2> QED
    BY <2>1, <2>2
<1> HIDE DEF G
<1>2. SUBSET T \subseteq G
  BY <1>1, SubsetInduction
<1> QED
  BY <1>2 DEF G

\* The order does not matter.
LEMMA SumsStep ==
    ASSUME NEW f, NEW T, IsFiniteSet(T), \A i \in T : f[i] \in Nat, NEW g, IsSums(g, f, T)
    PROVE  \A s \in SUBSET T : \A y \in s : g[s] = f[y] + g[s \ {y}]
<1> DEFINE G == {s \in SUBSET T : \A y \in s : g[s] = f[y] + g[s \ {y}]}
<1>1. ASSUME NEW s \in SUBSET T, \A t \in SUBSET s : t # s => t \in G PROVE s \in G
  <2> SUFFICES ASSUME NEW y \in s PROVE g[s] = f[y] + g[s \ {y}]
    OBVIOUS
  <2> DEFINE x == Pick(s)
  <2>1. x \in s /\ g[s] = f[x] + g[s \ {x}]
    BY PickIn DEF IsSums
  <2>2. CASE x = y
    BY <2>1, <2>2
  <2>3. CASE x # y
    <3> HIDE DEF x
    <3>1. s \ {x} \in G /\ y \in s \ {x}
      BY <1>1, <2>1, <2>3
    <3>2. s \ {y} \in G /\ x \in s \ {y}
      BY <1>1, <2>1, <2>3
    <3>3. g[s \ {x}] = f[y] + g[(s \ {x}) \ {y}]
      BY <3>1
    <3>4. g[s \ {y}] = f[x] + g[(s \ {y}) \ {x}]
      BY <3>2
    <3>5. (s \ {x}) \ {y} = (s \ {y}) \ {x}
      OBVIOUS
    <3>6. f[x] \in Nat /\ f[y] \in Nat /\ g[(s \ {x}) \ {y}] \in Nat
      <4>1. (s \ {x}) \ {y} \in SUBSET T
        OBVIOUS
      <4> QED
        BY <2>1, <4>1, SumsTyped
    <3>7. g[(s \ {y}) \ {x}] = g[(s \ {x}) \ {y}]
      BY <3>5
    <3> QED
      BY <2>1, <3>3, <3>4, <3>6, <3>7
  <2> QED
    BY <2>2, <2>3
<1> HIDE DEF G
<1>2. SUBSET T \subseteq G
  BY <1>1, SubsetInduction
<1> QED
  BY <1>2 DEF G

----------------------------------------------------------------------------
\* The laws.

LEMMA SumFrom ==
    ASSUME NEW f, NEW T, IsFiniteSet(T), NEW g, IsSums(g, f, T), NEW S \in SUBSET T
    PROVE  SumOver(f, S) = g[S]
<1>1. IsFiniteSet(S)
  BY FS_Subset
<1> DEFINE h == CHOOSE k : IsSums(k, f, S)
<1>2. IsSums(h, f, S)
  BY <1>1, SumsExist
<1> HIDE DEF h
<1>3. h[S] = g[S]
  <2>1. S \in SUBSET S
    OBVIOUS
  <2>2. g[S] = h[S]
    BY <1>2, <2>1, SumsAgree, SMT
  <2>. QED
    BY <2>2
<1> QED
  BY <1>3, SumIs DEF h

LEMMA SumType ==
    ASSUME NEW f, NEW S, IsFiniteSet(S), \A i \in S : f[i] \in Nat
    PROVE  SumOver(f, S) \in Nat
<1>1. PICK g : IsSums(g, f, S)
  BY SumsExist
<1>2. SumOver(f, S) = g[S]
  BY <1>1, SumFrom
<1>3. g[S] \in Nat
  BY <1>1, SumsTyped
<1> QED
  BY <1>2, <1>3

LEMMA SumEmpty == ASSUME NEW f PROVE SumOver(f, {}) = 0
<1>1. PICK g : IsSums(g, f, {})
  BY SumsExist, FS_EmptySet
<1>2. SumOver(f, {}) = g[{}]
  BY <1>1, FS_EmptySet, SumFrom
<1>3. g[{}] = 0
  BY <1>1 DEF IsSums
<1> QED
  BY <1>2, <1>3

LEMMA SumAdd ==
    ASSUME NEW f, NEW S, IsFiniteSet(S), \A i \in S : f[i] \in Nat, NEW x, x \notin S, f[x] \in Nat
    PROVE  SumOver(f, S \cup {x}) = SumOver(f, S) + f[x]
<1> DEFINE T == S \cup {x}
<1>1. IsFiniteSet(T)
  BY FS_AddElement
<1>2. \A i \in T : f[i] \in Nat
  OBVIOUS
<1>3. T \ {x} = S /\ x \in T /\ S \in SUBSET T
  OBVIOUS
<1> HIDE DEF T
<1>4. PICK g : IsSums(g, f, T)
  BY <1>1, SumsExist
<1>5. SumOver(f, T) = g[T] /\ SumOver(f, S) = g[S]
  BY <1>1, <1>3, <1>4, SumFrom
<1>6. g[T] = f[x] + g[T \ {x}]
  BY <1>1, <1>2, <1>3, <1>4, SumsStep
<1>7. g[T \ {x}] = g[S] /\ g[S] \in Nat
  BY <1>1, <1>2, <1>3, <1>4, SumsTyped
<1>8. g[T] = g[S] + f[x]
  BY <1>6, <1>7
<1> QED
  BY <1>5, <1>8 DEF T

\* Induction, one element at a time.
LEMMA ElementInduction ==
    ASSUME NEW D, IsFiniteSet(D), NEW G, {} \in G,
           \A s \in SUBSET D : \A x \in D \ s : s \in G => s \cup {x} \in G
    PROVE  SUBSET D \subseteq G
<1>1. ASSUME NEW s \in SUBSET D, \A t \in SUBSET s : t # s => t \in G PROVE s \in G
  <2>1. CASE s # {}
    <3>1. PICK x \in s : TRUE
      BY <2>1
    <3>2. s \ {x} \in SUBSET D /\ s \ {x} \in G /\ x \in D \ (s \ {x})
      BY <1>1, <3>1
    <3>3. (s \ {x}) \cup {x} = s
      BY <3>1
    <3> QED
      BY <3>2, <3>3
  <2> QED
    BY <2>1
<1> QED
  BY <1>1, SubsetInduction

\* A finite set of numbers has a greatest one.
LEMMA MaxOfNats ==
    ASSUME NEW S, S \subseteq Nat, S # {}, IsFiniteSet(S)
    PROVE  Max(S) \in S /\ \A n \in S : n <= Max(S)
<1> DEFINE G == {s \in SUBSET S : s = {} \/ \E m \in s : \A n \in s : n <= m}
<1>1. ASSUME NEW s \in SUBSET S, NEW x \in S \ s, s \in G PROVE s \cup {x} \in G
  <2>1. CASE s = {}
    BY <2>1
  <2>2. ASSUME NEW m \in s, \A n \in s : n <= m PROVE \E k \in s \cup {x} : \A n \in s \cup {x} : n <= k
    <3>1. CASE x <= m
      BY <2>2, <3>1
    <3>2. CASE ~(x <= m)
      BY <2>2, <3>2
    <3> QED
      BY <3>1, <3>2
  <2> QED
    BY <1>1, <2>1, <2>2
<1>2. {} \in G
  OBVIOUS
<1> HIDE DEF G
<1>3. S \in G
  BY <1>1, <1>2, ElementInduction
<1>4. \E x \in S : \A y \in S : x >= y
  BY <1>3 DEF G
<1>5. Max(S) \in S /\ \A y \in S : Max(S) >= y
  BY <1>4, Zenon DEF Max
<1> QED
  BY <1>5

\* A sum of smaller terms is smaller, and one of the same terms the same.
LEMMA SumLeq ==
    ASSUME NEW f, NEW h, NEW S, IsFiniteSet(S),
           \A i \in S : f[i] \in Nat /\ h[i] \in Nat /\ f[i] <= h[i]
    PROVE  SumOver(f, S) <= SumOver(h, S)
<1> DEFINE G == {s \in SUBSET S : SumOver(f, s) <= SumOver(h, s)}
<1>1. {} \in G
  BY SumEmpty
<1>2. ASSUME NEW s \in SUBSET S, NEW x \in S \ s, s \in G PROVE s \cup {x} \in G
  <2>1. IsFiniteSet(s)
    BY FS_Subset
  <2>2. SumOver(f, s) \in Nat /\ SumOver(h, s) \in Nat
    BY <2>1, SumType
  <2>3. SumOver(f, s \cup {x}) = SumOver(f, s) + f[x] /\ SumOver(h, s \cup {x}) = SumOver(h, s) + h[x]
    BY <2>1, SumAdd
  <2>4. SumOver(f, s \cup {x}) <= SumOver(h, s \cup {x})
    BY <1>2, <2>2, <2>3
  <2> QED
    BY <2>4
<1> HIDE DEF G
<1>3. SUBSET S \subseteq G
  BY <1>1, <1>2, ElementInduction
<1> QED
  BY <1>3 DEF G

LEMMA SumSame ==
    ASSUME NEW f, NEW h, NEW S, IsFiniteSet(S), \A i \in S : f[i] \in Nat /\ h[i] = f[i]
    PROVE  SumOver(f, S) = SumOver(h, S)
<1>1. \A i \in S : h[i] \in Nat /\ f[i] <= h[i] /\ h[i] <= f[i]
  OBVIOUS
<1>2. SumOver(f, S) <= SumOver(h, S) /\ SumOver(h, S) <= SumOver(f, S)
  BY <1>1, SumLeq
<1>3. SumOver(f, S) \in Nat /\ SumOver(h, S) \in Nat
  BY <1>1, SumType
<1> QED
  BY <1>2, <1>3

\* The sum over two sets without a common element.
LEMMA SumSplit ==
    ASSUME NEW f, NEW S, NEW T, IsFiniteSet(S), IsFiniteSet(T), S \cap T = {},
           \A i \in S \cup T : f[i] \in Nat
    PROVE  SumOver(f, S \cup T) = SumOver(f, S) + SumOver(f, T)
<1> DEFINE G == {t \in SUBSET T : SumOver(f, S \cup t) = SumOver(f, S) + SumOver(f, t)}
<1>0. SumOver(f, S) \in Nat
  BY SumType
<1>1. {} \in G
  <2>1. S \cup {} = S
    OBVIOUS
  <2> QED
    BY <1>0, <2>1, SumEmpty
<1>2. ASSUME NEW t \in SUBSET T, NEW x \in T \ t, t \in G PROVE t \cup {x} \in G
  <2>1. IsFiniteSet(t)
    BY FS_Subset
  <2>2. IsFiniteSet(S \cup t)
    BY <2>1, FS_Union
  <2>3. SumOver(f, t) \in Nat /\ f[x] \in Nat
    BY <2>1, SumType
  <2>4. SumOver(f, t \cup {x}) = SumOver(f, t) + f[x]
    BY <2>1, SumAdd
  <2>5. x \notin S \cup t /\ \A i \in S \cup t : f[i] \in Nat
    OBVIOUS
  <2>6. SumOver(f, (S \cup t) \cup {x}) = SumOver(f, S \cup t) + f[x]
    BY <2>2, <2>3, <2>5, SumAdd
  <2>7. (S \cup t) \cup {x} = S \cup (t \cup {x})
    OBVIOUS
  <2>8. SumOver(f, S \cup t) = SumOver(f, S) + SumOver(f, t)
    BY <1>2
  <2>9. SumOver(f, S \cup (t \cup {x})) = SumOver(f, S) + SumOver(f, t \cup {x})
    <3>1. SumOver(f, (S \cup t) \cup {x}) = SumOver(f, S) + SumOver(f, t \cup {x})
      BY <1>0, <2>3, <2>4, <2>6, <2>8
    <3> QED
      BY <2>7, <3>1, Zenon
  <2> QED
    BY <2>9
<1> HIDE DEF G
<1>3. \A t \in SUBSET T : \A x \in T \ t : t \in G => t \cup {x} \in G
  BY <1>2, Zenon
<1>4. SUBSET T \subseteq G
  BY <1>1, <1>3, ElementInduction, Z3
<1> QED
  BY <1>4 DEF G

\* A sum over more is no smaller.
LEMMA SumSubset ==
    ASSUME NEW f, NEW T, IsFiniteSet(T), \A i \in T : f[i] \in Nat, NEW S, S \subseteq T
    PROVE  SumOver(f, S) <= SumOver(f, T)
<1>1. IsFiniteSet(S) /\ IsFiniteSet(T \ S)
  BY FS_Subset
<1>2. S \cup (T \ S) = T /\ S \cap (T \ S) = {}
  OBVIOUS
<1>3. SumOver(f, S) \in Nat /\ SumOver(f, T \ S) \in Nat
  BY <1>1, SumType
<1>4. SumOver(f, S \cup (T \ S)) = SumOver(f, S) + SumOver(f, T \ S)
  BY <1>1, <1>2, SumSplit
<1>5. SumOver(f, T) = SumOver(f, S) + SumOver(f, T \ S)
  BY <1>2, <1>4
<1> QED
  BY <1>3, <1>5
=============================================================================
