----------------------------- MODULE FiniteSums ------------------------------
(***************************************************************************)
(* Facts about SumFunctionOnSet, for the proofs that count alerts, packets *)
(* and windows, and about Max and Min.  The fold of a sum is a CHOOSE over *)
(* functions on the subsets of its domain; a sum of naturals is shown to   *)
(* be the number of the units of its terms, and induction is by a least    *)
(* counterexample.                                                         *)
(***************************************************************************)
EXTENDS Integers, FiniteSets, FiniteSetsExt, Functions, FiniteSetTheorems, WellFoundedInduction, TLAPS

LEMMA NatMinimum ==
    ASSUME NEW S \in SUBSET Nat, S # {}
    PROVE  \E m \in S : \A n \in S : m <= n
  <1>1. PICK m \in S : \A n \in S : ~(<<n, m>> \in OpToRel(<, Nat))
    BY WFMin, NatLessThanWellFounded
  <1>2. \A n \in S : ~(n < m)
    BY <1>1 DEF OpToRel
  <1> QED
    BY <1>2

LEMMA MinFacts ==
    ASSUME NEW a \in Int, NEW b \in Int
    PROVE  Min({a, b}) = IF a <= b THEN a ELSE b
  <1>1. \E x \in {a, b} : \A y \in {a, b} : x <= y
    OBVIOUS
  <1>2. Min({a, b}) \in {a, b} /\ \A y \in {a, b} : Min({a, b}) <= y
    BY <1>1 DEF Min
  <1> QED
    BY <1>2

LEMMA MaxFacts ==
    ASSUME NEW n \in Nat, NEW S \in SUBSET (0 .. n), S # {}
    PROVE  Max(S) \in S /\ \A x \in S : x <= Max(S)
  <1> DEFINE D == {n - x : x \in S}
  <1>1. D \in SUBSET Nat /\ D # {}
    <2>1. ASSUME NEW x \in S PROVE n - x \in Nat
      OBVIOUS
    <2> QED
      BY <2>1
  <1>2. PICK d \in D : \A c \in D : d <= c
    BY <1>1, NatMinimum
  <1>3. PICK m \in S : d = n - m
    BY <1>2
  <1>4. ASSUME NEW x \in S PROVE x <= m
    <2>0. x \in 0 .. n /\ m \in 0 .. n
      OBVIOUS
    <2>1. n - x \in D /\ x \in Nat /\ m \in Nat
      BY <2>0
    <2>2. n - m <= n - x
      BY <1>2, <1>3, <2>1
    <2> QED
      BY <2>1, <2>2
  <1>5. \E k \in S : \A x \in S : k >= x
    BY <1>4
  <1> QED
    BY <1>5 DEF Max

LEMMA LargestIsMax ==
    ASSUME NEW S \in SUBSET Int, NEW m \in S, \A x \in S : x <= m
    PROVE  Max(S) = m
  <1>1. Max(S) \in S /\ \A x \in S : Max(S) >= x
    BY DEF Max
  <1> DEFINE w == Max(S)
  <1> HIDE DEF w
  <1>2. w \in S /\ w \in Int /\ m \in Int /\ w >= m
    BY <1>1 DEF w
  <1>3. w <= m
    BY <1>2
  <1>4. w = m
    BY <1>2, <1>3
  <1> QED
    BY <1>4 DEF w

\* Among subsets of a finite set one is minimal: the induction over finite sets
\* is by a least counterexample.
LEMMA MinimalSubset ==
    ASSUME NEW S, IsFiniteSet(S), NEW Bad \in SUBSET (SUBSET S), Bad # {}
    PROVE  \E t \in Bad : \A x \in t : t \ {x} \notin Bad
  <1> DEFINE Sizes == {Cardinality(u) : u \in Bad}
  <1>1. ASSUME NEW u \in Bad
        PROVE  IsFiniteSet(u) /\ Cardinality(u) \in Nat
    BY FS_Subset, FS_CardinalityType
  <1>2. PICK n \in Sizes : \A m \in Sizes : n <= m
    <2>1. Sizes \in SUBSET Nat /\ Sizes # {}
      BY <1>1
    <2> HIDE DEF Sizes
    <2> QED
      BY <2>1, NatMinimum
  <1>3. PICK t \in Bad : n = Cardinality(t)
    BY <1>2
  <1>4. ASSUME NEW x \in t, t \ {x} \in Bad PROVE FALSE
    <2>1. Cardinality(t \ {x}) = Cardinality(t) - 1 /\ Cardinality(t) \in Nat
      BY <1>1, FS_RemoveElement
    <2> QED
      BY <1>2, <1>3, <1>4, <2>1
  <1> QED
    BY <1>4

\* A sum of naturals counts the units of its terms.
Units(f, S) == {u \in S \X Nat : u[2] \in 1 .. f[u[1]]}

LEMMA UnitsAdd ==
    ASSUME NEW S, NEW f, NEW x \in S, f[x] \in Nat, IsFiniteSet(Units(f, S \ {x}))
    PROVE  /\ IsFiniteSet(Units(f, S))
           /\ Cardinality(Units(f, S)) = f[x] + Cardinality(Units(f, S \ {x}))
  <1> DEFINE Own == {x} \X (1 .. f[x])
  <1>1. IsFiniteSet(Own) /\ Cardinality(Own) = f[x]
    <2>1. IsFiniteSet(1 .. f[x]) /\ Cardinality(1 .. f[x]) = f[x]
      BY FS_Interval, SMTT(30)
    <2> DEFINE F == [n \in 1 .. f[x] |-> <<x, n>>]
    <2>2. F \in [1 .. f[x] -> Own] /\ \A n \in 1 .. f[x] : F[n] = <<x, n>>
      OBVIOUS
    <2>3. ASSUME NEW t \in Own PROVE t[2] \in 1 .. f[x] /\ F[t[2]] = t
      OBVIOUS
    <2> HIDE DEF F
    <2>4. F \in Bijection(1 .. f[x], Own)
      BY <2>2, <2>3 DEF Bijection, Injection, Surjection, IsInjective
    <2> QED
      BY <2>1, <2>4, FS_Bijection DEF ExistsBijection
  <1>2. Units(f, S) = Own \cup Units(f, S \ {x}) /\ Own \cap Units(f, S \ {x}) = {}
    BY DEF Units
  <1> HIDE DEF Own
  <1>3. /\ IsFiniteSet(Own \cup Units(f, S \ {x}))
        /\ Cardinality(Own \cup Units(f, S \ {x})) =
               Cardinality(Own) + Cardinality(Units(f, S \ {x})) - Cardinality(Own \cap Units(f, S \ {x}))
    BY <1>1, FS_Union
  <1>4. Cardinality(Units(f, S \ {x})) \in Nat /\ Cardinality(Own \cap Units(f, S \ {x})) = 0
    BY <1>2, FS_EmptySet, FS_CardinalityType
  <1> QED
    BY <1>1, <1>2, <1>3, <1>4

LEMMA UnitsFinite ==
    ASSUME NEW S, IsFiniteSet(S), NEW f, \A x \in S : f[x] \in Nat
    PROVE  IsFiniteSet(Units(f, S)) /\ Cardinality(Units(f, S)) \in Nat
  <1> DEFINE Bad == {s \in SUBSET S : ~IsFiniteSet(Units(f, s))}
  <1>1. ASSUME Bad # {} PROVE FALSE
    <2>1. PICK t \in Bad : \A x \in t : t \ {x} \notin Bad
      BY <1>1, MinimalSubset
    <2>2. t = {} => Units(f, t) = {}
      BY DEF Units
    <2>3. PICK x \in t : TRUE
      BY <2>1, <2>2, FS_EmptySet
    <2>4. IsFiniteSet(Units(f, t \ {x})) /\ f[x] \in Nat
      BY <2>1, <2>3
    <2> QED
      BY <2>1, <2>4, UnitsAdd
  <1> QED
    BY <1>1, FS_CardinalityType

Pick(s) == CHOOSE x \in s : TRUE
Summed(f, S, h) == h = [s \in SUBSET S |-> IF s = {} THEN 0 ELSE f[Pick(s)] + h[s \ {Pick(s)}]]

LEMMA SumUnfolds ==
    ASSUME NEW f, NEW S
    PROVE  SumFunctionOnSet(f, S) = (CHOOSE h : Summed(f, S, h))[S]
  BY Zenon DEF SumFunctionOnSet, FoldFunctionOnSet, MapThenFoldSet, Summed, Pick

LEMMA SumIsUnits ==
    ASSUME NEW S, IsFiniteSet(S), NEW f, \A x \in S : f[x] \in Nat
    PROVE  SumFunctionOnSet(f, S) = Cardinality(Units(f, S))
  <1> DEFINE g == [s \in SUBSET S |-> Cardinality(Units(f, s))]
             h == CHOOSE x : Summed(f, S, x)
  <1>2. ASSUME NEW s \in SUBSET S, NEW x \in s
        PROVE  Cardinality(Units(f, s)) = f[x] + Cardinality(Units(f, s \ {x}))
    <2>1. IsFiniteSet(s \ {x})
      BY FS_Subset
    <2>2. IsFiniteSet(Units(f, s \ {x})) /\ f[x] \in Nat
      BY <2>1, UnitsFinite
    <2> QED
      BY <2>2, UnitsAdd
  <1>3. Units(f, {}) = {} /\ Cardinality(Units(f, {})) = 0
    BY FS_EmptySet DEF Units
  <1>4. ASSUME NEW s, s # {} PROVE Pick(s) \in s
    BY <1>4 DEF Pick
  <1>5. ASSUME NEW s \in SUBSET S
        PROVE  g[s] = IF s = {} THEN 0 ELSE f[Pick(s)] + g[s \ {Pick(s)}]
    BY <1>2, <1>3, <1>4
  <1>6. Summed(f, S, g)
    BY <1>5, Zenon DEF Summed
  <1>7. Summed(f, S, h)
    BY <1>6
  <1> HIDE DEF h
  <1>8. ASSUME NEW s \in SUBSET S
        PROVE  h[s] = IF s = {} THEN 0 ELSE f[Pick(s)] + h[s \ {Pick(s)}]
    BY <1>7 DEF Summed
  <1> DEFINE Bad == {s \in SUBSET S : h[s] # g[s]}
  <1>9. ASSUME Bad # {} PROVE FALSE
    <2>1. PICK t \in Bad : \A x \in t : t \ {x} \notin Bad
      BY <1>9, MinimalSubset
    <2> QED
      BY <1>4, <1>5, <1>8, <2>1
  <1> QED
    BY <1>9, SumUnfolds DEF h

-----------------------------------------------------------------------------
(***************************************************************************)
(* What the proofs use.                                                    *)
(***************************************************************************)
LEMMA SumType ==
    ASSUME NEW S, IsFiniteSet(S), NEW f, \A x \in S : f[x] \in Nat
    PROVE  SumFunctionOnSet(f, S) \in Nat
  BY SumIsUnits, UnitsFinite

LEMMA SumEmpty ==
    ASSUME NEW f
    PROVE  SumFunctionOnSet(f, {}) = 0
  <1>1. Units(f, {}) = {} /\ IsFiniteSet({}) /\ Cardinality({}) = 0
    BY FS_EmptySet DEF Units
  <1> QED
    BY <1>1, SumIsUnits

LEMMA SumAdd ==
    ASSUME NEW S, IsFiniteSet(S), NEW f, \A x \in S : f[x] \in Nat, NEW x \in S
    PROVE  SumFunctionOnSet(f, S) = f[x] + SumFunctionOnSet(f, S \ {x})
  <1>1. IsFiniteSet(S \ {x}) /\ \A y \in S \ {x} : f[y] \in Nat
    BY FS_Subset
  <1>2. IsFiniteSet(Units(f, S \ {x}))
    BY <1>1, UnitsFinite
  <1>3. Cardinality(Units(f, S)) = f[x] + Cardinality(Units(f, S \ {x}))
    BY <1>2, UnitsAdd
  <1> QED
    BY <1>1, <1>3, SumIsUnits

LEMMA SumOne ==
    ASSUME NEW f, NEW x, f[x] \in Nat
    PROVE  SumFunctionOnSet(f, {x}) = f[x]
  <1>1. IsFiniteSet({x}) /\ {x} \ {x} = {}
    BY FS_Singleton
  <1>2. SumFunctionOnSet(f, {x}) = f[x] + SumFunctionOnSet(f, {x} \ {x})
    BY <1>1, SumAdd
  <1> QED
    BY <1>1, <1>2, SumEmpty

\* Terms that move to other places, and do not grow there, sum up to no more.
LEMMA SumMoved ==
    ASSUME NEW S, IsFiniteSet(S), NEW T, IsFiniteSet(T), NEW f, NEW g, NEW h \in [S -> T],
           \A x \in S : f[x] \in Nat, \A y \in T : g[y] \in Nat,
           \A x, y \in S : h[x] = h[y] => x = y, \A x \in S : f[x] <= g[h[x]]
    PROVE  SumFunctionOnSet(f, S) <= SumFunctionOnSet(g, T)
  <1> DEFINE move == [u \in Units(f, S) |-> <<h[u[1]], u[2]>>]
  <1>1. /\ IsFiniteSet(Units(f, S)) /\ IsFiniteSet(Units(g, T))
        /\ SumFunctionOnSet(f, S) = Cardinality(Units(f, S))
        /\ SumFunctionOnSet(g, T) = Cardinality(Units(g, T))
    BY UnitsFinite, SumIsUnits
  <1>2. ASSUME NEW u \in Units(f, S)
        PROVE  /\ u[1] \in S /\ u[2] \in Nat /\ u = <<u[1], u[2]>>
               /\ <<h[u[1]], u[2]>> \in Units(g, T)
    <2>1. u[1] \in S /\ u[2] \in Nat /\ u = <<u[1], u[2]>> /\ u[2] \in 1 .. f[u[1]]
      BY DEF Units
    <2>2. h[u[1]] \in T /\ u[2] \in 1 .. g[h[u[1]]]
      BY <2>1
    <2> QED
      BY <2>1, <2>2 DEF Units
  <1>3. ASSUME NEW u \in Units(f, S), NEW v \in Units(f, S), move[u] = move[v]
        PROVE  u = v
    <2>1. h[u[1]] = h[v[1]] /\ u[2] = v[2]
      BY <1>3
    <2>2. u[1] = v[1]
      BY <1>2, <2>1
    <2> QED
      BY <1>2, <2>1, <2>2
  <1>4. move \in [Units(f, S) -> Units(g, T)]
    BY <1>2
  <1> HIDE DEF move
  <1>5. move \in Injection(Units(f, S), Units(g, T))
    BY <1>3, <1>4 DEF Injection, IsInjective
  <1> QED
    BY <1>1, <1>5, FS_Injection DEF ExistsInjection

LEMMA SumSame ==
    ASSUME NEW S, IsFiniteSet(S), NEW f, NEW g, \A x \in S : f[x] \in Nat /\ g[x] = f[x]
    PROVE  SumFunctionOnSet(g, S) = SumFunctionOnSet(f, S)
  <1>1. Units(f, S) = Units(g, S)
    BY DEF Units
  <1> QED
    BY <1>1, SumIsUnits

LEMMA SumZero ==
    ASSUME NEW S, IsFiniteSet(S), NEW f, \A x \in S : f[x] = 0
    PROVE  SumFunctionOnSet(f, S) = 0
  <1>1. Units(f, S) = {}
    BY DEF Units
  <1> QED
    BY <1>1, SumIsUnits, FS_EmptySet

\* No more than so much for each term.
LEMMA SumBound ==
    ASSUME NEW S, IsFiniteSet(S), NEW f, NEW b \in Nat, \A x \in S : f[x] \in 0 .. b
    PROVE  SumFunctionOnSet(f, S) <= b * Cardinality(S)
  <1> DEFINE Bad == {s \in SUBSET S : ~(SumFunctionOnSet(f, s) <= b * Cardinality(s))}
  <1>1. ASSUME Bad # {} PROVE FALSE
    <2>1. PICK t \in Bad : \A x \in t : t \ {x} \notin Bad
      BY <1>1, MinimalSubset
    <2>2. /\ t \in SUBSET S /\ IsFiniteSet(t) /\ \A x \in t : f[x] \in Nat
          /\ ~(SumFunctionOnSet(f, t) <= b * Cardinality(t))
      BY <2>1, FS_Subset
    <2>3. t # {}
      BY <2>2, SumEmpty, FS_EmptySet
    <2>4. PICK x \in t : TRUE
      BY <2>3
    <2> DEFINE rest == t \ {x}
    <2>5. rest \in SUBSET S /\ IsFiniteSet(rest) /\ rest \notin Bad
      BY <2>1, <2>2, FS_Subset
    <2>6. SumFunctionOnSet(f, rest) <= b * Cardinality(rest)
      BY <2>5
    <2>7. /\ SumFunctionOnSet(f, t) = f[x] + SumFunctionOnSet(f, rest)
          /\ Cardinality(rest) = Cardinality(t) - 1
          /\ Cardinality(t) \in Nat /\ Cardinality(rest) \in Nat
          /\ SumFunctionOnSet(f, rest) \in Nat
      BY <2>2, <2>5, SumAdd, SumType, FS_RemoveElement, FS_CardinalityType
    <2> HIDE DEF rest
    <2> DEFINE c == Cardinality(rest)
               p == b * c
    <2>8. Cardinality(t) = c + 1 /\ c \in Nat
      BY <2>7
    <2>9. p \in Nat /\ b * (c + 1) = p + b
      BY <2>8
    <2> HIDE DEF p, c
    <2>10. SumFunctionOnSet(f, t) <= p + b
      BY <2>6, <2>7 DEF p, c
    <2> QED
      BY <2>2, <2>8, <2>9, <2>10
  <1> QED
    BY <1>1
=============================================================================
