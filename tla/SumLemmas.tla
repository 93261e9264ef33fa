----------------------------- MODULE SumLemmas -----------------------------
(***************************************************************************)
(* Sums over finite sets (SumFunctionOnSet), the first elements of a       *)
(* finite set in an order, and the two forms of induction they rest on,    *)
(* stated of sets rather than of predicates.                               *)
(***************************************************************************)
EXTENDS FiniteSetsExt, FiniteSetTheorems, WellFoundedInduction, TLAPS

\* A set of naturals that is not empty has a least element.
LEMMA LeastNat ==
    ASSUME NEW T, T \subseteq Nat, T # {}
    PROVE  \E x \in T : \A y \in T : x <= y
<1>1. PICK R : R = OpToRel(<, Nat)
  OBVIOUS
<1>2. IsWellFoundedOn(R, Nat)
  BY <1>1, NatLessThanWellFounded
<1>3. PICK x \in T : \A y \in T : ~ (<<y, x>> \in R)
  BY <1>2, WFMin
<1>4. \A a, b \in Nat : b < a => <<b, a>> \in R
  BY <1>1 DEF OpToRel
<1>5. ASSUME NEW y \in T PROVE x <= y
  <2>1. x \in Nat /\ y \in Nat
    OBVIOUS
  <2>2. ~ (y < x)
    BY <1>3, <1>4, <2>1
  <2> QED BY <2>1, <2>2
<1> QED
  BY <1>5

\* A set that has 0 and the successor of each of its numbers has them all.
LEMMA AllNat ==
    ASSUME NEW T, 0 \in T, \A n \in Nat : n \in T => n + 1 \in T
    PROVE  \A n \in Nat : n \in T
<1> SUFFICES ASSUME NEW n \in Nat, n \notin T PROVE FALSE
  OBVIOUS
<1>1. PICK m \in Nat \ T : \A y \in Nat \ T : m <= y
  BY LeastNat
<1>2. m # 0 /\ m - 1 \in Nat
  BY <1>1
<1>3. m - 1 \in T
  BY <1>1, <1>2
<1>4. (m - 1) + 1 \in T
  BY <1>2, <1>3
<1> QED
  BY <1>1, <1>4

\* A family that has the empty set, and a set where it has the set without any one of
\* its elements, has all subsets of a finite set.
LEMMA AllFinite ==
    ASSUME NEW S, IsFiniteSet(S), NEW F, {} \in F,
           \A T \in SUBSET S : T # {} /\ (\A x \in T : T \ {x} \in F) => T \in F
    PROVE  \A T \in SUBSET S : T \in F
<1> DEFINE K == {n \in Nat : \A T \in SUBSET S : Cardinality(T) = n => T \in F}
<1>1. 0 \in K
  BY FS_Subset, FS_EmptySet
<1>2. ASSUME NEW n \in Nat, n \in K PROVE n + 1 \in K
  <2>1. ASSUME NEW T \in SUBSET S, Cardinality(T) = n + 1 PROVE T \in F
    <3>1. IsFiniteSet(T) /\ T # {}
      BY <2>1, FS_Subset, FS_EmptySet
    <3>2. ASSUME NEW x \in T PROVE T \ {x} \in F
      <4>1. Cardinality(T \ {x}) = n
        <5>1. Cardinality(T \ {x}) = Cardinality(T) - 1
          BY <3>1, FS_RemoveElement
        <5> QED BY <2>1, <5>1
      <4>2. T \ {x} \in SUBSET S
        OBVIOUS
      <4>3. \A R \in SUBSET S : Cardinality(R) = n => R \in F
        BY <1>2
      <4> QED BY <4>1, <4>2, <4>3
    <3> QED BY <3>1, <3>2
  <2>2. n + 1 \in Nat
    OBVIOUS
  <2> QED BY <2>1, <2>2
<1>3. \A n \in Nat : n \in K
  <2> HIDE DEF K
  <2> QED BY <1>1, <1>2, AllNat
<1>4. ASSUME NEW T \in SUBSET S PROVE T \in F
  <2>1. Cardinality(T) \in Nat
    BY FS_Subset, FS_CardinalityType
  <2> QED BY <1>3, <2>1
<1> QED
  BY <1>4
-----------------------------------------------------------------------------
\* The element a sum takes first.
Some(S) == CHOOSE x \in S : TRUE

\* What the fold tabulates: the sums over the sets of D.
Tabulates(g, f, D) ==
    g = [s \in D |-> IF s = {} THEN 0 ELSE f[Some(s)] + g[s \ {Some(s)}]]

\* SumFunctionOnSet is a fold over the set.
LEMMA SumIs ==
    ASSUME NEW f, NEW S
    PROVE  SumFunctionOnSet(f, S) = (CHOOSE g : Tabulates(g, f, SUBSET S))[S]
BY DEF SumFunctionOnSet, FoldFunctionOnSet, MapThenFoldSet, Tabulates, Some

\* There is such a table for a finite set.
LEMMA TableExists ==
    ASSUME NEW f, NEW S, IsFiniteSet(S)
    PROVE  \E g : Tabulates(g, f, SUBSET S)
<1> DEFINE D(n) == {s \in SUBSET S : Cardinality(s) <= n}
           K == {n \in Nat : \E g : Tabulates(g, f, D(n))}
<1>1. 0 \in K
  <2>1. \A s \in D(0) : s = {}
    BY FS_Subset, FS_EmptySet, FS_CardinalityType
  <2>2. Tabulates([s \in D(0) |-> 0], f, D(0))
    <3> HIDE DEF D
    <3> QED BY <2>1 DEF Tabulates
  <2> QED BY <2>2
<1>2. ASSUME NEW n \in Nat, n \in K PROVE n + 1 \in K
  <2>1. PICK g : Tabulates(g, f, D(n))
    BY <1>2
  <2> DEFINE h == [s \in D(n + 1) |-> IF s = {} THEN 0 ELSE f[Some(s)] + g[s \ {Some(s)}]]
  <2>2. ASSUME NEW s \in D(n) PROVE s \in D(n + 1) /\ h[s] = g[s]
    <3>1. s \in D(n + 1)
      BY FS_Subset, FS_CardinalityType
    <3> HIDE DEF D
    <3> QED BY <2>1, <3>1 DEF Tabulates
  <2>3. ASSUME NEW s \in D(n + 1), s # {} PROVE s \ {Some(s)} \in D(n)
    <3>1. IsFiniteSet(s) /\ Some(s) \in s
      BY <2>3, FS_Subset DEF Some
    <3>2. Cardinality(s \ {Some(s)}) = Cardinality(s) - 1 /\ Cardinality(s) \in Nat
      BY <3>1, FS_RemoveElement, FS_CardinalityType
    <3> QED BY <3>2
  <2>4. Tabulates(h, f, D(n + 1))
    <3> HIDE DEF D
    <3> QED BY <2>2, <2>3 DEF Tabulates
  <2>5. \E a : Tabulates(a, f, D(n + 1))
    <3> HIDE DEF h, D
    <3> QED BY <2>4
  <2>6. n + 1 \in Nat
    OBVIOUS
  <2> HIDE DEF D
  <2> QED BY <2>5, <2>6
<1>3. \A n \in Nat : n \in K
  <2> HIDE DEF K
  <2> QED BY <1>1, <1>2, AllNat
<1>4. Cardinality(S) \in K
  BY <1>3, FS_CardinalityType
<1>5. D(Cardinality(S)) = SUBSET S
  BY FS_Subset
<1> QED
  BY <1>4, <1>5

\* Two tables agree where both are defined.
LEMMA TablesAgree ==
    ASSUME NEW f, NEW S, IsFiniteSet(S), NEW T \in SUBSET S, NEW g, NEW h,
           Tabulates(g, f, SUBSET S), Tabulates(h, f, SUBSET T)
    PROVE  \A s \in SUBSET T : g[s] = h[s]
<1> DEFINE F == {s \in SUBSET T : g[s] = h[s]}
<1>1. {} \in F
  BY DEF Tabulates
<1>2. ASSUME NEW s \in SUBSET T, s # {}, \A x \in s : s \ {x} \in F PROVE s \in F
  <2>1. Some(s) \in s
    BY <1>2 DEF Some
  <2>2. g[s \ {Some(s)}] = h[s \ {Some(s)}]
    BY <1>2, <2>1
  <2>3. g[s] = f[Some(s)] + g[s \ {Some(s)}]
    BY <1>2 DEF Tabulates
  <2>4. h[s] = f[Some(s)] + h[s \ {Some(s)}]
    BY <1>2 DEF Tabulates
  <2> QED BY <2>2, <2>3, <2>4
<1>3. IsFiniteSet(T)
  BY FS_Subset
<1>4. \A s \in SUBSET T : s \in F
  <2> HIDE DEF F
  <2> QED BY <1>1, <1>2, <1>3, AllFinite
<1> QED
  BY <1>4

\* A sum is 0, or its first element's value and the sum over the others.
LEMMA SumEmpty == ASSUME NEW f PROVE SumFunctionOnSet(f, {}) = 0
<1>1. IsFiniteSet({})
  BY FS_EmptySet
<1>2. PICK g : g = CHOOSE h : Tabulates(h, f, SUBSET {})
  OBVIOUS
<1>3. Tabulates(g, f, SUBSET {})
  BY <1>1, <1>2, TableExists
<1>4. g[{}] = 0
  BY <1>3 DEF Tabulates
<1> QED
  BY <1>2, <1>4, SumIs

\* A sum is its first element and the sum of the others.
LEMMA SumFirst ==
    ASSUME NEW f, NEW S, IsFiniteSet(S), S # {}
    PROVE  /\ Some(S) \in S
           /\ SumFunctionOnSet(f, S) = f[Some(S)] + SumFunctionOnSet(f, S \ {Some(S)})
<1>1. Some(S) \in S
  BY DEF Some
<1> DEFINE T == S \ {Some(S)}
<1>2. PICK g : g = CHOOSE h : Tabulates(h, f, SUBSET S)
  OBVIOUS
<1>3. PICK h : h = CHOOSE a : Tabulates(a, f, SUBSET T)
  OBVIOUS
<1>4. IsFiniteSet(T) /\ T \in SUBSET S
  BY FS_Subset
<1>5. Tabulates(g, f, SUBSET S)
  BY <1>2, TableExists
<1>6. Tabulates(h, f, SUBSET T)
  <2> HIDE DEF T
  <2> QED BY <1>3, <1>4, TableExists
<1>7. g[T] = h[T]
  <2> HIDE DEF T
  <2> QED BY <1>4, <1>5, <1>6, TablesAgree
<1>8. g[S] = f[Some(S)] + g[T]
  BY <1>5 DEF Tabulates
<1>9. SumFunctionOnSet(f, S) = g[S]
  BY <1>2, SumIs
<1>10. SumFunctionOnSet(f, T) = h[T]
  <2> HIDE DEF T
  <2> QED BY <1>3, SumIs
<1> QED
  BY <1>1, <1>7, <1>8, <1>9, <1>10

\* Sums of integers are integers, sums of naturals naturals.
LEMMA SumInt ==
    ASSUME NEW S, IsFiniteSet(S), NEW f, \A x \in S : f[x] \in Int
    PROVE  SumFunctionOnSet(f, S) \in Int
<1> DEFINE F == {T \in SUBSET S : SumFunctionOnSet(f, T) \in Int}
<1>1. {} \in F
  BY SumEmpty
<1>2. ASSUME NEW T \in SUBSET S, T # {}, \A x \in T : T \ {x} \in F PROVE T \in F
  <2>1. Some(T) \in T /\ SumFunctionOnSet(f, T) = f[Some(T)] + SumFunctionOnSet(f, T \ {Some(T)})
    BY <1>2, FS_Subset, SumFirst
  <2>2. SumFunctionOnSet(f, T \ {Some(T)}) \in Int
    BY <1>2, <2>1
  <2> QED BY <2>1, <2>2
<1>3. \A T \in SUBSET S : T \in F
  <2> HIDE DEF F
  <2> QED BY <1>1, <1>2, AllFinite
<1> QED
  BY <1>3

\* A sum of naturals is a natural.
LEMMA SumNat ==
    ASSUME NEW S, IsFiniteSet(S), NEW f, \A x \in S : f[x] \in Nat
    PROVE  SumFunctionOnSet(f, S) \in Nat
<1> DEFINE F == {T \in SUBSET S : SumFunctionOnSet(f, T) \in Nat}
<1>1. {} \in F
  BY SumEmpty
<1>2. ASSUME NEW T \in SUBSET S, T # {}, \A x \in T : T \ {x} \in F PROVE T \in F
  <2>1. Some(T) \in T /\ SumFunctionOnSet(f, T) = f[Some(T)] + SumFunctionOnSet(f, T \ {Some(T)})
    BY <1>2, FS_Subset, SumFirst
  <2>2. SumFunctionOnSet(f, T \ {Some(T)}) \in Nat
    BY <1>2, <2>1
  <2> QED BY <2>1, <2>2
<1>3. \A T \in SUBSET S : T \in F
  <2> HIDE DEF F
  <2> QED BY <1>1, <1>2, AllFinite
<1> QED
  BY <1>3

\* A sum looks at the values on its set only.
LEMMA SumSame ==
    ASSUME NEW S, IsFiniteSet(S), NEW f, NEW g, \A x \in S : f[x] = g[x]
    PROVE  SumFunctionOnSet(f, S) = SumFunctionOnSet(g, S)
<1> DEFINE F == {T \in SUBSET S : SumFunctionOnSet(f, T) = SumFunctionOnSet(g, T)}
<1>1. {} \in F
  BY SumEmpty
<1>2. ASSUME NEW T \in SUBSET S, T # {}, \A x \in T : T \ {x} \in F PROVE T \in F
  <2>1. Some(T) \in T /\ SumFunctionOnSet(f, T) = f[Some(T)] + SumFunctionOnSet(f, T \ {Some(T)})
    BY <1>2, FS_Subset, SumFirst
  <2>2. SumFunctionOnSet(g, T) = g[Some(T)] + SumFunctionOnSet(g, T \ {Some(T)})
    BY <1>2, FS_Subset, SumFirst
  <2>3. SumFunctionOnSet(f, T \ {Some(T)}) = SumFunctionOnSet(g, T \ {Some(T)})
    BY <1>2, <2>1
  <2> QED BY <2>1, <2>2, <2>3
<1>3. \A T \in SUBSET S : T \in F
  <2> HIDE DEF F
  <2> QED BY <1>1, <1>2, AllFinite
<1> QED
  BY <1>3

\* Any element may be taken first.
LEMMA SumRemove ==
    ASSUME NEW S, IsFiniteSet(S), NEW f, \A x \in S : f[x] \in Int, NEW x \in S
    PROVE  SumFunctionOnSet(f, S) = f[x] + SumFunctionOnSet(f, S \ {x})
<1> DEFINE Splits(T, y) == SumFunctionOnSet(f, T) = f[y] + SumFunctionOnSet(f, T \ {y})
           F == {T \in SUBSET S : \A y \in T : Splits(T, y)}
<1>1. {} \in F
  OBVIOUS
<1>2. ASSUME NEW T \in SUBSET S, T # {}, \A y \in T : T \ {y} \in F PROVE T \in F
  <2>1. IsFiniteSet(T)
    BY FS_Subset
  <2>2. PICK a : a = Some(T)
    OBVIOUS
  <2>3. a \in T /\ Splits(T, a)
    BY <1>2, <2>1, <2>2, SumFirst
  <2>4. ASSUME NEW y \in T, y # a PROVE Splits(T, y)
    <3>1. Splits(T \ {a}, y)
      BY <1>2, <2>3, <2>4
    <3>2. Splits(T \ {y}, a)
      BY <1>2, <2>3, <2>4
    <3>3. (T \ {a}) \ {y} = (T \ {y}) \ {a}
      OBVIOUS
    <3>4. SumFunctionOnSet(f, (T \ {y}) \ {a}) \in Int
      BY <2>1, FS_Subset, SumInt
    <3>5. f[a] \in Int /\ f[y] \in Int
      BY <2>3
    <3>6. PICK u : u = SumFunctionOnSet(f, (T \ {y}) \ {a})
      OBVIOUS
    <3>7. /\ SumFunctionOnSet(f, T) = f[a] + SumFunctionOnSet(f, T \ {a})
          /\ SumFunctionOnSet(f, T \ {a}) = f[y] + u
          /\ SumFunctionOnSet(f, T \ {y}) = f[a] + u
      <4> HIDE DEF F
      <4> QED BY <2>3, <3>1, <3>2, <3>3, <3>6, Zenon
    <3>8. u \in Int
      BY <3>4, <3>6
    <3>9. f[a] + (f[y] + u) = f[y] + (f[a] + u)
      BY <3>5, <3>8
    <3>10. SumFunctionOnSet(f, T) = f[y] + SumFunctionOnSet(f, T \ {y})
      BY <3>7, <3>9
    <3> QED BY <3>10
  <2> QED BY <2>3, <2>4
<1>3. \A T \in SUBSET S : T \in F
  <2> HIDE DEF F
  <2> QED BY <1>1, <1>2, AllFinite
<1> QED
  BY <1>3

\* A value that changes changes the sum.
LEMMA SumPut ==
    ASSUME NEW S, IsFiniteSet(S), NEW f, NEW g, NEW x \in S,
           \A y \in S : f[y] \in Int /\ g[y] \in Int,
           \A y \in S \ {x} : f[y] = g[y]
    PROVE  SumFunctionOnSet(g, S) = SumFunctionOnSet(f, S) + g[x] - f[x]
<1>1. IsFiniteSet(S \ {x})
  BY FS_Subset
<1>2. PICK u : u = SumFunctionOnSet(f, S \ {x})
  OBVIOUS
<1>3. SumFunctionOnSet(g, S \ {x}) = u
  BY <1>1, <1>2, SumSame
<1>4. SumFunctionOnSet(f, S) = f[x] + u
  BY <1>2, SumRemove
<1>5. SumFunctionOnSet(g, S) = g[x] + u
  BY <1>3, SumRemove
<1>6. u \in Int
  BY <1>1, <1>2, SumInt
<1> QED
  BY <1>4, <1>5, <1>6

\* What is 0 outside a subset is summed over the subset.
LEMMA SumSupport ==
    ASSUME NEW S, IsFiniteSet(S), NEW f, \A x \in S : f[x] \in Int,
           NEW R \in SUBSET S, \A x \in S \ R : f[x] = 0
    PROVE  SumFunctionOnSet(f, S) = SumFunctionOnSet(f, R)
<1> DEFINE F == {T \in SUBSET S : SumFunctionOnSet(f, T) = SumFunctionOnSet(f, T \cap R)}
<1>1. {} \in F
  <2>1. {} \cap R = {}
    OBVIOUS
  <2> QED BY <2>1
<1>2. ASSUME NEW T \in SUBSET S, T # {}, \A x \in T : T \ {x} \in F PROVE T \in F
  <2>1. IsFiniteSet(T) /\ IsFiniteSet(T \cap R)
    BY FS_Subset
  <2>2. PICK x \in T : TRUE
    BY <1>2
  <2>3. SumFunctionOnSet(f, T) = f[x] + SumFunctionOnSet(f, T \ {x})
    BY <2>1, SumRemove
  <2>4. SumFunctionOnSet(f, T \ {x}) = SumFunctionOnSet(f, (T \ {x}) \cap R)
    BY <1>2
  <2>5. SumFunctionOnSet(f, (T \ {x}) \cap R) \in Int
    BY FS_Subset, SumInt
  <2>6. CASE x \in R
    <3>1. (T \ {x}) \cap R = (T \cap R) \ {x}
      OBVIOUS
    <3>2. SumFunctionOnSet(f, T \cap R) = f[x] + SumFunctionOnSet(f, (T \cap R) \ {x})
      BY <2>1, <2>6, SumRemove
    <3> QED BY <2>3, <2>4, <3>1, <3>2
  <2>7. CASE x \notin R
    <3>1. (T \ {x}) \cap R = T \cap R
      BY <2>7
    <3>2. f[x] = 0
      BY <2>7
    <3>3. PICK u \in Int : u = SumFunctionOnSet(f, T \cap R)
      BY <2>5, <3>1
    <3>4. SumFunctionOnSet(f, T \ {x}) = u
      BY <2>4, <3>1, <3>3
    <3>5. SumFunctionOnSet(f, T) = 0 + u
      BY <2>3, <3>2, <3>4
    <3> QED BY <3>3, <3>5
  <2> QED BY <2>6, <2>7
<1>3. \A T \in SUBSET S : T \in F
  <2> HIDE DEF F
  <2> QED BY <1>1, <1>2, AllFinite
<1>4. S \cap R = R
  OBVIOUS
<1> QED
  BY <1>3, <1>4

\* A sum of naturals is positive when a summand is.
LEMMA SumPositive ==
    ASSUME NEW S, IsFiniteSet(S), NEW f, \A x \in S : f[x] \in Nat
    PROVE  SumFunctionOnSet(f, S) > 0 <=> \E x \in S : f[x] > 0
<1>1. ASSUME NEW x \in S, f[x] > 0 PROVE SumFunctionOnSet(f, S) > 0
  <2>1. IsFiniteSet(S \ {x})
    BY FS_Subset
  <2>2. SumFunctionOnSet(f, S \ {x}) \in Nat
    BY <2>1, SumNat
  <2>3. SumFunctionOnSet(f, S) = f[x] + SumFunctionOnSet(f, S \ {x})
    BY SumRemove
  <2> QED BY <1>1, <2>2, <2>3
<1>2. ASSUME \A x \in S : ~ (f[x] > 0) PROVE SumFunctionOnSet(f, S) = 0
  <2>1. \A x \in S \ {} : f[x] = 0
    BY <1>2
  <2>2. SumFunctionOnSet(f, S) = SumFunctionOnSet(f, {})
    BY <2>1, SumSupport
  <2> QED BY <2>2, SumEmpty
<1> QED
  BY <1>1, <1>2

\* What holds of the summands' differences holds of the sums'.
LEMMA SumDominates ==
    ASSUME NEW S, IsFiniteSet(S), NEW t \in Int, NEW a, NEW b, NEW c, NEW d,
           \A x \in S : /\ a[x] \in Int /\ b[x] \in Int /\ c[x] \in Int /\ d[x] \in Int
                        /\ a[x] - b[x] >= t * (c[x] - d[x])
    PROVE  SumFunctionOnSet(a, S) - SumFunctionOnSet(b, S)
             >= t * (SumFunctionOnSet(c, S) - SumFunctionOnSet(d, S))
<1> DEFINE F == {T \in SUBSET S : SumFunctionOnSet(a, T) - SumFunctionOnSet(b, T)
                                    >= t * (SumFunctionOnSet(c, T) - SumFunctionOnSet(d, T))}
<1>1. {} \in F
  <2>1. 0 - 0 >= t * (0 - 0)
    OBVIOUS
  <2> QED BY <2>1, SumEmpty
<1>2. ASSUME NEW T \in SUBSET S, T # {}, \A x \in T : T \ {x} \in F PROVE T \in F
  <2>1. IsFiniteSet(T)
    BY FS_Subset
  <2>2. PICK x \in T : TRUE
    BY <1>2
  <2>3. IsFiniteSet(T \ {x})
    BY <2>1, FS_Subset
  <2>4. PICK sa, sb, sc, sd : /\ sa = SumFunctionOnSet(a, T \ {x})
                              /\ sb = SumFunctionOnSet(b, T \ {x})
                              /\ sc = SumFunctionOnSet(c, T \ {x})
                              /\ sd = SumFunctionOnSet(d, T \ {x})
    OBVIOUS
  <2>5. sa \in Int /\ sb \in Int /\ sc \in Int /\ sd \in Int
    BY <2>3, <2>4, SumInt
  <2>6. sa - sb >= t * (sc - sd)
    BY <1>2, <2>4
  <2>7. /\ SumFunctionOnSet(a, T) = a[x] + sa
        /\ SumFunctionOnSet(b, T) = b[x] + sb
        /\ SumFunctionOnSet(c, T) = c[x] + sc
        /\ SumFunctionOnSet(d, T) = d[x] + sd
    BY <2>1, <2>4, SumRemove
  <2>8. PICK xa, xb, xc, xd : xa = a[x] /\ xb = b[x] /\ xc = c[x] /\ xd = d[x]
    OBVIOUS
  <2>9. /\ xa \in Int /\ xb \in Int /\ xc \in Int /\ xd \in Int
        /\ xa - xb >= t * (xc - xd)
    BY <2>8
  <2>10. (xa + sa) - (xb + sb) >= t * ((xc + sc) - (xd + sd))
    <3>1. t * ((xc + sc) - (xd + sd)) = t * (xc - xd) + t * (sc - sd)
      BY <2>5, <2>9
    <3>2. t * (xc - xd) \in Int /\ t * (sc - sd) \in Int
      BY <2>5, <2>9
    <3> QED BY <2>5, <2>6, <2>9, <3>1, <3>2
  <2> QED BY <2>7, <2>8, <2>10
<1>3. \A T \in SUBSET S : T \in F
  <2> HIDE DEF F
  <2> QED BY <1>1, <1>2, AllFinite
<1> QED
  BY <1>3

\* Smaller terms have the smaller sum.
LEMMA SumLess ==
    ASSUME NEW S, IsFiniteSet(S), NEW f, NEW g,
           \A x \in S : f[x] \in Int /\ g[x] \in Int /\ f[x] <= g[x]
    PROVE  SumFunctionOnSet(f, S) <= SumFunctionOnSet(g, S)
<1>1. \A x \in S : g[x] - f[x] >= 0 * (f[x] - f[x])
  OBVIOUS
<1>2. PICK s, t : s = SumFunctionOnSet(f, S) /\ t = SumFunctionOnSet(g, S)
  OBVIOUS
<1>3. s \in Int /\ t \in Int
  BY <1>2, SumInt
<1>4. t - s >= 0 * (s - s)
  <2>1. 0 \in Int
    OBVIOUS
  <2> QED BY <1>1, <1>2, <2>1, SumDominates
<1> QED
  BY <1>2, <1>3, <1>4

\* The sum of two functions is the sum of their sums.
LEMMA SumPlus ==
    ASSUME NEW S, IsFiniteSet(S), NEW f, NEW g, NEW h,
           \A x \in S : f[x] \in Int /\ g[x] \in Int /\ h[x] = f[x] + g[x]
    PROVE  SumFunctionOnSet(h, S) = SumFunctionOnSet(f, S) + SumFunctionOnSet(g, S)
<1>1. PICK z : z = [x \in S |-> 0]
  OBVIOUS
<1>2. \A x \in S : z[x] = 0 /\ h[x] \in Int
  BY <1>1
<1>3. PICK r, s, t, u : /\ r = SumFunctionOnSet(f, S) /\ s = SumFunctionOnSet(g, S)
                        /\ t = SumFunctionOnSet(h, S) /\ u = SumFunctionOnSet(z, S)
  OBVIOUS
<1>4. r \in Int /\ s \in Int /\ t \in Int
  BY <1>2, <1>3, SumInt
<1>5. u = 0
  <2>1. \A x \in S \ {} : z[x] = 0
    BY <1>2
  <2>2. u = SumFunctionOnSet(z, {})
    BY <1>2, <1>3, <2>1, SumSupport
  <2> QED BY <2>2, SumEmpty
<1>6. t - r >= 1 * (s - u)
  <2>1. \A x \in S : /\ h[x] \in Int /\ f[x] \in Int /\ g[x] \in Int /\ z[x] \in Int
                     /\ h[x] - f[x] >= 1 * (g[x] - z[x])
    BY <1>2
  <2>2. 1 \in Int
    OBVIOUS
  <2> QED BY <1>3, <2>1, <2>2, SumDominates
<1>7. r - t >= 1 * (u - s)
  <2>1. \A x \in S : /\ h[x] \in Int /\ f[x] \in Int /\ g[x] \in Int /\ z[x] \in Int
                     /\ f[x] - h[x] >= 1 * (z[x] - g[x])
    BY <1>2
  <2>2. 1 \in Int
    OBVIOUS
  <2> QED BY <1>3, <2>1, <2>2, SumDominates
<1>8. t = r + s
  BY <1>4, <1>5, <1>6, <1>7
<1> QED
  BY <1>3, <1>8

\* More elements have the larger sum.
LEMMA SumGrows ==
    ASSUME NEW S, IsFiniteSet(S), NEW f, \A x \in S : f[x] \in Nat, NEW T \in SUBSET S
    PROVE  SumFunctionOnSet(f, T) <= SumFunctionOnSet(f, S)
<1>1. PICK g : g = [x \in S |-> IF x \in T THEN f[x] ELSE 0]
  OBVIOUS
<1>2. /\ \A x \in S : g[x] \in Int /\ f[x] \in Int /\ g[x] <= f[x]
      /\ \A x \in S \ T : g[x] = 0
      /\ \A x \in T : g[x] = f[x]
  BY <1>1
<1>3. SumFunctionOnSet(g, S) <= SumFunctionOnSet(f, S)
  BY <1>2, SumLess
<1>4. SumFunctionOnSet(g, S) = SumFunctionOnSet(g, T)
  BY <1>2, SumSupport
<1>5. IsFiniteSet(T)
  BY FS_Subset
<1>6. SumFunctionOnSet(g, T) = SumFunctionOnSet(f, T)
  BY <1>2, <1>5, SumSame
<1> QED
  BY <1>3, <1>4, <1>6

\* No term exceeds the sum.
LEMMA SumMember ==
    ASSUME NEW S, IsFiniteSet(S), NEW f, \A x \in S : f[x] \in Nat, NEW x \in S
    PROVE  f[x] <= SumFunctionOnSet(f, S)
<1>1. IsFiniteSet(S \ {x})
  BY FS_Subset
<1>2. SumFunctionOnSet(f, S \ {x}) \in Nat
  BY <1>1, SumNat
<1>3. SumFunctionOnSet(f, S) = f[x] + SumFunctionOnSet(f, S \ {x})
  BY SumRemove
<1> QED
  BY <1>2, <1>3

\* What Min promises of naturals.
LEMMA MinIs ==
    ASSUME NEW S, S \subseteq Nat, S # {}
    PROVE  Min(S) \in S /\ \A x \in S : Min(S) <= x
BY LeastNat, Zenon DEF Min

-----------------------------------------------------------------------------
(***************************************************************************)
(* Orders, and the first elements of a set in an order.                    *)
(***************************************************************************)

\* R puts the elements of S in a row.
Orders(R, S) ==
    /\ \A x \in S : <<x, x>> \notin R
    /\ \A x, y, z \in S : <<x, y>> \in R /\ <<y, z>> \in R => <<x, z>> \in R
    /\ \A x, y \in S : x # y => <<x, y>> \in R \/ <<y, x>> \in R

\* The elements of S that fewer than n others go before.
FirstOf(n, S, R) == {d \in S : Cardinality({e \in S : <<e, d>> \in R}) < n}

\* A set that is not empty has a last element.
LEMMA LastExists ==
    ASSUME NEW S, IsFiniteSet(S), NEW R, Orders(R, S), S # {}
    PROVE  \E m \in S : \A x \in S \ {m} : <<x, m>> \in R
<1> DEFINE F == {T \in SUBSET S : T # {} => \E m \in T : \A x \in T \ {m} : <<x, m>> \in R}
<1>1. {} \in F
  OBVIOUS
<1>2. ASSUME NEW T \in SUBSET S, T # {}, \A x \in T : T \ {x} \in F PROVE T \in F
  <2>1. PICK a \in T : TRUE
    BY <1>2
  <2>2. CASE T \ {a} = {}
    <3>1. \A x \in T \ {a} : <<x, a>> \in R
      BY <2>2
    <3> QED BY <3>1
  <2>3. CASE T \ {a} # {}
    <3>1. T \ {a} \in F
      BY <1>2
    <3>2. PICK b \in T \ {a} : \A x \in (T \ {a}) \ {b} : <<x, b>> \in R
      BY <2>3, <3>1
    <3>3. CASE <<a, b>> \in R
      <4>1. \A x \in T \ {b} : <<x, b>> \in R
        BY <3>2, <3>3
      <4> QED BY <4>1
    <3>4. CASE <<a, b>> \notin R
      <4>1. <<b, a>> \in R
        BY <3>4 DEF Orders
      <4>2. ASSUME NEW x \in T \ {a} PROVE <<x, a>> \in R
        <5>1. x = b \/ <<x, b>> \in R
          BY <3>2
        <5> QED BY <4>1, <5>1 DEF Orders
      <4> QED BY <4>2
    <3> QED BY <3>3, <3>4
  <2> QED BY <2>2, <2>3
<1>3. \A T \in SUBSET S : T \in F
  <2> HIDE DEF F
  <2> QED BY <1>1, <1>2, AllFinite
<1> QED
  BY <1>3

\* And a first one.
LEMMA LeadExists ==
    ASSUME NEW S, IsFiniteSet(S), NEW R, Orders(R, S), S # {}
    PROVE  \E m \in S : \A x \in S \ {m} : <<m, x>> \in R
<1>1. PICK Q : Q = {e \in S \X S : <<e[2], e[1]>> \in R}
  OBVIOUS
<1>2. \A x, y \in S : <<x, y>> \in Q <=> <<y, x>> \in R
  BY <1>1
<1>3. Orders(Q, S)
  BY <1>2 DEF Orders
<1>4. PICK m \in S : \A x \in S \ {m} : <<x, m>> \in Q
  BY <1>3, LastExists
<1> QED
  BY <1>2, <1>4

\* What is in an order stays in it.
LEMMA OrdersSubset ==
    ASSUME NEW S, NEW R, Orders(R, S), NEW T \in SUBSET S
    PROVE  Orders(R, T)
  BY DEF Orders

\* The first n elements are n, or all, and go before the others.
LEMMA FirstSize ==
    ASSUME NEW S, IsFiniteSet(S), NEW R, Orders(R, S), NEW n \in Nat
    PROVE  Cardinality(FirstOf(n, S, R)) = IF n < Cardinality(S) THEN n ELSE Cardinality(S)
<1> DEFINE F == {T \in SUBSET S : Cardinality(FirstOf(n, T, R))
                                    = IF n < Cardinality(T) THEN n ELSE Cardinality(T)}
<1>1. {} \in F
  <2>1. FirstOf(n, {}, R) = {}
    BY DEF FirstOf
  <2> QED BY <2>1, FS_EmptySet
<1>2. ASSUME NEW T \in SUBSET S, T # {}, \A x \in T : T \ {x} \in F PROVE T \in F
  <2>1. IsFiniteSet(T) /\ Orders(R, T)
    BY FS_Subset, OrdersSubset
  <2>2. PICK m \in T : \A x \in T \ {m} : <<x, m>> \in R
    BY <1>2, <2>1, LastExists
  <2>3. PICK k \in Nat : k = Cardinality(T \ {m}) /\ Cardinality(T) = k + 1
    <3>1. Cardinality(T) \in Nat /\ Cardinality(T) # 0
      BY <1>2, <2>1, FS_CardinalityType, FS_EmptySet
    <3>2. Cardinality(T \ {m}) = Cardinality(T) - 1
      BY <2>1, FS_RemoveElement
    <3> QED BY <3>1, <3>2
  <2>4. {e \in T : <<e, m>> \in R} = T \ {m}
    BY <2>1, <2>2 DEF Orders
  <2>5. ASSUME NEW d \in T \ {m}
        PROVE  {e \in T : <<e, d>> \in R} = {e \in T \ {m} : <<e, d>> \in R}
    <3>1. <<m, d>> \notin R
      BY <2>1, <2>2 DEF Orders
    <3> QED BY <3>1
  <2>6. FirstOf(n, T \ {m}, R) = FirstOf(n, T, R) \ {m}
    BY <2>5 DEF FirstOf
  <2>7. m \in FirstOf(n, T, R) <=> k < n
    BY <2>3, <2>4 DEF FirstOf
  <2>8. Cardinality(FirstOf(n, T, R) \ {m}) = IF n < k THEN n ELSE k
    <3>1. T \ {m} \in F
      BY <1>2
    <3> QED BY <2>3, <2>6, <3>1
  <2>9. CASE k < n
    <3>1. FirstOf(n, T, R) = (FirstOf(n, T, R) \ {m}) \union {m}
      BY <2>7, <2>9
    <3>2. IsFiniteSet(FirstOf(n, T, R) \ {m})
      BY <2>1, FS_Subset DEF FirstOf
    <3>3. Cardinality(FirstOf(n, T, R)) = Cardinality(FirstOf(n, T, R) \ {m}) + 1
      BY <3>1, <3>2, FS_AddElement
    <3>4. Cardinality(FirstOf(n, T, R)) = k + 1
      BY <2>8, <2>9, <3>3
    <3> QED BY <2>3, <2>9, <3>4
  <2>10. CASE ~ (k < n)
    <3>1. FirstOf(n, T, R) \ {m} = FirstOf(n, T, R)
      BY <2>7, <2>10
    <3>2. Cardinality(FirstOf(n, T, R)) = n
      BY <2>8, <2>10, <3>1
    <3>3. n < k + 1
      BY <2>10
    <3> QED BY <2>3, <3>2, <3>3
  <2> QED BY <2>9, <2>10
<1>3. \A T \in SUBSET S : T \in F
  <2> HIDE DEF F
  <2> QED BY <1>1, <1>2, AllFinite
<1> QED
  BY <1>3

\* Each of them goes before each of the others.
LEMMA FirstAhead ==
    ASSUME NEW S, IsFiniteSet(S), NEW R, Orders(R, S), NEW n \in Nat,
           NEW x \in FirstOf(n, S, R), NEW y \in S \ FirstOf(n, S, R)
    PROVE  x \in S /\ <<x, y>> \in R
<1>1. x \in S /\ x # y
  BY DEF FirstOf
<1>2. ASSUME <<y, x>> \in R PROVE FALSE
  <2>1. PICK A, B : A = {e \in S : <<e, x>> \in R} /\ B = {e \in S : <<e, y>> \in R}
    OBVIOUS
  <2>2. B \subseteq A
    BY <1>1, <1>2, <2>1 DEF Orders
  <2>3. IsFiniteSet(A)
    BY <2>1, FS_Subset
  <2>4. Cardinality(B) <= Cardinality(A) /\ Cardinality(A) \in Nat /\ Cardinality(B) \in Nat
    BY <2>2, <2>3, FS_Subset, FS_CardinalityType
  <2>5. Cardinality(A) < n /\ ~ (Cardinality(B) < n)
    BY <2>1 DEF FirstOf
  <2> QED BY <2>4, <2>5
<1> QED
  BY <1>1, <1>2 DEF Orders

\* A part that holds the first n of a set has the same first n.
LEMMA FirstWithin ==
    ASSUME NEW S, IsFiniteSet(S), NEW R, Orders(R, S), NEW n \in Nat,
           NEW U \in SUBSET S, FirstOf(n, S, R) \subseteq U
    PROVE  FirstOf(n, U, R) = FirstOf(n, S, R)
<1>1. PICK F : F = FirstOf(n, S, R)
  OBVIOUS
<1>2. ASSUME NEW a \in F PROVE a \in FirstOf(n, U, R)
  <2>1. PICK B, C : B = {e \in S : <<e, a>> \in R} /\ C = {e \in U : <<e, a>> \in R}
    OBVIOUS
  <2>2. a \in U /\ Cardinality(B) < n
    BY <1>1, <2>1 DEF FirstOf
  <2>3. IsFiniteSet(B) /\ C \in SUBSET B
    BY <2>1, FS_Subset
  <2>4. Cardinality(C) <= Cardinality(B) /\ Cardinality(C) \in Nat /\ Cardinality(B) \in Nat
    BY <2>3, FS_Subset, FS_CardinalityType
  <2>5. Cardinality(C) < n
    BY <2>2, <2>4
  <2> QED BY <2>1, <2>2, <2>5 DEF FirstOf
<1>3. ASSUME NEW a \in FirstOf(n, U, R), a \notin F PROVE FALSE
  <2>1. PICK C : C = {e \in U : <<e, a>> \in R}
    OBVIOUS
  <2>2. a \in U /\ Cardinality(C) < n
    BY <2>1 DEF FirstOf
  <2>3. F \in SUBSET S /\ a \in S \ F
    BY <1>1, <1>3, <2>2 DEF FirstOf
  <2>4. \A x \in F : <<x, a>> \in R
    BY <1>1, <2>3, FirstAhead
  <2>5. F \subseteq C
    BY <1>1, <2>1, <2>4
  <2>6. IsFiniteSet(F) /\ Cardinality(F) \in Nat /\ Cardinality(S) \in Nat
    BY <2>3, FS_Subset, FS_CardinalityType
  <2>7. Cardinality(F) # Cardinality(S)
    BY <2>3, FS_Subset
  <2>8. Cardinality(F) = n
    BY <1>1, <2>7, FirstSize
  <2>9. IsFiniteSet(C)
    <3>1. C \in SUBSET S
      BY <2>1
    <3> QED BY <3>1, FS_Subset
  <2>10. Cardinality(F) <= Cardinality(C) /\ Cardinality(C) \in Nat
    BY <2>5, <2>9, FS_Subset, FS_CardinalityType
  <2> QED BY <2>2, <2>8, <2>10
<1>4. FirstOf(n, U, R) \subseteq F
  BY <1>3
<1> QED
  BY <1>1, <1>2, <1>4

\* Finitely many integers have a largest and a smallest.
LEMMA MaxIs ==
    ASSUME NEW S, S \subseteq Int, IsFiniteSet(S), S # {}
    PROVE  Max(S) \in S /\ \A x \in S : x <= Max(S)
<1>1. PICK R : R = {e \in S \X S : e[1] < e[2]}
  OBVIOUS
<1>2. \A x, y \in S : <<x, y>> \in R <=> x < y
  BY <1>1
<1>3. \A x \in S : x \in Int
  OBVIOUS
<1>4. Orders(R, S)
  BY <1>2, <1>3 DEF Orders
<1>5. PICK m \in S : \A x \in S \ {m} : <<x, m>> \in R
  BY <1>4, LastExists
<1>6. ASSUME NEW x \in S PROVE m >= x
  <2>1. m \in Int /\ x \in Int
    BY <1>3
  <2>2. x = m \/ x < m
    BY <1>2, <1>5
  <2> QED BY <2>1, <2>2
<1>7. Max(S) \in S /\ \A x \in S : Max(S) >= x
  BY <1>6 DEF Max
<1> QED
  BY <1>3, <1>7

\* And a smallest.
LEMMA LeastIs ==
    ASSUME NEW S, S \subseteq Int, IsFiniteSet(S), S # {}
    PROVE  Min(S) \in S /\ \A x \in S : Min(S) <= x
<1>1. PICK R : R = {e \in S \X S : e[1] < e[2]}
  OBVIOUS
<1>2. \A x, y \in S : <<x, y>> \in R <=> x < y
  BY <1>1
<1>3. \A x \in S : x \in Int
  OBVIOUS
<1>4. Orders(R, S)
  BY <1>2, <1>3 DEF Orders
<1>5. PICK m \in S : \A x \in S \ {m} : <<m, x>> \in R
  BY <1>4, LeadExists
<1>6. ASSUME NEW x \in S PROVE m <= x
  <2>1. m \in Int /\ x \in Int
    BY <1>3
  <2>2. x = m \/ m < x
    BY <1>2, <1>5
  <2> QED BY <2>1, <2>2
<1> QED
  BY <1>6 DEF Min

\* An image of a finite set is finite, and no larger.
LEMMA ImageIs ==
    ASSUME NEW S, IsFiniteSet(S), NEW h
    PROVE  /\ IsFiniteSet({h[x] : x \in S})
           /\ (\A x, y \in S : h[x] = h[y] => x = y) =>
                Cardinality({h[x] : x \in S}) = Cardinality(S)
<1>1. PICK T : T = {h[x] : x \in S}
  OBVIOUS
<1>2. PICK f : f = [x \in S |-> h[x]]
  OBVIOUS
<1>3. f \in Surjection(S, T)
  BY <1>1, <1>2 DEF Surjection
<1>4. IsFiniteSet(T)
  BY <1>3, FS_Surjection
<1>5. ASSUME \A x, y \in S : h[x] = h[y] => x = y
      PROVE  Cardinality(T) = Cardinality(S)
  <2>1. f \in Injection(S, T)
    BY <1>1, <1>2, <1>5 DEF Injection, IsInjective
  <2> QED BY <1>3, <2>1, FS_Surjection
<1> QED
  BY <1>1, <1>4, <1>5

-----------------------------------------------------------------------------
(***************************************************************************)
(* Sums of ones, of differences and over unions, and the cheapest choice.  *)
(***************************************************************************)

\* Ones count.
LEMMA SumOnes ==
    ASSUME NEW S, IsFiniteSet(S), NEW f, \A x \in S : f[x] = 1
    PROVE  SumFunctionOnSet(f, S) = Cardinality(S)
<1> DEFINE F == {T \in SUBSET S : SumFunctionOnSet(f, T) = Cardinality(T)}
<1>1. {} \in F
  BY SumEmpty, FS_EmptySet
<1>2. ASSUME NEW T \in SUBSET S, T # {}, \A x \in T : T \ {x} \in F PROVE T \in F
  <2>1. PICK a \in T : TRUE
    BY <1>2
  <2>2. IsFiniteSet(T)
    BY FS_Subset
  <2>3. SumFunctionOnSet(f, T) = 1 + SumFunctionOnSet(f, T \ {a})
    BY <2>2, SumRemove
  <2>4. SumFunctionOnSet(f, T \ {a}) = Cardinality(T \ {a})
    BY <1>2
  <2>5. Cardinality(T \ {a}) = Cardinality(T) - 1 /\ Cardinality(T) \in Nat
    BY <2>2, FS_RemoveElement, FS_CardinalityType
  <2> QED BY <2>3, <2>4, <2>5
<1>3. \A T \in SUBSET S : T \in F
  <2> HIDE DEF F
  <2> QED BY <1>1, <1>2, AllFinite
<1> QED
  BY <1>3

\* What is added over two sets apart.
LEMMA SumApart ==
    ASSUME NEW A, NEW B, IsFiniteSet(A), IsFiniteSet(B), A \cap B = {},
           NEW f, \A x \in A \union B : f[x] \in Int
    PROVE  SumFunctionOnSet(f, A \union B) = SumFunctionOnSet(f, A) + SumFunctionOnSet(f, B)
<1>1. PICK S : S = A \union B /\ IsFiniteSet(S)
  BY FS_Union
<1>2. PICK g, h : /\ g = [x \in S |-> IF x \in A THEN f[x] ELSE 0]
                  /\ h = [x \in S |-> IF x \in A THEN 0 ELSE f[x]]
  OBVIOUS
<1>3. /\ A \in SUBSET S /\ B \in SUBSET S
      /\ \A x \in S : g[x] \in Int /\ h[x] \in Int /\ f[x] = g[x] + h[x]
      /\ \A x \in S \ A : g[x] = 0
      /\ \A x \in S \ B : h[x] = 0
      /\ \A x \in A : g[x] = f[x]
      /\ \A x \in B : h[x] = f[x]
  BY <1>1, <1>2
<1>4. SumFunctionOnSet(f, S) = SumFunctionOnSet(g, S) + SumFunctionOnSet(h, S)
  BY <1>1, <1>3, SumPlus
<1>5. SumFunctionOnSet(g, S) = SumFunctionOnSet(g, A)
  BY <1>1, <1>3, SumSupport
<1>6. SumFunctionOnSet(h, S) = SumFunctionOnSet(h, B)
  BY <1>1, <1>3, SumSupport
<1>7. /\ SumFunctionOnSet(g, A) = SumFunctionOnSet(f, A)
      /\ SumFunctionOnSet(h, B) = SumFunctionOnSet(f, B)
  BY <1>3, SumSame
<1> QED
  BY <1>1, <1>4, <1>5, <1>6, <1>7

\* The sum over sets apart is the sum of their sums.
LEMMA SumUnion ==
    ASSUME NEW G, IsFiniteSet(G), NEW M, \A g \in G : IsFiniteSet(M[g]),
           \A g, h \in G : g # h => M[g] \cap M[h] = {},
           NEW f, \A g \in G : \A x \in M[g] : f[x] \in Int,
           NEW c, \A g \in G : c[g] = SumFunctionOnSet(f, M[g])
    PROVE  SumFunctionOnSet(f, UNION {M[g] : g \in G}) = SumFunctionOnSet(c, G)
<1> DEFINE F == {T \in SUBSET G : /\ IsFiniteSet(UNION {M[g] : g \in T})
                                  /\ SumFunctionOnSet(f, UNION {M[g] : g \in T})
                                       = SumFunctionOnSet(c, T)}
<1>1. {} \in F
  <2>1. UNION {M[g] : g \in {}} = {}
    OBVIOUS
  <2> QED BY <2>1, SumEmpty, FS_EmptySet
<1>2. ASSUME NEW T \in SUBSET G, T # {}, \A x \in T : T \ {x} \in F PROVE T \in F
  <2>1. PICK a \in T : TRUE
    BY <1>2
  <2>2. PICK A, B : A = UNION {M[g] : g \in T \ {a}} /\ B = M[a]
    OBVIOUS
  <2>3. UNION {M[g] : g \in T} = A \union B
    BY <2>2
  <2>4. A \cap B = {}
    BY <2>2
  <2>5. IsFiniteSet(A) /\ SumFunctionOnSet(f, A) = SumFunctionOnSet(c, T \ {a})
    BY <1>2, <2>2
  <2>6. IsFiniteSet(B) /\ SumFunctionOnSet(f, B) = c[a]
    BY <2>2
  <2>7. \A x \in A \union B : f[x] \in Int
    BY <2>2
  <2>8. SumFunctionOnSet(f, A \union B) = SumFunctionOnSet(f, A) + SumFunctionOnSet(f, B)
    BY <2>4, <2>5, <2>6, <2>7, SumApart
  <2>9. \A g \in T : c[g] \in Int
    <3>1. ASSUME NEW g \in T PROVE SumFunctionOnSet(f, M[g]) \in Int
      BY SumInt
    <3> QED BY <3>1
  <2>10. IsFiniteSet(T) /\ IsFiniteSet(T \ {a})
    BY FS_Subset
  <2>11. SumFunctionOnSet(c, T) = c[a] + SumFunctionOnSet(c, T \ {a})
    BY <2>9, <2>10, SumRemove
  <2>12. SumFunctionOnSet(c, T \ {a}) \in Int /\ c[a] \in Int
    BY <2>9, <2>10, SumInt
  <2>13. IsFiniteSet(A \union B)
    BY <2>5, <2>6, FS_Union
  <2>14. SumFunctionOnSet(f, A \union B) = SumFunctionOnSet(c, T)
    BY <2>5, <2>6, <2>8, <2>11, <2>12
  <2> QED BY <2>3, <2>13, <2>14
<1>3. \A T \in SUBSET G : T \in F
  <2> HIDE DEF F
  <2> QED BY <1>1, <1>2, AllFinite
<1> QED
  BY <1>3

\* No choice of as many is cheaper than elements that cost no more than the others.
LEMMA CheapestSum ==
    ASSUME NEW S, IsFiniteSet(S), NEW c, \A x \in S : c[x] \in Int,
           NEW P \in SUBSET S, NEW T \in SUBSET S, Cardinality(P) = Cardinality(T),
           \A x \in P, y \in S \ P : c[x] <= c[y]
    PROVE  SumFunctionOnSet(c, P) <= SumFunctionOnSet(c, T)
<1>1. IsFiniteSet(P) /\ IsFiniteSet(T)
  BY FS_Subset
<1>2. CASE P = {}
  <2>1. T = {}
    BY <1>1, <1>2, FS_EmptySet
  <2> QED BY <1>2, <2>1, SumEmpty
<1>3. CASE P # {}
  <2>1. PICK C : C = {c[x] : x \in P}
    OBVIOUS
  <2>2. C \subseteq Int /\ C # {} /\ IsFiniteSet(C)
    BY <1>1, <1>3, <2>1, ImageIs
  <2>3. PICK t : t = Max(C)
    OBVIOUS
  <2>4. t \in C /\ \A n \in C : n <= t
    BY <2>2, <2>3, MaxIs
  <2>5. t \in Int /\ (\A x \in P : c[x] <= t) /\ (\A y \in S \ P : t <= c[y])
    BY <2>1, <2>2, <2>4
  <2>6. PICK a, b, u, v : /\ a = [x \in S |-> IF x \in T THEN c[x] ELSE 0]
                          /\ b = [x \in S |-> IF x \in P THEN c[x] ELSE 0]
                          /\ u = [x \in S |-> IF x \in T THEN 1 ELSE 0]
                          /\ v = [x \in S |-> IF x \in P THEN 1 ELSE 0]
    OBVIOUS
  <2>7. ASSUME NEW x \in S
        PROVE  /\ a[x] \in Int /\ b[x] \in Int /\ u[x] \in Int /\ v[x] \in Int
               /\ a[x] - b[x] >= t * (u[x] - v[x])
    <3>1. PICK k \in Int : k = c[x]
      OBVIOUS
    <3>2. t * 0 = 0 /\ t * 1 = t /\ t * (0 - 1) = 0 - t
      BY <2>5
    <3>3. CASE x \in T /\ x \in P
      <4>1. a[x] = k /\ b[x] = k /\ u[x] = 1 /\ v[x] = 1
        BY <2>6, <3>1, <3>3
      <4>2. u[x] - v[x] = 0
        BY <4>1
      <4> QED BY <3>2, <4>1, <4>2
    <3>4. CASE x \in T /\ x \notin P
      <4>1. a[x] = k /\ b[x] = 0 /\ u[x] = 1 /\ v[x] = 0 /\ t <= k
        BY <2>5, <2>6, <3>1, <3>4
      <4>2. u[x] - v[x] = 1
        BY <4>1
      <4> QED BY <2>5, <3>2, <4>1, <4>2
    <3>5. CASE x \notin T /\ x \in P
      <4>1. a[x] = 0 /\ b[x] = k /\ u[x] = 0 /\ v[x] = 1 /\ k <= t
        BY <2>5, <2>6, <3>1, <3>5
      <4>2. u[x] - v[x] = 0 - 1
        BY <4>1
      <4> QED BY <2>5, <3>2, <4>1, <4>2
    <3>6. CASE x \notin T /\ x \notin P
      <4>1. a[x] = 0 /\ b[x] = 0 /\ u[x] = 0 /\ v[x] = 0
        BY <2>6, <3>6
      <4>2. u[x] - v[x] = 0
        BY <4>1
      <4> QED BY <3>2, <4>1, <4>2
    <3> QED BY <3>3, <3>4, <3>5, <3>6
  <2>8. SumFunctionOnSet(a, S) - SumFunctionOnSet(b, S)
          >= t * (SumFunctionOnSet(u, S) - SumFunctionOnSet(v, S))
    BY <2>5, <2>7, SumDominates
  <2>9. SumFunctionOnSet(a, S) = SumFunctionOnSet(c, T)
    <3>1. \A x \in S \ T : a[x] = 0
      BY <2>6
    <3>2. SumFunctionOnSet(a, S) = SumFunctionOnSet(a, T)
      BY <2>7, <3>1, SumSupport
    <3>3. \A x \in T : a[x] = c[x]
      BY <2>6
    <3>4. SumFunctionOnSet(a, T) = SumFunctionOnSet(c, T)
      BY <1>1, <3>3, SumSame
    <3> QED BY <3>2, <3>4
  <2>10. SumFunctionOnSet(b, S) = SumFunctionOnSet(c, P)
    <3>1. \A x \in S \ P : b[x] = 0
      BY <2>6
    <3>2. SumFunctionOnSet(b, S) = SumFunctionOnSet(b, P)
      BY <2>7, <3>1, SumSupport
    <3>3. \A x \in P : b[x] = c[x]
      BY <2>6
    <3>4. SumFunctionOnSet(b, P) = SumFunctionOnSet(c, P)
      BY <1>1, <3>3, SumSame
    <3> QED BY <3>2, <3>4
  <2>11. SumFunctionOnSet(u, S) = Cardinality(T)
    <3>1. \A x \in S \ T : u[x] = 0
      BY <2>6
    <3>2. SumFunctionOnSet(u, S) = SumFunctionOnSet(u, T)
      BY <2>7, <3>1, SumSupport
    <3>3. \A x \in T : u[x] = 1
      BY <2>6
    <3> QED BY <1>1, <3>2, <3>3, SumOnes
  <2>12. SumFunctionOnSet(v, S) = Cardinality(P)
    <3>1. \A x \in S \ P : v[x] = 0
      BY <2>6
    <3>2. SumFunctionOnSet(v, S) = SumFunctionOnSet(v, P)
      BY <2>7, <3>1, SumSupport
    <3>3. \A x \in P : v[x] = 1
      BY <2>6
    <3> QED BY <1>1, <3>2, <3>3, SumOnes
  <2>13. SumFunctionOnSet(c, P) \in Int /\ SumFunctionOnSet(c, T) \in Int
    BY <1>1, SumInt
  <2>14. SumFunctionOnSet(u, S) - SumFunctionOnSet(v, S) = 0
    <3>1. Cardinality(P) \in Nat
      BY <1>1, FS_CardinalityType
    <3> QED BY <2>11, <2>12, <3>1
  <2>15. t * (SumFunctionOnSet(u, S) - SumFunctionOnSet(v, S)) = 0
    BY <2>5, <2>14
  <2> QED BY <2>8, <2>9, <2>10, <2>13, <2>15
<1> QED
  BY <1>2, <1>3
=============================================================================
