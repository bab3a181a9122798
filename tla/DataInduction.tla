--------------------------- MODULE DataInduction ---------------------------
(***************************************************************************)
(* Induction over naturals and sums over finite sets, for the proofs about  *)
(* the modules of pquery.  An induction is stated with the set of the       *)
(* numbers that have a property in place of the property.                   *)
(***************************************************************************)
EXTENDS Integers, FiniteSetsExt, Functions, FiniteSetTheorems, TLAPS

\* A set of naturals with an element has a least one.
THEOREM LeastElement ==
  ASSUME NEW S \in SUBSET Nat, S # {}
  PROVE  \E x \in S : \A y \in S : x <= y
<1> DEFINE R == OpToRel(<, Nat)
<1>1. IsWellFoundedOn(R, Nat)
  BY NatLessThanWellFounded
<1>2. \A x, y \in Nat : <<y, x>> \in R <=> y < x
  BY DEF OpToRel
<1> HIDE DEF R
<1>3. PICK x \in S : \A y \in S : ~(<<y, x>> \in R)
  BY <1>1, WFMin
<1>4. ASSUME NEW y \in S PROVE x <= y
  <2>1. ~(y < x)
    BY <1>2, <1>3
  <2> QED
    BY <2>1
<1> QED
  BY <1>4

\* A set that has 0 and, with a number, the next one, has all naturals.
THEOREM NatSetInduction ==
  ASSUME NEW S, 0 \in S, \A n \in Nat : n \in S => n + 1 \in S
  PROVE  \A n \in Nat : n \in S
<1> DEFINE T == {n \in Nat : n \notin S}
<1>1. SUFFICES ASSUME T # {} PROVE FALSE
  OBVIOUS
<1>2. PICK x \in T : \A y \in T : x <= y
  BY <1>1, LeastElement
<1>3. x \in Nat /\ x - 1 \in Nat /\ x = (x - 1) + 1
  BY <1>2
<1>4. x - 1 \in T
  BY <1>2, <1>3
<1> QED
  BY <1>2, <1>3, <1>4

\* The same from a number up, as far as a last one.
THEOREM RangeInduction ==
  ASSUME NEW a \in Nat, NEW b \in Nat, NEW S,
         a \in S, \A n \in a..(b - 1) : n \in S => n + 1 \in S
  PROVE  \A n \in a..b : n \in S
<1> DEFINE T == {n \in Nat : a + n <= b => a + n \in S}
<1>1. 0 \in T
  OBVIOUS
<1>2. ASSUME NEW n \in Nat, n \in T PROVE n + 1 \in T
  <2>1. CASE a + (n + 1) <= b
    <3>1. a + n \in a..(b - 1) /\ a + n \in S
      BY <1>2, <2>1
    <3>2. (a + n) + 1 \in S /\ a + (n + 1) = (a + n) + 1
      BY <3>1
    <3> QED
      BY <3>2
  <2> QED
    BY <2>1
<1> HIDE DEF T
<1>3. \A n \in Nat : n \in T
  BY <1>1, <1>2, NatSetInduction
<1> USE DEF T
<1> QED
  <2> TAKE n \in a..b
  <2>1. n - a \in Nat /\ a + (n - a) = n
    OBVIOUS
  <2>2. n - a \in T
    BY <1>3, <2>1
  <2> QED
    BY <2>1, <2>2

\* A set of numbers up to n with an element has a greatest one.
THEOREM GreatestElement ==
  ASSUME NEW n \in Nat, NEW S \in SUBSET (0..n), S # {}
  PROVE  \E x \in S : \A y \in S : x >= y
<1> DEFINE Down == {d \in 0..n : n - d \in S}
<1>1. Down \in SUBSET Nat /\ Down # {}
  <2>1. PICK x \in S : TRUE
    OBVIOUS
  <2>2. x \in 0..n /\ n - (n - x) = x
    BY <2>1
  <2>3. n - x \in Down
    BY <2>1, <2>2
  <2>4. Down \in SUBSET Nat
    OBVIOUS
  <2> QED
    BY <2>3, <2>4
<1>2. PICK d \in Down : \A e \in Down : d <= e
  BY <1>1, LeastElement
<1>3. n - d \in S /\ d \in 0..n
  BY <1>2
<1>4. ASSUME NEW y \in S PROVE n - d >= y
  <2>1. y \in 0..n /\ n - (n - y) = y
    OBVIOUS
  <2>2. n - y \in Down
    BY <2>1
  <2>3. d <= n - y
    BY <2>2, <1>2
  <2> QED
    BY <2>1, <2>3, <1>3
<1> QED
  BY <1>3, <1>4

\* What Min and Max of FiniteSetsExt return.
THEOREM MinIs ==
  ASSUME NEW S \in SUBSET Nat, S # {}
  PROVE  Min(S) \in S /\ \A y \in S : Min(S) <= y
BY LeastElement DEF Min

THEOREM MaxIs ==
  ASSUME NEW n \in Nat, NEW S \in SUBSET (0..n), S # {}
  PROVE  Max(S) \in S /\ \A y \in S : Max(S) >= y
BY GreatestElement DEF Max

-----------------------------------------------------------------------------
(* Sums                                                                    *)

\* How a sum over the subsets of S is built up, one element at a time.
Adds(g, f, S) ==
  g = [s \in SUBSET S |->
         IF s = {} THEN 0
         ELSE LET x == CHOOSE x \in s : TRUE IN f[x] + g[s \ {x}]]

\* Such a function exists.
LEMMA AddsExists ==
  ASSUME NEW f, NEW S, IsFiniteSet(S)
  PROVE  \E g : Adds(g, f, S)
<1> DEFINE c(s) == CHOOSE x \in s : TRUE
           Small(n) == {s \in SUBSET S : Cardinality(s) <= n}
           On(g, n) == g = [s \in Small(n) |->
                              IF s = {} THEN 0 ELSE f[c(s)] + g[s \ {c(s)}]]
           P == {n \in Nat : \E g : On(g, n)}
<1>1. \A s \in SUBSET S : IsFiniteSet(s) /\ Cardinality(s) \in Nat
  BY FS_Subset, FS_CardinalityType
<1>2. ASSUME NEW s \in SUBSET S, s # {}
      PROVE  /\ c(s) \in s /\ s \ {c(s)} \in SUBSET S
             /\ Cardinality(s \ {c(s)}) = Cardinality(s) - 1
  BY <1>1, <1>2, FS_RemoveElement
<1> HIDE DEF c
<1>0. \A n \in Nat : n \in P <=> \E g : On(g, n)
  OBVIOUS
<1> HIDE DEF P
<1>3. 0 \in P
  <2>1. \A s \in Small(0) : s = {}
    BY <1>1, FS_EmptySet
  <2>2. On([s \in Small(0) |-> 0], 0)
    BY <2>1
  <2> QED
    BY <2>2, <1>0
<1>4. ASSUME NEW n \in Nat, n \in P PROVE n + 1 \in P
  <2>1. PICK g : On(g, n)
    BY <1>4, <1>0
  <2> DEFINE h == [s \in Small(n + 1) |->
                     IF s = {} THEN 0 ELSE f[c(s)] + g[s \ {c(s)}]]
  <2>2. ASSUME NEW s \in Small(n + 1), s # {}
        PROVE  h[s \ {c(s)}] = g[s \ {c(s)}]
    <3> DEFINE r == s \ {c(s)}
    <3>1. r \in SUBSET S /\ Cardinality(r) = Cardinality(s) - 1
      BY <1>2, <2>2
    <3>2. r \in Small(n) /\ r \in Small(n + 1)
      BY <1>1, <3>1
    <3> HIDE DEF r
    <3>3. g[r] = IF r = {} THEN 0 ELSE f[c(r)] + g[r \ {c(r)}]
      BY <2>1, <3>2
    <3>4. h[r] = IF r = {} THEN 0 ELSE f[c(r)] + g[r \ {c(r)}]
      BY <3>2
    <3> QED
      BY <3>3, <3>4 DEF r
  <2>3. ASSUME NEW s \in Small(n + 1)
        PROVE  h[s] = IF s = {} THEN 0 ELSE f[c(s)] + h[s \ {c(s)}]
    BY <2>2
  <2> HIDE DEF h
  <2>4. h = [s \in Small(n + 1) |-> h[s]]
    BY DEF h
  <2>5. On(h, n + 1)
    BY <2>3, <2>4, Zenon
  <2>6. \E k : On(k, n + 1)
    BY <2>5
  <2> HIDE DEF On
  <2> QED
    BY <2>6, <1>0
<1>5. Cardinality(S) \in P
  BY <1>1, <1>3, <1>4, NatSetInduction
<1>6. PICK g : On(g, Cardinality(S))
  BY <1>0, <1>1, <1>5, FS_CardinalityType
<1>7. Small(Cardinality(S)) = SUBSET S
  BY <1>1, FS_Subset
<1>8. Adds(g, f, S)
  BY <1>6, <1>7, Zenon DEF Adds, c
<1> QED
  BY <1>8

LEMMA SumIsAdded ==
  ASSUME NEW f, NEW S, IsFiniteSet(S)
  PROVE  \E g : Adds(g, f, S) /\ SumFunctionOnSet(f, S) = g[S]
<1> DEFINE g == CHOOSE g : Adds(g, f, S)
<1>1. Adds(g, f, S)
  BY AddsExists
<1>2. SumFunctionOnSet(f, S) = g[S]
  BY DEF SumFunctionOnSet, FoldFunctionOnSet, MapThenFoldSet, Adds
<1> QED
  BY <1>1, <1>2

\* A sum depends on the values in the set only, not on how it is built up.
LEMMA AddsAgree ==
  ASSUME NEW f, NEW S, NEW g, IsFiniteSet(S), Adds(g, f, S),
         NEW ff, NEW T, NEW h, IsFiniteSet(T), Adds(h, ff, T),
         NEW U \in SUBSET S, U \in SUBSET T, \A x \in U : f[x] = ff[x]
  PROVE  g[U] = h[U]
<1> DEFINE P == {n \in Nat : \A s \in SUBSET U : Cardinality(s) = n => g[s] = h[s]}
<1>1. \A s \in SUBSET U : IsFiniteSet(s) /\ Cardinality(s) \in Nat
  BY FS_Subset, FS_CardinalityType
<1>2. ASSUME NEW s \in SUBSET U, s # {}
      PROVE  \E x \in s :
               /\ s \ {x} \in SUBSET U
               /\ Cardinality(s \ {x}) = Cardinality(s) - 1
               /\ g[s] = f[x] + g[s \ {x}]
               /\ h[s] = ff[x] + h[s \ {x}]
  <2> DEFINE x == CHOOSE x \in s : TRUE
  <2>1. x \in s /\ s \ {x} \in SUBSET U
    BY <1>2
  <2>2. s \in SUBSET S /\ s \in SUBSET T
    OBVIOUS
  <2>3. g[s] = f[x] + g[s \ {x}] /\ h[s] = ff[x] + h[s \ {x}]
    BY <1>2, <2>2 DEF Adds
  <2> HIDE DEF x
  <2>4. Cardinality(s \ {x}) = Cardinality(s) - 1
    BY <1>1, <2>1, FS_RemoveElement
  <2> QED
    BY <2>1, <2>3, <2>4
<1>3. 0 \in P
  <2>1. ASSUME NEW s \in SUBSET U, Cardinality(s) = 0 PROVE g[s] = h[s]
    <3>1. s = {}
      BY <1>1, <2>1, FS_EmptySet
    <3>2. g[{}] = 0 /\ h[{}] = 0
      BY DEF Adds
    <3> QED
      BY <3>1, <3>2
  <2> QED
    BY <2>1
<1>4. ASSUME NEW n \in Nat, n \in P PROVE n + 1 \in P
  <2>1. ASSUME NEW s \in SUBSET U, Cardinality(s) = n + 1 PROVE g[s] = h[s]
    <3>1. s # {}
      BY <2>1, FS_EmptySet
    <3>2. PICK x \in s :
               /\ s \ {x} \in SUBSET U
               /\ Cardinality(s \ {x}) = Cardinality(s) - 1
               /\ g[s] = f[x] + g[s \ {x}]
               /\ h[s] = ff[x] + h[s \ {x}]
      BY <1>2, <3>1
    <3>3. g[s \ {x}] = h[s \ {x}]
      BY <1>4, <2>1, <3>2
    <3> QED
      BY <3>2, <3>3
  <2> QED
    BY <2>1
<1>5. Cardinality(U) \in P
  <2> HIDE DEF P
  <2> QED
    BY <1>1, <1>3, <1>4, NatSetInduction
<1> QED
  BY <1>5

\* Functions that agree on a set have the same sum over it.
THEOREM SumSame ==
  ASSUME NEW S, IsFiniteSet(S), NEW f, NEW g, \A x \in S : f[x] = g[x]
  PROVE  SumFunctionOnSet(f, S) = SumFunctionOnSet(g, S)
<1>1. PICK a : Adds(a, f, S) /\ SumFunctionOnSet(f, S) = a[S]
  BY SumIsAdded
<1>2. PICK b : Adds(b, g, S) /\ SumFunctionOnSet(g, S) = b[S]
  BY SumIsAdded
<1>3. a[S] = b[S]
  BY <1>1, <1>2, AddsAgree
<1> QED
  BY <1>1, <1>2, <1>3

\* Nothing sums up to 0.
THEOREM SumEmpty ==
  ASSUME NEW f PROVE SumFunctionOnSet(f, {}) = 0
<1>1. IsFiniteSet({})
  BY FS_EmptySet
<1>2. PICK g : Adds(g, f, {}) /\ SumFunctionOnSet(f, {}) = g[{}]
  BY <1>1, SumIsAdded
<1> QED
  BY <1>2 DEF Adds

\* A sum is the chosen element's value and the sum of the others.
LEMMA SumOfChosen ==
  ASSUME NEW f, NEW S, IsFiniteSet(S), S # {}
  PROVE  LET x == CHOOSE x \in S : TRUE
         IN  /\ x \in S
             /\ SumFunctionOnSet(f, S) = f[x] + SumFunctionOnSet(f, S \ {x})
<1> DEFINE x == CHOOSE x \in S : TRUE
           R == S \ {x}
<1>1. x \in S /\ R \in SUBSET S /\ IsFiniteSet(R)
  BY FS_Subset
<1>2. PICK g : Adds(g, f, S) /\ SumFunctionOnSet(f, S) = g[S]
  BY SumIsAdded
<1>3. g[S] = f[x] + g[R]
  BY <1>2 DEF Adds
<1> HIDE DEF R
<1>4. PICK h : Adds(h, f, R) /\ SumFunctionOnSet(f, R) = h[R]
  BY <1>1, SumIsAdded
<1>5. g[R] = h[R]
  BY <1>1, <1>2, <1>4, AddsAgree
<1> QED
  BY <1>1, <1>2, <1>3, <1>4, <1>5 DEF R

\* A sum of naturals is one.
THEOREM SumIsNat ==
  ASSUME NEW f, NEW S, IsFiniteSet(S), \A x \in S : f[x] \in Nat
  PROVE  SumFunctionOnSet(f, S) \in Nat
<1> DEFINE P == {n \in Nat : \A s \in SUBSET S :
                   Cardinality(s) = n => SumFunctionOnSet(f, s) \in Nat}
<1>1. \A s \in SUBSET S : IsFiniteSet(s) /\ Cardinality(s) \in Nat
  BY FS_Subset, FS_CardinalityType
<1>2. 0 \in P
  <2>1. ASSUME NEW s \in SUBSET S, Cardinality(s) = 0
        PROVE  SumFunctionOnSet(f, s) \in Nat
    <3>1. s = {}
      BY <1>1, <2>1, FS_EmptySet
    <3> QED
      BY <3>1, SumEmpty
  <2> QED
    BY <2>1
<1>3. ASSUME NEW n \in Nat, n \in P PROVE n + 1 \in P
  <2>1. ASSUME NEW s \in SUBSET S, Cardinality(s) = n + 1
        PROVE  SumFunctionOnSet(f, s) \in Nat
    <3> DEFINE x == CHOOSE x \in s : TRUE
    <3>1. s # {} /\ IsFiniteSet(s)
      BY <1>1, <2>1, FS_EmptySet
    <3>2. x \in s /\ SumFunctionOnSet(f, s) = f[x] + SumFunctionOnSet(f, s \ {x})
      BY <3>1, SumOfChosen
    <3> HIDE DEF x
    <3>3. Cardinality(s \ {x}) = n
      BY <1>1, <2>1, <3>2, FS_RemoveElement
    <3>4. SumFunctionOnSet(f, s \ {x}) \in Nat
      BY <1>3, <3>3
    <3> QED
      BY <3>2, <3>4
  <2> QED
    BY <2>1
<1>4. Cardinality(S) \in P
  <2> HIDE DEF P
  <2> QED
    BY <1>1, <1>2, <1>3, NatSetInduction
<1> QED
  BY <1>4

\* One more element adds its value, whichever it is.
THEOREM SumAdd ==
  ASSUME NEW S, IsFiniteSet(S), NEW y, y \notin S,
         NEW f, \A x \in S \cup {y} : f[x] \in Nat
  PROVE  SumFunctionOnSet(f, S \cup {y}) = f[y] + SumFunctionOnSet(f, S)
<1> DEFINE Sum(s) == SumFunctionOnSet(f, s)
           V == S \cup {y}
           P == {n \in Nat : \A s \in SUBSET V : Cardinality(s) = n =>
                   \A z \in V \ s : Sum(s \cup {z}) = f[z] + Sum(s)}
<1>1. IsFiniteSet(V)
  BY FS_AddElement
<1>2. \A s \in SUBSET V :
        IsFiniteSet(s) /\ Cardinality(s) \in Nat /\ Sum(s) \in Nat
  <2>1. \A s \in SUBSET V : IsFiniteSet(s) /\ Cardinality(s) \in Nat
    BY <1>1, FS_Subset, FS_CardinalityType
  <2>2. \A s \in SUBSET V : Sum(s) \in Nat
    BY <2>1, SumIsNat
  <2> QED
    BY <2>1, <2>2
<1>3. \A s \in SUBSET V : s # {} =>
        LET x == CHOOSE x \in s : TRUE
        IN  x \in s /\ Sum(s) = f[x] + Sum(s \ {x})
  BY <1>2, SumOfChosen
<1>4. Sum({}) = 0
  BY SumEmpty
<1> HIDE DEF Sum
<1>5. 0 \in P
  <2>1. ASSUME NEW s \in SUBSET V, Cardinality(s) = 0, NEW z \in V \ s
        PROVE  Sum(s \cup {z}) = f[z] + Sum(s)
    <3>1. s = {} /\ s \cup {z} = {z}
      BY <1>2, <2>1, FS_EmptySet
    <3>2. (CHOOSE x \in {z} : TRUE) = z /\ {z} \ {z} = {}
      OBVIOUS
    <3>3. Sum({z}) = f[z] + Sum({})
      BY <1>3, <3>2
    <3> QED
      BY <3>1, <3>3
  <2> QED
    BY <2>1
<1>6. ASSUME NEW n \in Nat, n \in P PROVE n + 1 \in P
  <2>1. ASSUME NEW s \in SUBSET V, Cardinality(s) = n + 1, NEW z \in V \ s
        PROVE  Sum(s \cup {z}) = f[z] + Sum(s)
    <3> DEFINE u == s \cup {z}
               x == CHOOSE x \in u : TRUE
    <3>1. u \in SUBSET V /\ u # {}
      OBVIOUS
    <3>2. x \in u /\ Sum(u) = f[x] + Sum(u \ {x})
      BY <1>3, <3>1
    <3> HIDE DEF x
    <3>3. CASE x = z
      <4>1. u \ {x} = s
        BY <3>3
      <4> QED
        BY <3>2, <3>3, <4>1
    <3>4. CASE x # z
      <4> DEFINE r == s \ {x}
      <4>1. /\ x \in s /\ x \in V \ r /\ z \in V \ r /\ r \in SUBSET V
            /\ u \ {x} = r \cup {z} /\ s = r \cup {x}
        BY <3>2, <3>4
      <4>2. Cardinality(r) = n
        BY <1>2, <2>1, <4>1, FS_RemoveElement
      <4> HIDE DEF r
      <4>3. Sum(r \cup {z}) = f[z] + Sum(r) /\ Sum(r \cup {x}) = f[x] + Sum(r)
        BY <1>6, <4>1, <4>2
      <4>4. Sum(r) \in Nat /\ f[x] \in Nat /\ f[z] \in Nat
        BY <1>2, <4>1
      <4>5. Sum(u) = f[x] + (f[z] + Sum(r)) /\ Sum(s) = f[x] + Sum(r)
        BY <3>2, <4>1, <4>3
      <4> QED
        BY <4>4, <4>5
    <3> QED
      BY <3>3, <3>4
  <2> QED
    BY <2>1
<1>7. Cardinality(S) \in P
  <2> HIDE DEF P
  <2>1. Cardinality(S) \in Nat
    BY <1>2
  <2> QED
    BY <1>5, <1>6, <2>1, NatSetInduction
<1>8. S \in SUBSET V /\ y \in V \ S
  OBVIOUS
<1>9. Sum(S \cup {y}) = f[y] + Sum(S)
  BY <1>7, <1>8
<1> QED
  BY <1>9 DEF Sum
=============================================================================
