----------------------------- MODULE FoldProofs -----------------------------
(***************************************************************************)
(* Induction over numbers and finite sets in a form that the provers can   *)
(* use - a set of values instead of a predicate - and what follows from it *)
(* for the folds of the community modules: that a fold over a finite set   *)
(* has its recursion, and how sums behave.                                 *)
(***************************************************************************)
EXTENDS Integers, FiniteSetsExt, FiniteSetTheorems, TLAPS

----------------------------------------------------------------------------
(* Induction.                                                              *)

\* A set of natural numbers has a least element.
LEMMA LeastNat ==
    ASSUME NEW T \in SUBSET Nat, T # {}
    PROVE  \E m \in T : \A k \in T : m <= k
  <1>1. PICK m \in T : \A k \in T : ~ (<<k, m>> \in OpToRel(<, Nat))
    BY NatLessThanWellFounded, WFMin
  <1>2. \A k \in T : ~ (k < m)
    BY <1>1 DEF OpToRel
  <1>. QED  BY <1>2

\* Induction over an initial segment of the natural numbers.
LEMMA UpTo ==
    ASSUME NEW n \in Nat, NEW S,
           0 \in S, \A i \in 0 .. n - 1 : i \in S => i + 1 \in S
    PROVE  \A i \in 0 .. n : i \in S
  <1> SUFFICES ASSUME NEW j \in 0 .. n, j \notin S PROVE FALSE
    OBVIOUS
  <1> DEFINE T == {i \in 0 .. n : i \notin S}
  <1>1. T \in SUBSET Nat /\ T # {}
    OBVIOUS
  <1>2. PICK m \in T : \A k \in T : m <= k
    <2> HIDE DEF T
    <2>. QED  BY <1>1, LeastNat
  <1>3. m \in 1 .. n /\ m - 1 \in 0 .. n - 1 /\ m - 1 \notin T
    BY <1>2
  <1>. QED  BY <1>2, <1>3

\* Induction over the subsets of a finite set, one element at a time.
LEMMA OverSubsets ==
    ASSUME NEW D, IsFiniteSet(D), NEW S,
           \A s \in SUBSET D : (\A x \in s : s \ {x} \in S) => s \in S
    PROVE  \A s \in SUBSET D : s \in S
  <1> SUFFICES ASSUME NEW t \in SUBSET D, t \notin S PROVE FALSE
    OBVIOUS
  <1> DEFINE T == {i \in Nat : \E s \in SUBSET D : s \notin S /\ Cardinality(s) = i}
  <1>1. \A s \in SUBSET D : IsFiniteSet(s) /\ Cardinality(s) \in Nat
    BY FS_Subset, FS_CardinalityType
  <1>2. T \in SUBSET Nat /\ T # {}
    BY <1>1
  <1>3. PICK m \in T : \A k \in T : m <= k
    <2> HIDE DEF T
    <2>. QED  BY <1>2, LeastNat
  <1>4. PICK s \in SUBSET D : s \notin S /\ Cardinality(s) = m
    BY <1>3
  <1>5. ASSUME NEW x \in s PROVE s \ {x} \in S
    <2>1. Cardinality(s \ {x}) = m - 1 /\ m \in Nat
      BY <1>1, <1>4, FS_RemoveElement
    <2>2. s \ {x} \in SUBSET D /\ Cardinality(s \ {x}) \in Nat
      BY <1>1
    <2>3. m - 1 \notin T
      BY <1>3, <2>1
    <2>. QED  BY <2>1, <2>2, <2>3
  <1>. QED  BY <1>4, <1>5

----------------------------------------------------------------------------
(* Recursion over the subsets of a finite set.                             *)

\* A step g over the elements of D, with values in V, and an order to take them.
Recursion(D, V, base, pick, g) ==
    /\ IsFiniteSet(D)
    /\ base \in V
    /\ \A s \in SUBSET D : s # {} => pick[s] \in s
    /\ g \in [D -> [V -> V]]

Solution(it, D, V, base, pick, g) ==
    /\ it \in [SUBSET D -> V]
    /\ \A s \in SUBSET D :
          it[s] = IF s = {} THEN base ELSE g[pick[s]][it[s \ {pick[s]}]]

\* It has a solution.
LEMMA FoldSolution ==
    ASSUME NEW D, NEW V, NEW base, NEW pick, NEW g, Recursion(D, V, base, pick, g)
    PROVE  \E it : Solution(it, D, V, base, pick, g)
  <1> USE DEF Recursion
  <1> DEFINE K(k) == {s \in SUBSET D : Cardinality(s) <= k}
             Next(k, it) == [s \in K(k) |-> IF s = {} THEN base
                                            ELSE g[pick[s]][it[s \ {pick[s]}]]]
             S == {k \in Nat : \E it \in [K(k) -> V] : it = Next(k, it)}
  <1>1. \A s \in SUBSET D : IsFiniteSet(s) /\ Cardinality(s) \in Nat
    BY FS_Subset, FS_CardinalityType
  <1>2. \A s \in SUBSET D : s # {} =>
            /\ pick[s] \in D /\ s \ {pick[s]} \in SUBSET D
            /\ Cardinality(s \ {pick[s]}) = Cardinality(s) - 1
    BY <1>1, FS_RemoveElement
  <1>3. 0 \in S
    <2>1. \A s \in K(0) : s = {}
      BY <1>1, FS_EmptySet
    <2>2. [s \in K(0) |-> base] = Next(0, [s \in K(0) |-> base])
      BY <2>1
    <2>. QED  BY <2>2
  <1>4. ASSUME NEW k \in Nat, k \in S PROVE k + 1 \in S
    <2>1. PICK it \in [K(k) -> V] : it = Next(k, it)
      BY <1>4
    <2>2. \A s \in K(k + 1) : s # {} => s \ {pick[s]} \in K(k) /\ pick[s] \in D
      BY <1>1, <1>2
    <2>3. ASSUME NEW s \in K(k + 1), s # {}
          PROVE  g[pick[s]][it[s \ {pick[s]}]] \in V
      <3>1. pick[s] \in D /\ it[s \ {pick[s]}] \in V
        BY <2>1, <2>2, <2>3
      <3>2. g[pick[s]] \in [V -> V]
        BY <3>1
      <3>. QED  BY <3>1, <3>2
    <2> DEFINE J == Next(k + 1, it)
    <2>4. J \in [K(k + 1) -> V]
      BY <2>3
    <2>5. \A s \in K(k) : s \in K(k + 1)
      BY <1>1
    <2>6. \A s \in K(k) : it[s] = Next(k, it)[s]
      BY <2>1
    <2>7. \A s \in K(k) : it[s] = J[s]
      BY <2>5, <2>6
    <2>8. ASSUME NEW s \in K(k + 1), s # {}
          PROVE  it[s \ {pick[s]}] = J[s \ {pick[s]}]
      BY <2>2, <2>7, <2>8
    <2>9. \A s \in K(k + 1) : J[s] = IF s = {} THEN base ELSE g[pick[s]][J[s \ {pick[s]}]]
      BY <2>8
    <2> HIDE DEF J
    <2>10. J = Next(k + 1, J)
      BY <2>4, <2>9
    <2> HIDE DEF K, Next
    <2>11. \E f \in [K(k + 1) -> V] : f = Next(k + 1, f)
      BY <2>4, <2>10
    <2>. QED  BY <2>11
  <1>5. Cardinality(D) \in Nat /\ Cardinality(D) \in S
    <2> HIDE DEF S
    <2>1. Cardinality(D) \in Nat
      BY FS_CardinalityType
    <2>2. \A i \in 0 .. Cardinality(D) : i \in S
      BY <1>3, <1>4, <2>1, UpTo
    <2>. QED  BY <2>1, <2>2
  <1>6. K(Cardinality(D)) = SUBSET D
    BY FS_Subset
  <1>7. PICK it \in [K(Cardinality(D)) -> V] : it = Next(Cardinality(D), it)
    BY <1>5
  <1>8. it \in [SUBSET D -> V]
    BY <1>6, <1>7
  <1>9. \A s \in SUBSET D :
           it[s] = IF s = {} THEN base ELSE g[pick[s]][it[s \ {pick[s]}]]
    BY <1>6, <1>7
  <1>. QED  BY <1>8, <1>9 DEF Solution

----------------------------------------------------------------------------
(* Sums: SumFunctionOnSet of the community modules.                        *)

\* Where the definition starts.
Chosen(s) == CHOOSE x \in s : TRUE

\* The sums over the subsets of D, by the recursion of the definition: over a
\* set, the element chosen first and the sum of the others.
Partial(it, f, D) ==
    /\ it \in [SUBSET D -> Int]
    /\ \A s \in SUBSET D :
          it[s] = IF s = {} THEN 0 ELSE f[Chosen(s)] + it[s \ {Chosen(s)}]

\* A sum is the last of them.
LEMMA SumRecursion ==
    ASSUME NEW D, IsFiniteSet(D), NEW f, \A x \in D : f[x] \in Int
    PROVE  \E it : Partial(it, f, D) /\ SumFunctionOnSet(f, D) = it[D]
  <1> DEFINE Solves(it) ==
                 it = [s \in SUBSET D |-> IF s = {} THEN 0
                                          ELSE f[CHOOSE x \in s : TRUE]
                                               + it[s \ {CHOOSE x \in s : TRUE}]]
             pick == [s \in SUBSET D |-> CHOOSE x \in s : TRUE]
             g == [x \in D |-> [v \in Int |-> f[x] + v]]
  <1>1. \A s \in SUBSET D : s # {} => pick[s] \in s
    OBVIOUS
  <1>2. g \in [D -> [Int -> Int]]
    OBVIOUS
  <1>3. PICK it \in [SUBSET D -> Int] :
            \A s \in SUBSET D :
               it[s] = IF s = {} THEN 0 ELSE g[pick[s]][it[s \ {pick[s]}]]
    <2>1. Recursion(D, Int, 0, pick, g)
      BY <1>1, <1>2 DEF Recursion
    <2> HIDE DEF pick, g
    <2>2. \E it : Solution(it, D, Int, 0, pick, g)
      BY <2>1, FoldSolution
    <2>. QED  BY <2>2 DEF Solution
  <1>4. ASSUME NEW s \in SUBSET D, s # {}
        PROVE  g[pick[s]][it[s \ {pick[s]}]]
                 = f[CHOOSE x \in s : TRUE] + it[s \ {CHOOSE x \in s : TRUE}]
    <2>1. pick[s] \in D /\ it[s \ {pick[s]}] \in Int /\ pick[s] = CHOOSE x \in s : TRUE
      BY <1>1, <1>4
    <2>. QED  BY <2>1
  <1>5. Solves(it)
    <2>1. \A s \in SUBSET D : it[s] = IF s = {} THEN 0 ELSE f[CHOOSE x \in s : TRUE]
                                                   + it[s \ {CHOOSE x \in s : TRUE}]
      <3> HIDE DEF pick, g
      <3>. QED  BY <1>3, <1>4
    <2>. QED  BY <2>1
  <1>6. SumFunctionOnSet(f, D) = (CHOOSE i : Solves(i))[D]
    BY DEF SumFunctionOnSet, FoldFunctionOnSet, MapThenFoldSet
  <1>7. PICK c : Solves(c) /\ SumFunctionOnSet(f, D) = c[D]
    <2> HIDE DEF Solves
    <2>. QED  BY <1>5, <1>6
  <1>8. \A s \in SUBSET D : c[s] = IF s = {} THEN 0 ELSE f[CHOOSE x \in s : TRUE]
                                                      + c[s \ {CHOOSE x \in s : TRUE}]
    BY <1>7
  <1>9. \A s \in SUBSET D : c[s] \in Int
    <2> DEFINE S == {s \in SUBSET D : c[s] \in Int}
    <2>1. ASSUME NEW s \in SUBSET D, \A x \in s : s \ {x} \in S PROVE s \in S
      <3>1. CASE s = {}
        <4>1. c[s] = 0
          BY <1>8, <3>1
        <4>. QED  BY <4>1
      <3>2. CASE s # {}
        <4>1. PICK x \in s : x = CHOOSE y \in s : TRUE
          BY <3>2
        <4>2. c[s] = f[x] + c[s \ {x}] /\ c[s \ {x}] \in Int /\ f[x] \in Int
          BY <1>8, <2>1, <3>2, <4>1
        <4>. QED  BY <4>2
      <3>. QED  BY <3>1, <3>2
    <2> HIDE DEF S
    <2>2. \A s \in SUBSET D : s \in S
      BY <2>1, OverSubsets
    <2>. QED  BY <2>2 DEF S
  <1>10. c \in [SUBSET D -> Int]
    BY <1>7, <1>9
  <1>. QED  BY <1>7, <1>8, <1>10 DEF Partial, Chosen

\* The recursion has one solution, whatever larger set it is taken over.
LEMMA PartialUnique ==
    ASSUME NEW D, IsFiniteSet(D), NEW d \in SUBSET D, NEW f,
           NEW it, Partial(it, f, D), NEW is, Partial(is, f, d)
    PROVE  it[d] = is[d]
  <1> DEFINE S == {s \in SUBSET d : it[s] = is[s]}
  <1>1. ASSUME NEW s \in SUBSET d, \A x \in s : s \ {x} \in S PROVE s \in S
    <2>1. s \in SUBSET D
      OBVIOUS
    <2>2. CASE s = {}
      BY <2>1, <2>2 DEF Partial
    <2>3. CASE s # {}
      <3>1. PICK x \in s : x = Chosen(s)
        BY <2>3 DEF Chosen
      <3>2. it[s] = f[x] + it[s \ {x}] /\ is[s] = f[x] + is[s \ {x}]
        BY <2>1, <2>3, <3>1 DEF Partial
      <3>. QED  BY <1>1, <3>2
    <2>. QED  BY <2>2, <2>3
  <1> HIDE DEF S
  <1>2. IsFiniteSet(d)
    BY FS_Subset
  <1>3. \A s \in SUBSET d : s \in S
    BY <1>1, <1>2, OverSubsets
  <1>. QED  BY <1>3 DEF S

\* Sums are integers, and the recursion is between sums.
LEMMA SumFirst ==
    ASSUME NEW D, IsFiniteSet(D), NEW f, \A x \in D : f[x] \in Int
    PROVE  \A s \in SUBSET D :
              /\ SumFunctionOnSet(f, s) \in Int
              /\ s = {} => SumFunctionOnSet(f, s) = 0
              /\ s # {} => SumFunctionOnSet(f, s) =
                              f[Chosen(s)]
                              + SumFunctionOnSet(f, s \ {Chosen(s)})
  <1>1. PICK it : Partial(it, f, D)
    BY SumRecursion
  <1>2. ASSUME NEW s \in SUBSET D PROVE SumFunctionOnSet(f, s) = it[s]
    <2>1. IsFiniteSet(s) /\ \A x \in s : f[x] \in Int
      BY FS_Subset
    <2>2. PICK is : Partial(is, f, s) /\ SumFunctionOnSet(f, s) = is[s]
      BY <2>1, SumRecursion
    <2>. QED  BY <1>1, <2>2, PartialUnique
  <1>3. \A s \in SUBSET D : s \ {Chosen(s)} \in SUBSET D
    OBVIOUS
  <1>. QED  BY <1>1, <1>2, <1>3 DEF Partial

\* A sum is any of its elements and the sum of the others.
THEOREM SumStep ==
    ASSUME NEW D, IsFiniteSet(D), NEW f, \A x \in D : f[x] \in Int
    PROVE  /\ SumFunctionOnSet(f, D) \in Int
           /\ D = {} => SumFunctionOnSet(f, D) = 0
           /\ \A x \in D : SumFunctionOnSet(f, D) = f[x] + SumFunctionOnSet(f, D \ {x})
  <1> DEFINE Sum(s) == SumFunctionOnSet(f, s)
             S == {s \in SUBSET D : \A x \in s : Sum(s) = f[x] + Sum(s \ {x})}
  <1>1. \A s \in SUBSET D : /\ Sum(s) \in Int
                            /\ s = {} => Sum(s) = 0
                            /\ s # {} => Sum(s) = f[Chosen(s)]
                                                  + Sum(s \ {Chosen(s)})
    BY SumFirst
  <1> HIDE DEF Sum
  <1>2. ASSUME NEW s \in SUBSET D, \A x \in s : s \ {x} \in S PROVE s \in S
    <2> SUFFICES ASSUME NEW x \in s PROVE Sum(s) = f[x] + Sum(s \ {x})
      OBVIOUS
    <2>1. PICK c \in s : c = Chosen(s)
      BY DEF Chosen
    <2>2. Sum(s) = f[c] + Sum(s \ {c})
      BY <1>1, <2>1
    <2>3. CASE x # c
      <3>1. x \in s \ {c} /\ c \in s \ {x} /\ (s \ {c}) \ {x} = (s \ {x}) \ {c}
        BY <2>3
      <3>2. /\ Sum(s \ {c}) = f[x] + Sum((s \ {c}) \ {x})
            /\ Sum(s \ {x}) = f[c] + Sum((s \ {x}) \ {c})
        BY <1>2, <3>1
      <3>3. f[x] \in Int /\ f[c] \in Int /\ Sum((s \ {c}) \ {x}) \in Int
        BY <1>1
      <3>4. Sum(s \ {x}) = f[c] + Sum((s \ {c}) \ {x})
        BY <3>1, <3>2
      <3>. QED  BY <2>2, <3>1, <3>2, <3>3, <3>4
    <2>. QED  BY <2>2, <2>3
  <1>3. \A s \in SUBSET D : s \in S
    <2> HIDE DEF S
    <2>. QED  BY <1>2, OverSubsets
  <1>. QED  BY <1>1, <1>3 DEF S, Sum

\* An empty sum.
LEMMA SumEmpty == ASSUME NEW f PROVE SumFunctionOnSet(f, {}) = 0
  BY SumStep, FS_EmptySet

\* Sums of the same values are the same.
LEMMA SumSame ==
    ASSUME NEW D, IsFiniteSet(D), NEW f, \A x \in D : f[x] \in Int,
           NEW h, \A x \in D : h[x] = f[x]
    PROVE  SumFunctionOnSet(h, D) = SumFunctionOnSet(f, D)
  <1> DEFINE S == {s \in SUBSET D : SumFunctionOnSet(h, s) = SumFunctionOnSet(f, s)}
  <1>1. ASSUME NEW s \in SUBSET D, \A x \in s : s \ {x} \in S PROVE s \in S
    <2>1. IsFiniteSet(s) /\ \A x \in s : f[x] \in Int /\ h[x] \in Int
      BY FS_Subset
    <2>2. CASE s = {}
      BY <2>2, SumEmpty
    <2>3. ASSUME NEW x \in s PROVE SumFunctionOnSet(h, s) = SumFunctionOnSet(f, s)
      BY <1>1, <2>1, SumStep
    <2>. QED  BY <2>2, <2>3
  <1>2. \A s \in SUBSET D : s \in S
    <2> HIDE DEF S
    <2>. QED  BY <1>1, OverSubsets
  <1>. QED  BY <1>2

\* Changing one value changes the sum by the difference.
LEMMA SumChange ==
    ASSUME NEW D, IsFiniteSet(D), NEW f, \A x \in D : f[x] \in Int,
           NEW h, NEW y \in D, h[y] \in Int, \A x \in D \ {y} : h[x] = f[x]
    PROVE  SumFunctionOnSet(h, D) = SumFunctionOnSet(f, D) - f[y] + h[y]
  <1> DEFINE E == D \ {y}
  <1>1. IsFiniteSet(E) /\ \A x \in D : h[x] \in Int
    BY FS_Subset
  <1>2. SumFunctionOnSet(h, E) = SumFunctionOnSet(f, E)
    BY <1>1, SumSame
  <1>3. SumFunctionOnSet(f, E) \in Int
    BY <1>1, SumStep
  <1>. QED  BY <1>1, <1>2, <1>3, SumStep

\* Sums compare as their values do.
LEMMA SumMonotone ==
    ASSUME NEW D, IsFiniteSet(D), NEW f, NEW h,
           \A x \in D : f[x] \in Int /\ h[x] \in Int /\ f[x] <= h[x]
    PROVE  SumFunctionOnSet(f, D) <= SumFunctionOnSet(h, D)
  <1> DEFINE S == {s \in SUBSET D : SumFunctionOnSet(f, s) <= SumFunctionOnSet(h, s)}
  <1>1. ASSUME NEW s \in SUBSET D, \A x \in s : s \ {x} \in S PROVE s \in S
    <2>1. IsFiniteSet(s) /\ \A x \in s : f[x] \in Int /\ h[x] \in Int
      BY FS_Subset
    <2>2. CASE s = {}
      BY <2>2, SumEmpty
    <2>3. ASSUME NEW x \in s PROVE SumFunctionOnSet(f, s) <= SumFunctionOnSet(h, s)
      <3>1. IsFiniteSet(s \ {x})
        BY <2>1, FS_Subset
      <3>2. SumFunctionOnSet(f, s \ {x}) \in Int /\ SumFunctionOnSet(h, s \ {x}) \in Int
        BY <2>1, <3>1, SumStep
      <3>3. /\ SumFunctionOnSet(f, s) = f[x] + SumFunctionOnSet(f, s \ {x})
            /\ SumFunctionOnSet(h, s) = h[x] + SumFunctionOnSet(h, s \ {x})
        BY <2>1, SumStep
      <3>. QED  BY <1>1, <2>1, <3>2, <3>3
    <2>. QED  BY <2>2, <2>3
  <1>2. \A s \in SUBSET D : s \in S
    <2> HIDE DEF S
    <2>. QED  BY <1>1, OverSubsets
  <1>. QED  BY <1>2

\* A sum of sums is the sum of both.
LEMMA SumPlus ==
    ASSUME NEW D, IsFiniteSet(D), NEW f, NEW g, NEW h,
           \A x \in D : f[x] \in Int /\ g[x] \in Int /\ h[x] = f[x] + g[x]
    PROVE  SumFunctionOnSet(h, D) = SumFunctionOnSet(f, D) + SumFunctionOnSet(g, D)
  <1> DEFINE S == {s \in SUBSET D : SumFunctionOnSet(h, s)
                                      = SumFunctionOnSet(f, s) + SumFunctionOnSet(g, s)}
  <1>1. ASSUME NEW s \in SUBSET D, \A x \in s : s \ {x} \in S PROVE s \in S
    <2>1. IsFiniteSet(s) /\ \A x \in s : f[x] \in Int /\ g[x] \in Int /\ h[x] \in Int
      BY FS_Subset
    <2>2. CASE s = {}
      BY <2>2, SumEmpty
    <2>3. ASSUME NEW x \in s
          PROVE  SumFunctionOnSet(h, s) = SumFunctionOnSet(f, s) + SumFunctionOnSet(g, s)
      <3>1. IsFiniteSet(s \ {x})
        BY <2>1, FS_Subset
      <3>2. SumFunctionOnSet(f, s \ {x}) \in Int /\ SumFunctionOnSet(g, s \ {x}) \in Int
        BY <2>1, <3>1, SumStep
      <3>3. /\ SumFunctionOnSet(f, s) = f[x] + SumFunctionOnSet(f, s \ {x})
            /\ SumFunctionOnSet(g, s) = g[x] + SumFunctionOnSet(g, s \ {x})
            /\ SumFunctionOnSet(h, s) = h[x] + SumFunctionOnSet(h, s \ {x})
        BY <2>1, SumStep
      <3>. QED  BY <1>1, <2>1, <3>2, <3>3
    <2>. QED  BY <2>2, <2>3
  <1>2. \A s \in SUBSET D : s \in S
    <2> HIDE DEF S
    <2>. QED  BY <1>1, OverSubsets
  <1>. QED  BY <1>2

\* A sum of naturals is one, and no element is larger.
LEMMA SumOfNaturals ==
    ASSUME NEW D, IsFiniteSet(D), NEW f, \A x \in D : f[x] \in Nat
    PROVE  /\ SumFunctionOnSet(f, D) \in Nat
           /\ \A x \in D : f[x] <= SumFunctionOnSet(f, D)
  <1> DEFINE S == {s \in SUBSET D : SumFunctionOnSet(f, s) \in Nat}
  <1>1. ASSUME NEW s \in SUBSET D, \A x \in s : s \ {x} \in S PROVE s \in S
    <2>1. IsFiniteSet(s) /\ \A x \in s : f[x] \in Int
      BY FS_Subset
    <2>2. CASE s = {}
      BY <2>2, SumEmpty
    <2>3. ASSUME NEW x \in s PROVE SumFunctionOnSet(f, s) \in Nat
      <3>1. SumFunctionOnSet(f, s) = f[x] + SumFunctionOnSet(f, s \ {x})
        BY <2>1, SumStep
      <3>. QED  BY <1>1, <3>1
    <2>. QED  BY <2>2, <2>3
  <1>2. \A s \in SUBSET D : s \in S
    <2> HIDE DEF S
    <2>. QED  BY <1>1, OverSubsets
  <1>3. ASSUME NEW x \in D PROVE f[x] <= SumFunctionOnSet(f, D)
    <2>1. SumFunctionOnSet(f, D) = f[x] + SumFunctionOnSet(f, D \ {x})
      BY SumStep
    <2>2. SumFunctionOnSet(f, D \ {x}) \in Nat
      BY <1>2
    <2>. QED  BY <2>1, <2>2
  <1>. QED  BY <1>2, <1>3

\* Where only one value is not zero, it is the sum.
LEMMA SumOfOne ==
    ASSUME NEW D, IsFiniteSet(D), NEW f, NEW y \in D, f[y] \in Int,
           \A x \in D \ {y} : f[x] = 0
    PROVE  SumFunctionOnSet(f, D) = f[y]
  <1> DEFINE S == {s \in SUBSET (D \ {y}) : SumFunctionOnSet(f, s) = 0}
  <1>1. IsFiniteSet(D \ {y})
    BY FS_Subset
  <1>2. ASSUME NEW s \in SUBSET (D \ {y}), \A x \in s : s \ {x} \in S PROVE s \in S
    <2>1. IsFiniteSet(s) /\ \A x \in s : f[x] = 0
      BY FS_Subset
    <2>2. CASE s = {}
      BY <2>2, SumEmpty
    <2>3. ASSUME NEW x \in s PROVE SumFunctionOnSet(f, s) = 0
      <3>1. SumFunctionOnSet(f, s) = f[x] + SumFunctionOnSet(f, s \ {x})
        BY <2>1, SumStep
      <3>. QED  BY <1>2, <2>1, <3>1
    <2>. QED  BY <2>2, <2>3
  <1>3. \A s \in SUBSET (D \ {y}) : s \in S
    <2> HIDE DEF S
    <2>. QED  BY <1>1, <1>2, OverSubsets
  <1>4. SumFunctionOnSet(f, D) = f[y] + SumFunctionOnSet(f, D \ {y})
    BY SumStep
  <1>. QED  BY <1>3, <1>4

\* A sum over an initial segment, one number further.
LEMMA SumNext ==
    ASSUME NEW n \in Nat, NEW f, \A i \in 1 .. n + 1 : f[i] \in Int
    PROVE  SumFunctionOnSet(f, 1 .. n + 1) = SumFunctionOnSet(f, 1 .. n) + f[n + 1]
  <1>1. IsFiniteSet(1 .. n + 1) /\ IsFiniteSet(1 .. n)
    <2>1. 1 \in Int /\ n \in Int /\ n + 1 \in Int
      OBVIOUS
    <2>. QED  BY <2>1, FS_Interval
  <1>2. n + 1 \in 1 .. n + 1 /\ (1 .. n + 1) \ {n + 1} = 1 .. n
    OBVIOUS
  <1>3. SumFunctionOnSet(f, 1 .. n + 1)
          = f[n + 1] + SumFunctionOnSet(f, (1 .. n + 1) \ {n + 1})
    BY <1>1, <1>2, SumStep
  <1>4. SumFunctionOnSet(f, 1 .. n) \in Int
    BY <1>1, SumStep
  <1>5. f[n + 1] \in Int
    BY <1>2
  <1>6. SumFunctionOnSet(f, 1 .. n + 1) = f[n + 1] + SumFunctionOnSet(f, 1 .. n)
    BY <1>2, <1>3
  <1>. QED  BY <1>4, <1>5, <1>6

\* P gives every element of D a finite set of its own.
Apart(P, D) ==
    /\ \A i \in D : IsFiniteSet(P[i])
    /\ \A i, j \in D : i # j => P[i] \cap P[j] = {}

\* The elements of disjoint finite sets are as many as the sets have together.
LEMMA SumOfSizes ==
    ASSUME NEW D, IsFiniteSet(D), NEW P, Apart(P, D)
    PROVE  /\ IsFiniteSet(UNION {P[i] : i \in D})
           /\ SumFunctionOnSet([i \in D |-> Cardinality(P[i])], D)
                = Cardinality(UNION {P[i] : i \in D})
  <1> DEFINE f == [i \in D |-> Cardinality(P[i])]
             U(s) == UNION {P[i] : i \in s}
             S == {s \in SUBSET D : /\ IsFiniteSet(U(s))
                                    /\ SumFunctionOnSet(f, s) = Cardinality(U(s))}
  <1>0. /\ \A i \in D : IsFiniteSet(P[i])
        /\ \A i, j \in D : i # j => P[i] \cap P[j] = {}
    BY DEF Apart
  <1>1. \A i \in D : f[i] \in Int /\ f[i] = Cardinality(P[i])
    BY <1>0, FS_CardinalityType
  <1>2. ASSUME NEW s \in SUBSET D, \A x \in s : s \ {x} \in S PROVE s \in S
    <2> HIDE DEF f
    <2>1. IsFiniteSet(s) /\ \A x \in s : f[x] \in Int
      BY <1>1, FS_Subset
    <2>2. CASE s = {}
      <3>1. U(s) = {}
        BY <2>2
      <3>. QED  BY <2>2, <3>1, SumEmpty, FS_EmptySet
    <2>3. ASSUME NEW x \in s PROVE s \in S
      <3>1. SumFunctionOnSet(f, s) = f[x] + SumFunctionOnSet(f, s \ {x})
        BY <2>1, SumStep
      <3>2. /\ U(s) = U(s \ {x}) \cup P[x]
            /\ U(s \ {x}) \cap P[x] = {}
        BY <1>0
      <3>3. IsFiniteSet(U(s \ {x})) /\ IsFiniteSet(P[x])
        BY <1>0, <1>2
      <3>4. SumFunctionOnSet(f, s \ {x}) = Cardinality(U(s \ {x}))
        BY <1>2
      <3> DEFINE A == U(s \ {x})
                 B == P[x]
      <3>5. /\ IsFiniteSet(A \cup B)
            /\ Cardinality(A \cup B) = Cardinality(A) + Cardinality(B)
        <4>1. A \cap B = {} /\ IsFiniteSet(A) /\ IsFiniteSet(B)
          BY <3>2, <3>3
        <4> HIDE DEF A, B
        <4>2. Cardinality(A) \in Nat /\ Cardinality(B) \in Nat
          BY <4>1, FS_CardinalityType
        <4>3. Cardinality(A \cap B) = 0
          BY <4>1, FS_EmptySet
        <4>4. Cardinality(A \cup B)
                = Cardinality(A) + Cardinality(B) - Cardinality(A \cap B)
          BY <4>1, FS_Union
        <4>5. IsFiniteSet(A \cup B)
          BY <4>1, FS_Union
        <4>. QED  BY <4>2, <4>3, <4>4, <4>5
      <3>6. Cardinality(A) \in Int /\ Cardinality(B) \in Int
        BY <3>3, FS_CardinalityType
      <3>7. U(s) = A \cup B
        BY <3>2
      <3>8. f[x] = Cardinality(B) /\ SumFunctionOnSet(f, s) = f[x] + Cardinality(A)
        BY <1>1, <3>1, <3>4
      <3>9. IsFiniteSet(U(s)) /\ SumFunctionOnSet(f, s) = Cardinality(U(s))
        <4> HIDE DEF U, A, B
        <4>. QED  BY <3>5, <3>6, <3>7, <3>8
      <3> HIDE DEF U
      <3>. QED  BY <3>9
    <2>. QED  BY <2>2, <2>3
  <1>3. \A s \in SUBSET D : s \in S
    <2> HIDE DEF S
    <2>. QED  BY <1>2, OverSubsets
  <1>. QED  BY <1>3

----------------------------------------------------------------------------
(* Walks: FoldLeft over a sequence takes the set of its indices from the   *)
(* largest down.                                                           *)

\* A set of indices has a largest one, and of the first i it is i.
LEMMA MaxIndex ==
    ASSUME NEW n \in Nat
    PROVE  /\ \A s \in SUBSET (1 .. n) : s # {} => Max(s) \in s
           /\ \A i \in 1 .. n : Max(1 .. i) = i /\ (1 .. i) \ {i} = 1 .. i - 1
  <1>1. ASSUME NEW s \in SUBSET (1 .. n), s # {} PROVE Max(s) \in s
    <2> DEFINE T == {n - x : x \in s}
    <2>1. T \in SUBSET Nat /\ T # {}
      <3>1. \A x \in s : x \in 1 .. n
        OBVIOUS
      <3>2. \A x \in s : n - x \in Nat
        BY <3>1
      <3>3. T \subseteq Nat
        BY <3>2
      <3>4. PICK x \in s : TRUE
        BY <1>1
      <3>. QED  BY <3>3, <3>4
    <2>2. PICK m \in T : \A k \in T : m <= k
      <3> HIDE DEF T
      <3>. QED  BY <2>1, LeastNat
    <2>3. PICK x \in s : m = n - x
      BY <2>2
    <2>4. \A y \in s : x >= y
      BY <2>2, <2>3
    <2>. QED  BY <2>4 DEF Max
  <1>2. ASSUME NEW i \in 1 .. n PROVE Max(1 .. i) = i /\ (1 .. i) \ {i} = 1 .. i - 1
    BY DEF Max
  <1>. QED  BY <1>1, <1>2

\* What a walk of n steps is over the sets of indices.
Walk(it, n, V, base, g) ==
    /\ it \in [SUBSET (1 .. n) -> V]
    /\ \A s \in SUBSET (1 .. n) :
          it[s] = IF s = {} THEN base ELSE g[Max(s)][it[s \ {Max(s)}]]

\* It exists if every step has its next.
LEMMA WalkSolution ==
    ASSUME NEW n \in Nat, NEW V, NEW base \in V, NEW g \in [1 .. n -> [V -> V]]
    PROVE  \E it : Walk(it, n, V, base, g)
  <1> DEFINE pick == [s \in SUBSET (1 .. n) |-> Max(s)]
             D == 1 .. n
  <1>1. Recursion(D, V, base, pick, g)
    <2>1. IsFiniteSet(D)
      <3>1. 1 \in Int /\ n \in Int
        OBVIOUS
      <3>. QED  BY <3>1, FS_Interval
    <2>2. \A s \in SUBSET D : s # {} => pick[s] \in s
      BY MaxIndex
    <2>. QED  BY <2>1, <2>2 DEF Recursion
  <1>2. PICK it : Solution(it, D, V, base, pick, g)
    <2> HIDE DEF D, pick
    <2>. QED  BY <1>1, FoldSolution
  <1>. QED  BY <1>2 DEF Solution, Walk
=============================================================================
