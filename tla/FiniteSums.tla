----------------------------- MODULE FiniteSums -----------------------------
(***************************************************************************)
(* Sums over finite sets, and the induction their laws rest on.  The        *)
(* induction theorems of the library take a predicate as a parameter; here *)
(* induction is the choice of a smallest counterexample, which is a set.   *)
(***************************************************************************)
EXTENDS Integers, FiniteSets, Functions, FiniteSetTheorems, WellFoundedInduction, TLAPS

\* The sum of f over a part of its domain.
SumOf(f, S) == FoldFunctionOnSet(+, 0, f, S)

-----------------------------------------------------------------------------
(***************************************************************************)
(* Smallest counterexamples.                                               *)
(***************************************************************************)
\* A set of numbers that is not empty has a least one.
LEMMA SmallestNumber ==
  ASSUME NEW Bad, Bad \subseteq Nat, Bad # {}
  PROVE  \E n \in Bad : \A m \in Bad : n <= m
<1>1. PICK n \in Bad : \A m \in Bad : <<m, n>> \notin OpToRel(<, Nat)
  BY NatLessThanWellFounded, WFMin
<1>2. \A m \in Bad : ~ (m < n)
  BY <1>1 DEF OpToRel
<1> QED
  BY <1>2

\* A set of numbers that is not empty and has a bound has a greatest one.
LEMMA LargestNumber ==
  ASSUME NEW S, S \subseteq Nat, S # {}, NEW b \in Nat, \A n \in S : n <= b
  PROVE  \E n \in S : \A m \in S : m <= n
<1> DEFINE Gaps == {g \in Nat : \E n \in S : g = b - n}
<1>1. Gaps # {}
  <2>1. PICK n \in S : TRUE
    OBVIOUS
  <2>2. b - n \in Gaps
    BY <2>1
  <2> QED
    BY <2>2
<1>2. PICK g \in Gaps : \A k \in Gaps : g <= k
  <2> HIDE DEF Gaps
  <2>1. Gaps \subseteq Nat
    BY DEF Gaps
  <2> QED
    BY <1>1, <2>1, SmallestNumber
<1>3. PICK n \in S : g = b - n
  OBVIOUS
<1>4. \A m \in S : b - m \in Gaps
  OBVIOUS
<1>5. \A m \in S : b - n <= b - m
  BY <1>2, <1>3, <1>4
<1> QED
  BY <1>5

\* Of sets of subsets of a finite set, one from which nothing can be taken.
LEMMA SmallestSet ==
  ASSUME NEW S, IsFiniteSet(S), NEW Bad, Bad \subseteq SUBSET S, Bad # {}
  PROVE  \E T \in Bad : \A x \in T : T \ {x} \notin Bad
<1>1. FiniteSubsetsOf(S) = SUBSET S
  BY FS_FiniteSubsetsOfFinite
<1>2. \E T \in Bad : \A U \in Bad : <<U, T>> \notin StrictSubsetOrdering(S)
  BY <1>1, FS_StrictSubsetOrderingWellFounded, WFMin
<1>3. PICK T \in Bad : \A U \in Bad : <<U, T>> \notin StrictSubsetOrdering(S)
  BY <1>2
<1>4. ASSUME NEW x \in T, T \ {x} \in Bad
      PROVE  <<T \ {x}, T>> \in StrictSubsetOrdering(S)
  BY <1>4 DEF StrictSubsetOrdering
<1> QED
  BY <1>3, <1>4

-----------------------------------------------------------------------------
(***************************************************************************)
(* The fold is defined by a recursive function: there is one, and only one.*)
(***************************************************************************)
OneOf(s) == CHOOSE x \in s : TRUE

\* What the fold's local function is.
Solves(it, f, S) ==
  it = [s \in SUBSET S |-> IF s = {} THEN 0 ELSE f[OneOf(s)] + it[s \ {OneOf(s)}]]

LEMMA OneOfIn == ASSUME NEW s, s # {} PROVE OneOf(s) \in s
BY DEF OneOf

LEMMA SameSolution ==
  ASSUME NEW S, IsFiniteSet(S), NEW A, NEW B, S \subseteq A, S \subseteq B,
         NEW f, NEW g, NEW a, NEW b, Solves(a, f, A), Solves(b, g, B),
         \A x \in S : f[x] = g[x]
  PROVE  a[S] = b[S]
<1> DEFINE Bad == {s \in SUBSET S : a[s] # b[s]}
<1> SUFFICES ASSUME Bad # {} PROVE FALSE
  OBVIOUS
<1>1. PICK T \in Bad : \A x \in T : T \ {x} \notin Bad
  <2> HIDE DEF Bad
  <2>1. Bad \subseteq SUBSET S
    BY DEF Bad
  <2> QED
    BY <2>1, SmallestSet
<1>2. /\ a[T] = IF T = {} THEN 0 ELSE f[OneOf(T)] + a[T \ {OneOf(T)}]
      /\ b[T] = IF T = {} THEN 0 ELSE g[OneOf(T)] + b[T \ {OneOf(T)}]
  BY DEF Solves
<1>3. T # {}
  BY <1>2
<1>4. OneOf(T) \in T
  BY <1>3, OneOfIn
<1>5. a[T \ {OneOf(T)}] = b[T \ {OneOf(T)}] /\ f[OneOf(T)] = g[OneOf(T)]
  BY <1>1, <1>4
<1> QED
  BY <1>2, <1>5

LEMMA SolutionExists ==
  ASSUME NEW S, IsFiniteSet(S), NEW f
  PROVE  \E it : Solves(it, f, S)
<1> DEFINE Bad == {s \in SUBSET S : ~ \E it : Solves(it, f, s)}
<1> SUFFICES ASSUME Bad # {} PROVE FALSE
  OBVIOUS
<1> DEFINE V(s) == CHOOSE it : Solves(it, f, s)
<1>1. PICK T \in Bad : \A x \in T : T \ {x} \notin Bad
  <2> HIDE DEF Bad
  <2>1. Bad \subseteq SUBSET S
    BY DEF Bad
  <2> QED
    BY <2>1, SmallestSet
<1>2. \A s \in SUBSET T : s # T => Solves(V(s), f, s)
  <2> SUFFICES ASSUME NEW s \in SUBSET T, s # T PROVE \E it : Solves(it, f, s)
    OBVIOUS
  <2>1. PICK x \in T : x \notin s
    OBVIOUS
  <2>2. PICK it : Solves(it, f, T \ {x})
    BY <1>1
  <2>3. Solves([u \in SUBSET s |-> it[u]], f, s)
    <3>1. \A u \in SUBSET s : u # {} => u \ {OneOf(u)} \in SUBSET s
      OBVIOUS
    <3>2. s \subseteq T \ {x}
      BY <2>1
    <3>3. \A u \in SUBSET s : it[u] = IF u = {} THEN 0 ELSE f[OneOf(u)] + it[u \ {OneOf(u)}]
      BY <2>2, <3>2 DEF Solves
    <3> QED
      BY <3>1, <3>3 DEF Solves
  <2> QED
    BY <2>3
<1>3. \A s \in SUBSET T : IsFiniteSet(s)
  BY FS_Subset
<1>4. \A s \in SUBSET T : s # T /\ s # {} => V(s)[s \ {OneOf(s)}] = V(s \ {OneOf(s)})[s \ {OneOf(s)}]
  <2> SUFFICES ASSUME NEW s \in SUBSET T, s # T, s # {}
               PROVE  V(s)[s \ {OneOf(s)}] = V(s \ {OneOf(s)})[s \ {OneOf(s)}]
    OBVIOUS
  <2> DEFINE u == s \ {OneOf(s)}
  <2>1. u \in SUBSET T /\ u # T /\ u \subseteq s /\ IsFiniteSet(u)
    BY <1>3
  <2>2. Solves(V(s), f, s) /\ Solves(V(u), f, u)
    BY <1>2, <2>1
  <2> HIDE DEF u, V
  <2>3. V(s)[u] = V(u)[u]
    BY <2>1, <2>2, SameSolution
  <2> QED
    BY <2>3 DEF u
<1> DEFINE W(s) == IF s = {} THEN 0 ELSE f[OneOf(s)] + V(s \ {OneOf(s)})[s \ {OneOf(s)}]
           it == [s \in SUBSET T |-> W(s)]
<1>5. \A s \in SUBSET T : s # {} => V(s \ {OneOf(s)})[s \ {OneOf(s)}] = W(s \ {OneOf(s)})
  <2> SUFFICES ASSUME NEW s \in SUBSET T, s # {}
               PROVE  V(s \ {OneOf(s)})[s \ {OneOf(s)}] = W(s \ {OneOf(s)})
    OBVIOUS
  <2> DEFINE u == s \ {OneOf(s)}
  <2>1. u \in SUBSET T /\ u # T
    BY OneOfIn
  <2>2. Solves(V(u), f, u)
    BY <1>2, <2>1
  <2>3. V(u)[u] = IF u = {} THEN 0 ELSE f[OneOf(u)] + V(u)[u \ {OneOf(u)}]
    <3> HIDE DEF V, u
    <3> QED BY <2>2 DEF Solves
  <2>4. u # {} => V(u)[u \ {OneOf(u)}] = V(u \ {OneOf(u)})[u \ {OneOf(u)}]
    BY <1>4, <2>1
  <2> HIDE DEF V, u
  <2>5. V(u)[u] = W(u)
    BY <2>3, <2>4
  <2> QED
    BY <2>5 DEF u
<1>6. \A s \in SUBSET T : it[s] = IF s = {} THEN 0 ELSE f[OneOf(s)] + it[s \ {OneOf(s)}]
  <2> SUFFICES ASSUME NEW s \in SUBSET T
               PROVE  it[s] = IF s = {} THEN 0 ELSE f[OneOf(s)] + it[s \ {OneOf(s)}]
    OBVIOUS
  <2>1. s \ {OneOf(s)} \in SUBSET T
    OBVIOUS
  <2>2. it[s] = W(s) /\ it[s \ {OneOf(s)}] = W(s \ {OneOf(s)})
    <3> HIDE DEF W
    <3> QED BY <2>1
  <2>3. s # {} => V(s \ {OneOf(s)})[s \ {OneOf(s)}] = W(s \ {OneOf(s)})
    BY <1>5
  <2> HIDE DEF V, it
  <2> QED
    BY <2>2, <2>3
<1>7. Solves(it, f, T)
  <2> HIDE DEF W
  <2> DEFINE R(s) == IF s = {} THEN 0 ELSE f[OneOf(s)] + it[s \ {OneOf(s)}]
  <2>1. it = [s \in SUBSET T |-> it[s]]
    OBVIOUS
  <2>2. \A s \in SUBSET T : it[s] = R(s)
    BY <1>6
  <2> HIDE DEF it, R
  <2>3. it = [s \in SUBSET T |-> R(s)]
    BY <2>1, <2>2
  <2> QED
    BY <2>3 DEF R, Solves
<1> QED
  BY <1>7

LEMMA SumSolves ==
  ASSUME NEW S, IsFiniteSet(S), NEW f
  PROVE  \E it : Solves(it, f, S) /\ SumOf(f, S) = it[S]
<1>1. SumOf(f, S) = (CHOOSE it : Solves(it, f, S))[S]
  BY DEF SumOf, FoldFunctionOnSet, MapThenFoldSet, Solves, OneOf
<1> QED
  BY <1>1, SolutionExists

-----------------------------------------------------------------------------
(***************************************************************************)
(* The laws of sums.                                                       *)
(***************************************************************************)
LEMMA SumEmpty == ASSUME NEW f PROVE SumOf(f, {}) = 0
<1>1. PICK it : Solves(it, f, {}) /\ SumOf(f, {}) = it[{}]
  BY SumSolves, FS_EmptySet
<1> QED
  BY <1>1 DEF Solves

LEMMA SumStep ==
  ASSUME NEW S, IsFiniteSet(S), S # {}, NEW f
  PROVE  SumOf(f, S) = f[OneOf(S)] + SumOf(f, S \ {OneOf(S)})
<1> DEFINE u == S \ {OneOf(S)}
<1>1. IsFiniteSet(u) /\ u \subseteq S
  BY FS_Subset
<1> HIDE DEF u
<1>2. PICK it : Solves(it, f, S) /\ SumOf(f, S) = it[S]
  BY SumSolves
<1>3. PICK iu : Solves(iu, f, u) /\ SumOf(f, u) = iu[u]
  BY <1>1, SumSolves
<1>4. it[u] = iu[u]
  BY <1>1, <1>2, <1>3, SameSolution
<1>5. it[S] = f[OneOf(S)] + it[u]
  BY <1>2 DEF Solves, u
<1> QED
  BY <1>2, <1>3, <1>4, <1>5 DEF u

\* The sum depends only on the values of f on S.
LEMMA SumSame ==
  ASSUME NEW S, IsFiniteSet(S), NEW f, NEW g, \A x \in S : f[x] = g[x]
  PROVE  SumOf(f, S) = SumOf(g, S)
<1>1. PICK a : Solves(a, f, S) /\ SumOf(f, S) = a[S]
  BY SumSolves
<1>2. PICK b : Solves(b, g, S) /\ SumOf(g, S) = b[S]
  BY SumSolves
<1> QED
  BY <1>1, <1>2, SameSolution

LEMMA SumInt ==
  ASSUME NEW S, IsFiniteSet(S), NEW f, \A x \in S : f[x] \in Int
  PROVE  SumOf(f, S) \in Int
<1> DEFINE Bad == {s \in SUBSET S : SumOf(f, s) \notin Int}
<1> SUFFICES ASSUME Bad # {} PROVE FALSE
  OBVIOUS
<1>1. PICK T \in Bad : \A x \in T : T \ {x} \notin Bad
  <2> HIDE DEF Bad
  <2>1. Bad \subseteq SUBSET S
    BY DEF Bad
  <2> QED
    BY <2>1, SmallestSet
<1>2. T \in SUBSET S /\ SumOf(f, T) \notin Int
  OBVIOUS
<1>3. T # {} /\ IsFiniteSet(T)
  <2>1. SumOf(f, {}) \in Int
    BY SumEmpty
  <2> QED
    BY <1>2, <2>1, FS_Subset
<1> DEFINE c == OneOf(T)
<1>4. c \in T
  BY <1>3, OneOfIn
<1>5. SumOf(f, T) = f[c] + SumOf(f, T \ {c})
  BY <1>3, SumStep
<1> HIDE DEF c
<1>6. f[c] \in Int /\ SumOf(f, T \ {c}) \in Int
  BY <1>1, <1>2, <1>4
<1> HIDE DEF Bad
<1> QED
  BY <1>2, <1>5, <1>6

\* Any element may be taken out first.
LEMMA SumRemove ==
  ASSUME NEW S, IsFiniteSet(S), NEW f, \A x \in S : f[x] \in Int, NEW e \in S
  PROVE  SumOf(f, S) = f[e] + SumOf(f, S \ {e})
<1> DEFINE Holds(s) == \A x \in s : SumOf(f, s) = f[x] + SumOf(f, s \ {x})
           Bad == {s \in SUBSET S : ~ Holds(s)}
<1> SUFFICES ASSUME Bad # {} PROVE FALSE
  OBVIOUS
<1>1. PICK T \in Bad : \A x \in T : T \ {x} \notin Bad
  <2> HIDE DEF Bad
  <2>1. Bad \subseteq SUBSET S
    BY DEF Bad
  <2> QED
    BY <2>1, SmallestSet
<1>2. PICK x \in T : SumOf(f, T) # f[x] + SumOf(f, T \ {x})
  OBVIOUS
<1> DEFINE c == OneOf(T)
<1>3. c \in T /\ IsFiniteSet(T)
  BY OneOfIn, FS_Subset
<1>4. SumOf(f, T) = f[c] + SumOf(f, T \ {c})
  BY <1>3, SumStep
<1>5. x # c
  BY <1>2, <1>4
<1> HIDE DEF c
<1>6. /\ SumOf(f, T \ {c}) = f[x] + SumOf(f, (T \ {c}) \ {x})
      /\ SumOf(f, T \ {x}) = f[c] + SumOf(f, (T \ {x}) \ {c})
  BY <1>1, <1>3, <1>5
<1>7. (T \ {c}) \ {x} = (T \ {x}) \ {c}
  OBVIOUS
<1>8. IsFiniteSet((T \ {x}) \ {c}) /\ \A y \in (T \ {x}) \ {c} : f[y] \in Int
  BY <1>3, FS_Subset
<1>9. SumOf(f, (T \ {x}) \ {c}) \in Int
  BY <1>8, SumInt
<1>10. f[x] \in Int /\ f[c] \in Int
  BY <1>3
<1> DEFINE rest == SumOf(f, (T \ {x}) \ {c})
<1>11. /\ SumOf(f, T) = f[c] + (f[x] + rest)
       /\ SumOf(f, T \ {x}) = f[c] + rest
  BY <1>4, <1>6, <1>7
<1>12. rest \in Int
  BY <1>9
<1> HIDE DEF rest, Bad, Holds
<1> QED
  BY <1>2, <1>10, <1>11, <1>12

LEMMA SumNat ==
  ASSUME NEW S, IsFiniteSet(S), NEW f, \A x \in S : f[x] \in Nat
  PROVE  SumOf(f, S) \in Nat
<1> DEFINE Bad == {s \in SUBSET S : SumOf(f, s) \notin Nat}
<1> SUFFICES ASSUME Bad # {} PROVE FALSE
  OBVIOUS
<1>1. PICK T \in Bad : \A x \in T : T \ {x} \notin Bad
  <2> HIDE DEF Bad
  <2>1. Bad \subseteq SUBSET S
    BY DEF Bad
  <2> QED
    BY <2>1, SmallestSet
<1>2. PICK x \in T : TRUE
  BY SumEmpty
<1>3. T \subseteq S /\ IsFiniteSet(T)
  BY FS_Subset
<1>4. SumOf(f, T) = f[x] + SumOf(f, T \ {x})
  BY <1>3, SumRemove
<1>5. SumOf(f, T \ {x}) \in Nat /\ f[x] \in Nat /\ SumOf(f, T) \notin Nat
  BY <1>1, <1>3
<1> HIDE DEF Bad
<1> QED
  BY <1>4, <1>5

\* Two functions that differ at one place.
LEMMA SumChange ==
  ASSUME NEW S, IsFiniteSet(S), NEW f, NEW g, NEW e \in S,
         \A x \in S : f[x] \in Int /\ g[x] \in Int,
         \A x \in S \ {e} : f[x] = g[x]
  PROVE  SumOf(g, S) = SumOf(f, S) + (g[e] - f[e])
<1>1. SumOf(f, S) = f[e] + SumOf(f, S \ {e}) /\ SumOf(g, S) = g[e] + SumOf(g, S \ {e})
  BY SumRemove
<1>2. IsFiniteSet(S \ {e}) /\ \A x \in S \ {e} : f[x] \in Int
  BY FS_Subset
<1>3. SumOf(f, S \ {e}) = SumOf(g, S \ {e}) /\ SumOf(f, S \ {e}) \in Int
  BY <1>2, SumSame, SumInt
<1> QED
  BY <1>1, <1>3

LEMMA SumZero ==
  ASSUME NEW S, IsFiniteSet(S), NEW f, \A x \in S : f[x] = 0
  PROVE  SumOf(f, S) = 0
<1> DEFINE Bad == {s \in SUBSET S : SumOf(f, s) # 0}
<1> SUFFICES ASSUME Bad # {} PROVE FALSE
  OBVIOUS
<1>1. PICK T \in Bad : \A x \in T : T \ {x} \notin Bad
  <2> HIDE DEF Bad
  <2>1. Bad \subseteq SUBSET S
    BY DEF Bad
  <2> QED
    BY <2>1, SmallestSet
<1>2. PICK x \in T : TRUE
  BY SumEmpty
<1>3. T \subseteq S /\ IsFiniteSet(T)
  BY FS_Subset
<1>4. SumOf(f, T) = f[x] + SumOf(f, T \ {x})
  BY <1>3, SumRemove
<1>5. SumOf(f, T \ {x}) = 0 /\ f[x] = 0
  BY <1>1, <1>3
<1> QED
  BY <1>4, <1>5

\* A sum over rows, by the value each row has: a weight counts once for every row.
LEMMA SumByValue ==
  ASSUME NEW R, IsFiniteSet(R), NEW D, IsFiniteSet(D), NEW v \in [R -> D], NEW w \in [D -> Int]
  PROVE  SumOf([d \in D |-> w[d] * Cardinality({i \in R : v[i] = d})], D)
           = SumOf([i \in R |-> w[v[i]]], R)
<1> DEFINE Of(T, d) == {i \in T : v[i] = d}
           part(T) == [d \in D |-> w[d] * Cardinality(Of(T, d))]
           weight == [i \in R |-> w[v[i]]]
           Bad == {T \in SUBSET R : SumOf(part(T), D) # SumOf(weight, T)}
<1> SUFFICES ASSUME Bad # {} PROVE FALSE
  OBVIOUS
<1>1. PICK T \in Bad : \A x \in T : T \ {x} \notin Bad
  <2> HIDE DEF Bad
  <2>1. Bad \subseteq SUBSET R
    BY DEF Bad
  <2> QED
    BY <2>1, SmallestSet
<1>2. T \subseteq R /\ IsFiniteSet(T) /\ SumOf(part(T), D) # SumOf(weight, T)
  BY FS_Subset
<1>3. \A U \in SUBSET R, d \in D : IsFiniteSet(Of(U, d)) /\ Cardinality(Of(U, d)) \in Nat
  BY FS_Subset, FS_CardinalityType
<1>4. T # {}
  <2> SUFFICES ASSUME T = {} PROVE FALSE
    OBVIOUS
  <2>1. \A d \in D : Of(T, d) = {}
    OBVIOUS
  <2>2. \A d \in D : part(T)[d] = 0
    BY <2>1, FS_EmptySet
  <2>3. SumOf(part(T), D) = 0
    <3> HIDE DEF part
    <3> QED BY <2>2, SumZero
  <2> QED
    BY <1>2, <2>3, SumEmpty
<1>5. PICK x \in T : TRUE
  BY <1>4
<1> DEFINE U == T \ {x}
<1>6. U \in SUBSET R /\ SumOf(part(U), D) = SumOf(weight, U)
  BY <1>1, <1>2
<1>7. \A d \in D \ {v[x]} : Of(T, d) = Of(U, d)
  BY <1>2
<1>8. Of(T, v[x]) = Of(U, v[x]) \cup {x} /\ x \notin Of(U, v[x]) /\ v[x] \in D
  BY <1>2
<1>9. Cardinality(Of(T, v[x])) = Cardinality(Of(U, v[x])) + 1
  <2> HIDE DEF Of, U
  <2> QED BY <1>3, <1>6, <1>8, FS_AddElement
<1>10. \A d \in D : part(T)[d] \in Int /\ part(U)[d] \in Int
  <2> HIDE DEF Of, U
  <2> QED BY <1>2, <1>3, <1>6
<1>11. \A d \in D \ {v[x]} : part(U)[d] = part(T)[d]
  <2> HIDE DEF Of, U
  <2> QED BY <1>7
<1>12. part(T)[v[x]] - part(U)[v[x]] = w[v[x]]
  <2> DEFINE c == Cardinality(Of(U, v[x]))
             k == w[v[x]]
  <2>1. c \in Nat /\ k \in Int
    BY <1>3, <1>6, <1>8
  <2>2. part(T)[v[x]] = k * (c + 1) /\ part(U)[v[x]] = k * c
    <3> HIDE DEF Of, U
    <3> QED BY <1>8, <1>9
  <2> HIDE DEF part, c, k
  <2>3. k * (c + 1) - k * c = k
    BY <2>1
  <2> QED
    BY <2>2, <2>3 DEF k
<1>13. SumOf(part(T), D) = SumOf(part(U), D) + w[v[x]]
  <2> DEFINE f == part(U)
             g == part(T)
             e == v[x]
  <2>1. /\ e \in D /\ g[e] - f[e] = w[e]
        /\ \A d \in D : f[d] \in Int /\ g[d] \in Int
        /\ \A d \in D \ {e} : f[d] = g[d]
    <3> HIDE DEF part, U
    <3> QED BY <1>8, <1>10, <1>11, <1>12
  <2> HIDE DEF f, g, e
  <2>3. PICK e0 \in D : e0 = e
    BY <2>1
  <2>4. PICK f0 : f0 = f
    OBVIOUS
  <2>5. PICK g0 : g0 = g
    OBVIOUS
  <2> HIDE DEF part, weight, U, Of, Bad
  <2>6. (\A d \in D : f0[d] \in Int /\ g0[d] \in Int) /\ (\A d \in D \ {e0} : f0[d] = g0[d])
    BY <2>1, <2>3, <2>4, <2>5
  <2>7. SumOf(g0, D) = SumOf(f0, D) + (g0[e0] - f0[e0])
    BY <2>6, SumChange
  <2> QED
    BY <2>1, <2>3, <2>4, <2>5, <2>7 DEF f, g, e
<1>14. SumOf(weight, T) = w[v[x]] + SumOf(weight, U)
  <2>1. \A y \in T : weight[y] \in Int
    BY <1>2
  <2>2. weight[x] = w[v[x]]
    BY <1>2
  <2> HIDE DEF weight
  <2> QED BY <1>2, <2>1, <2>2, SumRemove
<1>15. SumOf(weight, U) \in Int /\ w[v[x]] \in Int
  <2>1. IsFiniteSet(U) /\ \A y \in U : weight[y] \in Int
    BY <1>2, FS_Subset
  <2> HIDE DEF weight, U
  <2> QED BY <1>8, <2>1, SumInt
<1> HIDE DEF weight, part, U, Bad
<1> QED
  BY <1>2, <1>6, <1>13, <1>14, <1>15
=============================================================================
