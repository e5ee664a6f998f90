---------------------------- MODULE SumTheorems ----------------------------
(***************************************************************************)
(* What SumFunctionOnSet computes on a finite set of indices. The other    *)
(* proof modules need it for totals: the sum of the recorded payments, and *)
(* the number of requests a limiter let through. The operator is a         *)
(* recursion over subsets that takes its elements in an unspecified order; *)
(* the lemmas show that the recursion has one solution and that the order  *)
(* does not matter. Induction is over a set of subsets, the set of those   *)
(* for which the claim holds.                                              *)
(***************************************************************************)
EXTENDS Integers, FiniteSets, Functions, Folds, FiniteSetTheorems, TLAPS

(* The recursion of SumFunctionOnSet: the sum over each subset of S.       *)
Chosen(T) == CHOOSE x \in T : TRUE
SumStep(f, T, s) == IF T = {} THEN 0 ELSE f[Chosen(T)] + s[T \ {Chosen(T)}]
SumsOver(f, D, s) == s = [T \in D |-> SumStep(f, T, s)]

-----------------------------------------------------------------------------
(* Induction. *)

LEMMA LeastNatural ==
  ASSUME NEW S \in SUBSET Nat, S # {}
  PROVE  \E m \in S : \A k \in S : m <= k
<1> DEFINE R == {p \in Nat \X Nat : p[1] < p[2]}
<1>1. IsWellFoundedOn(R, Nat)
  BY NatLessThanWellFounded DEF OpToRel
<1>2. \A j, k \in Nat : j < k => <<j, k>> \in R
  OBVIOUS
<1> HIDE DEF R
<1>3. PICK m \in S : \A k \in S : ~(<<k, m>> \in R)
  BY <1>1, WFMin
<1>4. \A k \in S : ~(k < m)
  BY <1>2, <1>3
<1>5. QED
  BY <1>4

LEMMA NaturalInduction ==
  ASSUME NEW P, 0 \in P, \A n \in Nat : n \in P => n + 1 \in P
  PROVE  \A n \in Nat : n \in P
<1> SUFFICES ASSUME Nat \ P # {} PROVE FALSE
  OBVIOUS
<1>1. PICK m \in Nat \ P : \A k \in Nat \ P : m <= k
  BY LeastNatural
<1>2. m # 0 /\ m - 1 \in Nat /\ m - 1 \in P
  BY <1>1
<1>3. QED
  BY <1>1, <1>2

(* What holds of a subset as soon as it holds of the smaller ones holds of *)
(* every subset of a finite set.                                           *)
LEMMA SubsetInduction ==
  ASSUME NEW S, IsFiniteSet(S), NEW P,
         \A T \in SUBSET S : (\A U \in SUBSET T : U # T => U \in P) => T \in P
  PROVE  \A T \in SUBSET S : T \in P
<1> SUFFICES ASSUME (SUBSET S) \ P # {} PROVE FALSE
  OBVIOUS
<1> DEFINE Smaller == StrictSubsetOrdering(S)
<1>1. IsWellFoundedOn(Smaller, SUBSET S)
  <2>1. IsWellFoundedOn(Smaller, FiniteSubsetsOf(S))
    BY FS_StrictSubsetOrderingWellFounded
  <2>2. FiniteSubsetsOf(S) = SUBSET S
    BY FS_FiniteSubsetsOfFinite
  <2>3. QED
    BY <2>1, <2>2
<1>2. PICK T \in (SUBSET S) \ P : \A U \in (SUBSET S) \ P : ~(<<U, T>> \in Smaller)
  <2> DEFINE D == SUBSET S
             Rest == D \ P
  <2>1. Rest \subseteq D /\ Rest # {} /\ IsWellFoundedOn(Smaller, D)
    BY <1>1
  <2> HIDE DEF Smaller, D, Rest
  <2>2. \E T \in Rest : \A U \in Rest : ~(<<U, T>> \in Smaller)
    BY <2>1, WFMin
  <2>3. QED
    BY <2>2 DEF Rest, D
<1>3. ASSUME NEW U \in SUBSET T, U # T PROVE U \in P
  <2>1. <<U, T>> \in Smaller
    BY <1>2, <1>3 DEF StrictSubsetOrdering
  <2>2. QED
    BY <1>2, <2>1
<1>4. QED
  BY <1>2, <1>3

(* Adding one element at a time. *)
LEMMA ElementInduction ==
  ASSUME NEW S, IsFiniteSet(S), NEW P, {} \in P,
         \A T \in SUBSET S : \A x \in S \ T : T \in P => T \cup {x} \in P
  PROVE  S \in P
<1>1. ASSUME NEW T \in SUBSET S, \A U \in SUBSET T : U # T => U \in P
      PROVE  T \in P
  <2>1. CASE T = {}
    BY <2>1
  <2>2. CASE T # {}
    <3>1. PICK x \in T : TRUE
      BY <2>2
    <3>2. T \ {x} \in P /\ T \ {x} \in SUBSET S /\ x \in S \ (T \ {x})
      BY <1>1, <3>1
    <3>3. (T \ {x}) \cup {x} = T
      BY <3>1
    <3>4. QED
      BY <3>2, <3>3
  <2>3. QED
    BY <2>1, <2>2
<1>2. QED
  BY <1>1, SubsetInduction

-----------------------------------------------------------------------------
(* The recursion has exactly one solution. *)

LEMMA ChosenElement ==
  ASSUME NEW T, T # {}
  PROVE  Chosen(T) \in T
  BY DEF Chosen

LEMMA SumIsChoice ==
  ASSUME NEW f, NEW S
  PROVE  SumFunctionOnSet(f, S) = (CHOOSE s : SumsOver(f, SUBSET S, s))[S]
  BY DEF SumFunctionOnSet, FoldFunctionOnSet, MapThenFoldSet, SumsOver, SumStep, Chosen

(* A solution for the subsets of up to n elements extends to n + 1.        *)
LEMMA SumsExist ==
  ASSUME NEW f, NEW S, IsFiniteSet(S)
  PROVE  \E s : SumsOver(f, SUBSET S, s)
<1> DEFINE Small(n) == {T \in SUBSET S : Cardinality(T) <= n}
           P == {n \in Nat : \E s : SumsOver(f, Small(n), s)}
<1>1. \A T \in SUBSET S : IsFiniteSet(T) /\ Cardinality(T) \in Nat
  BY FS_Subset, FS_CardinalityType
<1>2. 0 \in P
  <2>1. \A T \in Small(0) : T = {}
    BY <1>1, FS_EmptySet
  <2>2. SumsOver(f, Small(0), [T \in Small(0) |-> 0])
    BY <2>1 DEF SumsOver, SumStep
  <2>3. QED
    BY <2>2
<1>3. ASSUME NEW n \in Nat, n \in P PROVE n + 1 \in P
  <2>1. PICK s : SumsOver(f, Small(n), s)
    BY <1>3
  <2> DEFINE t == [T \in Small(n + 1) |-> SumStep(f, T, s)]
  <2>2. \A T \in Small(n) : T \in Small(n + 1) /\ s[T] = SumStep(f, T, s)
    <3>1. \A T \in Small(n) : T \in Small(n + 1)
      BY <1>1
    <3>2. \A T \in Small(n) : s[T] = SumStep(f, T, s)
      BY <2>1 DEF SumsOver
    <3>3. QED
      BY <3>1, <3>2
  <2>3. ASSUME NEW T \in Small(n + 1), T # {} PROVE T \ {Chosen(T)} \in Small(n)
    <3>1. Chosen(T) \in T
      BY <2>3, ChosenElement
    <3>2. Cardinality(T \ {Chosen(T)}) = Cardinality(T) - 1
      BY <1>1, <3>1, FS_RemoveElement
    <3>3. QED
      BY <1>1, <3>2
  <2> HIDE DEF Small
  <2>4. \A T \in Small(n) : t[T] = s[T]
    BY <2>2
  <2>5. \A T \in Small(n + 1) : SumStep(f, T, t) = SumStep(f, T, s)
    <3> SUFFICES ASSUME NEW T \in Small(n + 1) PROVE SumStep(f, T, t) = SumStep(f, T, s)
      OBVIOUS
    <3> HIDE DEF t
    <3>1. CASE T = {}
      BY <3>1 DEF SumStep
    <3>2. CASE T # {}
      <4>1. t[T \ {Chosen(T)}] = s[T \ {Chosen(T)}]
        BY <2>3, <2>4, <3>2
      <4>2. QED
        BY <4>1 DEF SumStep
    <3>3. QED
      BY <3>1, <3>2
  <2>6. SumsOver(f, Small(n + 1), t)
    <3>1. t = [T \in Small(n + 1) |-> SumStep(f, T, t)]
      BY <2>5
    <3>2. QED
      BY <3>1 DEF SumsOver
  <2>7. QED
    BY <2>6
<1>4. Cardinality(S) \in P
  <2> HIDE DEF P
  <2>1. Cardinality(S) \in Nat
    BY FS_CardinalityType
  <2>2. QED
    BY <1>2, <1>3, <2>1, NaturalInduction
<1>5. Small(Cardinality(S)) = SUBSET S
  BY FS_Subset
<1>6. QED
  BY <1>4, <1>5

-----------------------------------------------------------------------------
(* The facts the other modules cite. *)

LEMMA SumEmpty ==
  ASSUME NEW f
  PROVE  SumFunctionOnSet(f, {}) = 0
<1> DEFINE s == CHOOSE s : SumsOver(f, SUBSET {}, s)
<1>1. SumsOver(f, SUBSET {}, s)
  BY SumsExist, FS_EmptySet
<1> HIDE DEF s
<1>2. s[{}] = 0
  BY <1>1 DEF SumsOver, SumStep
<1>3. QED
  BY <1>2, SumIsChoice DEF s

(* One solution holds the sums of all the subsets, and only the values on  *)
(* the indices count.                                                      *)
LEMMA SumOfSubset ==
  ASSUME NEW f, NEW g, NEW S, IsFiniteSet(S), NEW s, SumsOver(f, SUBSET S, s),
         NEW T \in SUBSET S, \A x \in T : g[x] = f[x]
  PROVE  SumFunctionOnSet(g, T) = s[T]
<1> DEFINE t == CHOOSE t : SumsOver(g, SUBSET T, t)
<1>1. IsFiniteSet(T)
  BY FS_Subset
<1>2. SumsOver(g, SUBSET T, t) /\ SumFunctionOnSet(g, T) = t[T]
  BY <1>1, SumsExist, SumIsChoice
<1> HIDE DEF t
<1> DEFINE P == {U \in SUBSET T : t[U] = s[U]}
<1>3. ASSUME NEW U \in SUBSET T, \A V \in SUBSET U : V # U => V \in P
      PROVE  U \in P
  <2>1. U \in SUBSET S
    OBVIOUS
  <2>2. s[U] = SumStep(f, U, s) /\ t[U] = SumStep(g, U, t)
    BY <1>2, <2>1 DEF SumsOver
  <2>3. CASE U = {}
    BY <2>2, <2>3 DEF SumStep
  <2>4. CASE U # {}
    <3>1. Chosen(U) \in U
      BY <2>4, ChosenElement
    <3>2. U \ {Chosen(U)} \in P /\ g[Chosen(U)] = f[Chosen(U)]
      BY <1>3, <3>1
    <3>3. QED
      BY <2>2, <2>4, <3>2 DEF SumStep
  <2>5. QED
    BY <2>3, <2>4
<1> HIDE DEF P
<1>4. T \in P
  BY <1>1, <1>3, SubsetInduction
<1>5. QED
  BY <1>2, <1>4 DEF P

LEMMA SumAgree ==
  ASSUME NEW f, NEW g, NEW S, IsFiniteSet(S), \A x \in S : f[x] = g[x]
  PROVE  SumFunctionOnSet(f, S) = SumFunctionOnSet(g, S)
<1>1. PICK s : SumsOver(f, SUBSET S, s)
  BY SumsExist
<1>2. SumFunctionOnSet(g, S) = s[S]
  BY <1>1, SumOfSubset
<1>3. SumFunctionOnSet(f, S) = s[S]
  BY <1>1, SumOfSubset
<1>4. QED
  BY <1>2, <1>3

LEMMA SumTakesChosen ==
  ASSUME NEW f, NEW S, IsFiniteSet(S), S # {}
  PROVE  SumFunctionOnSet(f, S) = f[Chosen(S)] + SumFunctionOnSet(f, S \ {Chosen(S)})
<1>1. PICK s : SumsOver(f, SUBSET S, s)
  BY SumsExist
<1>2. s[S] = f[Chosen(S)] + s[S \ {Chosen(S)}]
  BY <1>1 DEF SumsOver, SumStep
<1>3. \A T \in SUBSET S : SumFunctionOnSet(f, T) = s[T]
  BY <1>1, SumOfSubset
<1>4. QED
  BY <1>2, <1>3

LEMMA SumType ==
  ASSUME NEW f, NEW S, IsFiniteSet(S), \A x \in S : f[x] \in Int
  PROVE  SumFunctionOnSet(f, S) \in Int
<1> DEFINE P == {T \in SUBSET S : SumFunctionOnSet(f, T) \in Int}
<1>1. ASSUME NEW T \in SUBSET S, \A U \in SUBSET T : U # T => U \in P
      PROVE  T \in P
  <2>1. CASE T = {}
    BY <2>1, SumEmpty
  <2>2. CASE T # {}
    <3>1. Chosen(T) \in T /\ IsFiniteSet(T)
      BY <2>2, ChosenElement, FS_Subset
    <3>2. SumFunctionOnSet(f, T \ {Chosen(T)}) \in Int /\ f[Chosen(T)] \in Int
      BY <1>1, <3>1
    <3>3. QED
      BY <2>2, <3>1, <3>2, SumTakesChosen
  <2>3. QED
    BY <2>1, <2>2
<1> HIDE DEF P
<1>2. S \in P
  BY <1>1, SubsetInduction
<1>3. QED
  BY <1>2 DEF P

(* Any element may be taken first. *)
LEMMA SumRemove ==
  ASSUME NEW f, NEW S, IsFiniteSet(S), \A x \in S : f[x] \in Int, NEW y \in S
  PROVE  SumFunctionOnSet(f, S) = f[y] + SumFunctionOnSet(f, S \ {y})
<1> DEFINE Sum(T) == SumFunctionOnSet(f, T)
           P == {T \in SUBSET S : \A x \in T : Sum(T) = f[x] + Sum(T \ {x})}
<1>1. \A T \in SUBSET S : IsFiniteSet(T) /\ Sum(T) \in Int
  <2> SUFFICES ASSUME NEW T \in SUBSET S PROVE IsFiniteSet(T) /\ Sum(T) \in Int
    OBVIOUS
  <2>1. IsFiniteSet(T)
    BY FS_Subset
  <2>2. QED
    BY <2>1, SumType
<1>2. ASSUME NEW T \in SUBSET S, \A U \in SUBSET T : U # T => U \in P
      PROVE  T \in P
  <2>1. SUFFICES ASSUME NEW x \in T PROVE Sum(T) = f[x] + Sum(T \ {x})
    OBVIOUS
  <2> DEFINE c == Chosen(T)
  <2>2. c \in T /\ Sum(T) = f[c] + Sum(T \ {c})
    BY <1>1, ChosenElement, SumTakesChosen
  <2> HIDE DEF c, Sum
  <2>3. CASE x = c
    BY <2>2, <2>3
  <2>4. CASE x # c
    <3>1. T \ {c} \in P /\ T \ {x} \in P
      BY <1>2, <2>2
    <3>2. Sum(T \ {c}) = f[x] + Sum((T \ {c}) \ {x})
      BY <2>4, <3>1
    <3>3. Sum(T \ {x}) = f[c] + Sum((T \ {x}) \ {c})
      BY <2>2, <2>4, <3>1
    <3>4. (T \ {c}) \ {x} = (T \ {x}) \ {c}
      OBVIOUS
    <3>5. f[x] \in Int /\ f[c] \in Int /\ Sum((T \ {x}) \ {c}) \in Int
      BY <1>1, <2>2
    <3>6. \A a, b, z \in Int : a + (b + z) = b + (a + z)
      OBVIOUS
    <3>7. f[c] + (f[x] + Sum((T \ {x}) \ {c})) = f[x] + (f[c] + Sum((T \ {x}) \ {c}))
      BY <3>5, <3>6
    <3>8. QED
      BY <2>2, <3>2, <3>3, <3>4, <3>7
  <2>5. QED
    BY <2>3, <2>4
<1> HIDE DEF P
<1>3. S \in P
  BY <1>2, SubsetInduction
<1>4. QED
  BY <1>3 DEF P

LEMMA SumAdd ==
  ASSUME NEW f, NEW S, IsFiniteSet(S), NEW y, y \notin S,
         \A x \in S \cup {y} : f[x] \in Int
  PROVE  SumFunctionOnSet(f, S \cup {y}) = f[y] + SumFunctionOnSet(f, S)
<1>1. IsFiniteSet(S \cup {y}) /\ (S \cup {y}) \ {y} = S
  BY FS_AddElement
<1>2. QED
  BY <1>1, SumRemove

(* A sequence of summands grows by one. *)
LEMMA SumAppend ==
  ASSUME NEW n \in Nat, NEW f, DOMAIN f = 1..n, NEW g, DOMAIN g = 1..(n + 1),
         \A i \in 1..n : f[i] = g[i] /\ g[i] \in Int, g[n + 1] \in Int
  PROVE  SumFunction(g) = SumFunction(f) + g[n + 1]
<1> DEFINE D == 1..n
           m == n + 1
<1>1. IsFiniteSet(D) /\ 1..(n + 1) = D \cup {m} /\ m \notin D
  <2>1. IsFiniteSet(1..n)
    BY FS_Interval
  <2>2. 1..(n + 1) = (1..n) \cup {n + 1} /\ n + 1 \notin 1..n
    OBVIOUS
  <2>3. QED
    BY <2>1, <2>2
<1>2. \A x \in D \cup {m} : g[x] \in Int
  OBVIOUS
<1>3. \A x \in D : f[x] = g[x]
  OBVIOUS
<1> HIDE DEF D, m
<1>4. SumFunctionOnSet(f, D) = SumFunctionOnSet(g, D)
  BY <1>1, <1>3, SumAgree
<1>5. SumFunctionOnSet(g, D \cup {m}) = g[m] + SumFunctionOnSet(g, D)
  BY <1>1, <1>2, SumAdd
<1>6. SumFunctionOnSet(g, D) \in Int /\ g[m] \in Int
  BY <1>1, <1>2, SumType
<1>7. SumFunction(g) = SumFunctionOnSet(g, D \cup {m}) /\ SumFunction(f) = SumFunctionOnSet(f, D)
  BY <1>1 DEF SumFunction, D
<1>8. QED
  BY <1>4, <1>5, <1>6, <1>7 DEF m

(* One summand changes. *)
LEMMA SumUpdate ==
  ASSUME NEW f, NEW g, NEW S, IsFiniteSet(S), NEW y \in S,
         \A x \in S : f[x] \in Int /\ g[x] \in Int,
         \A x \in S \ {y} : g[x] = f[x]
  PROVE  SumFunctionOnSet(g, S) = SumFunctionOnSet(f, S) + g[y] - f[y]
<1>1. IsFiniteSet(S \ {y})
  BY FS_RemoveElement
<1>2. SumFunctionOnSet(g, S) = g[y] + SumFunctionOnSet(g, S \ {y})
  BY SumRemove
<1>3. SumFunctionOnSet(f, S) = f[y] + SumFunctionOnSet(f, S \ {y})
  BY SumRemove
<1>4. SumFunctionOnSet(g, S \ {y}) = SumFunctionOnSet(f, S \ {y})
  BY <1>1, SumAgree
<1>5. SumFunctionOnSet(f, S \ {y}) \in Int
  BY <1>1, SumType
<1>6. QED
  BY <1>2, <1>3, <1>4, <1>5

(* The summands in H grow by at most c and the others not at all.          *)
LEMMA SumGrows ==
  ASSUME NEW f, NEW g, NEW S, IsFiniteSet(S), NEW H \in SUBSET S, NEW c \in Nat,
         \A x \in S : f[x] \in Int /\ g[x] \in Int,
         \A x \in S : g[x] <= IF x \in H THEN f[x] + c ELSE f[x]
  PROVE  SumFunctionOnSet(g, S) <= SumFunctionOnSet(f, S) + Cardinality(H) * c
<1> DEFINE F(T) == SumFunctionOnSet(f, T)
           G(T) == SumFunctionOnSet(g, T)
           P == {T \in SUBSET S : G(T) <= F(T) + Cardinality(T \cap H) * c}
<1>1. {} \in P
  <2>1. F({}) = 0 /\ G({}) = 0 /\ Cardinality({} \cap H) = 0
    BY SumEmpty, FS_EmptySet
  <2>2. QED
    BY <2>1
<1>2. ASSUME NEW T \in SUBSET S, NEW x \in S \ T, T \in P
      PROVE  T \cup {x} \in P
  <2>1. IsFiniteSet(T) /\ IsFiniteSet(T \cap H)
    BY FS_Subset
  <2>2. F(T) \in Int /\ G(T) \in Int
    BY <2>1, SumType
  <2>3. F(T \cup {x}) = f[x] + F(T)
    BY <2>1, SumAdd
  <2>4. G(T \cup {x}) = g[x] + G(T)
    BY <2>1, SumAdd
  <2> DEFINE h == Cardinality(T \cap H)
  <2>5. h \in Nat
    BY <2>1, FS_CardinalityType
  <2>6. Cardinality((T \cup {x}) \cap H) = IF x \in H THEN h + 1 ELSE h
    <3>1. CASE x \in H
      <4>1. (T \cup {x}) \cap H = (T \cap H) \cup {x} /\ x \notin T \cap H
        BY <3>1
      <4>2. QED
        BY <2>1, <3>1, <4>1, FS_AddElement
    <3>2. CASE x \notin H
      <4>1. (T \cup {x}) \cap H = T \cap H
        BY <3>2
      <4>2. QED
        BY <3>2, <4>1
    <3>3. QED
      BY <3>1, <3>2
  <2>7. G(T) <= F(T) + h * c
    BY <1>2
  <2>8. h * c \in Nat /\ (h + 1) * c = h * c + c
    <3> HIDE DEF h
    <3>1. \A m, n \in Nat : m * n \in Nat /\ (m + 1) * n = m * n + n
      OBVIOUS
    <3>2. QED
      BY <2>5, <3>1
  <2> HIDE DEF F, G, h
  <2>9. G(T \cup {x}) <= F(T \cup {x}) + Cardinality((T \cup {x}) \cap H) * c
    <3> DEFINE hc == h * c
    <3>1. Cardinality((T \cup {x}) \cap H) * c = IF x \in H THEN hc + c ELSE hc
      BY <2>6, <2>8
    <3>2. hc \in Nat /\ G(T) <= F(T) + hc
      BY <2>7, <2>8
    <3> HIDE DEF hc
    <3>3. QED
      BY <2>2, <2>3, <2>4, <3>1, <3>2
  <2>10. QED
    BY <2>9
<1> HIDE DEF P
<1>3. S \in P
  BY <1>1, <1>2, ElementInduction
<1>4. S \cap H = H
  OBVIOUS
<1>5. QED
  BY <1>3, <1>4 DEF P

LEMMA SumZero ==
  ASSUME NEW f, NEW S, IsFiniteSet(S), \A x \in S : f[x] = 0
  PROVE  SumFunctionOnSet(f, S) = 0
<1> DEFINE P == {T \in SUBSET S : SumFunctionOnSet(f, T) = 0}
<1>1. {} \in P
  BY SumEmpty
<1>2. ASSUME NEW T \in SUBSET S, NEW x \in S \ T, T \in P
      PROVE  T \cup {x} \in P
  <2>1. IsFiniteSet(T) /\ \A y \in T \cup {x} : f[y] \in Int
    BY FS_Subset
  <2>2. QED
    BY <1>2, <2>1, SumAdd
<1> HIDE DEF P
<1>3. S \in P
  BY <1>1, <1>2, ElementInduction
<1>4. QED
  BY <1>3 DEF P
=============================================================================
