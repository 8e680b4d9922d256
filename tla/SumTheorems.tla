---------------------------- MODULE SumTheorems ----------------------------
(* Facts about the sum of a function over a finite set of indices, as the  *)
(* Functions module defines it: a recursive function on the subsets of the *)
(* indices that takes away an arbitrary element.  They are proved by       *)
(* induction on the number of indices; a set of numbers that has a smallest*)
(* element stands for the induction.                                       *)
EXTENDS Integers, Functions, FiniteSets, FiniteSetTheorems, TLAPS

\* A set of numbers that holds 0, and the successor of all it holds, holds
\* every number.
LEMMA Induction ==
  ASSUME NEW T, 0 \in T, \A n \in Nat : n \in T => n + 1 \in T
  PROVE  \A n \in Nat : n \in T
<1> DEFINE U == Nat \ T
<1>1. SUFFICES ASSUME U # {} PROVE FALSE
  OBVIOUS
<1>2. PICK n \in U : \A m \in U : ~(<<m, n>> \in OpToRel(<, Nat))
  BY <1>1, WFMin, NatLessThanWellFounded
<1>3. n \in Nat /\ n # 0 /\ n - 1 \in Nat /\ n - 1 < n
  OBVIOUS
<1>4. n - 1 \in U
  BY <1>3
<1> QED BY <1>2, <1>3, <1>4 DEF OpToRel

\* What is left when the index taken first is taken away.
First(s) == CHOOSE x \in s : TRUE

\* g computes sums of f for the sets of at most n indices.
Sums(f, g, S, n) ==
  \A s \in SUBSET S : Cardinality(s) <= n =>
    g[s] = IF s = {} THEN 0 ELSE f[First(s)] + g[s \ {First(s)}]

\* There is a function that satisfies the recursive equation of the sum.
LEMMA SumsExist ==
  ASSUME NEW f, NEW S, IsFiniteSet(S), NEW n \in Nat
  PROVE  \E g : Sums(f, g, S, n)
<1> DEFINE T == {k \in Nat : \E g : Sums(f, g, S, k)}
<1>a. \A s \in SUBSET S : IsFiniteSet(s) /\ Cardinality(s) \in Nat
  BY FS_Subset, FS_CardinalityType
<1>1. 0 \in T
  <2>1. PICK g : g = [s \in SUBSET S |-> 0]
    OBVIOUS
  <2>2. \A s \in SUBSET S : Cardinality(s) <= 0 => s = {}
    BY <1>a, FS_EmptySet
  <2> QED BY <2>1, <2>2 DEF Sums
<1>2. ASSUME NEW k \in Nat, k \in T PROVE k + 1 \in T
  <2>1. PICK g : Sums(f, g, S, k)
    BY <1>2
  <2>2. PICK h : h = [s \in SUBSET S |->
                        IF Cardinality(s) <= k THEN g[s]
                        ELSE IF s = {} THEN 0
                             ELSE f[First(s)] + g[s \ {First(s)}]]
    OBVIOUS
  <2>3. ASSUME NEW s \in SUBSET S, s # {}, Cardinality(s) <= k + 1
        PROVE  h[s \ {First(s)}] = g[s \ {First(s)}]
    <3>1. First(s) \in s
      BY <2>3 DEF First
    <3>2. s \ {First(s)} \in SUBSET S
      OBVIOUS
    <3>3. Cardinality(s \ {First(s)}) = Cardinality(s) - 1
      BY <3>1, <1>a, FS_RemoveElement
    <3>4. Cardinality(s \ {First(s)}) <= k
      BY <2>3, <3>3, <1>a
    <3> QED BY <2>2, <3>2, <3>4
  <2>4. ASSUME NEW s \in SUBSET S, Cardinality(s) <= k + 1
        PROVE  h[s] = IF s = {} THEN 0 ELSE f[First(s)] + h[s \ {First(s)}]
    <3>1. CASE Cardinality(s) <= k
      BY <3>1, <2>1, <2>2, <2>3, <2>4 DEF Sums
    <3>2. CASE ~(Cardinality(s) <= k)
      BY <3>2, <2>2, <2>3, <2>4
    <3> QED BY <3>1, <3>2
  <2>5. Sums(f, h, S, k + 1)
    BY <2>4 DEF Sums
  <2> QED BY <2>5
<1> HIDE DEF T
<1>3. n \in T
  BY <1>1, <1>2, Induction
<1> QED BY <1>3 DEF T

\* The function that SumFunctionOnSet names.
Iter(f, S) ==
  CHOOSE g : g = [s \in SUBSET S |->
                    IF s = {} THEN 0 ELSE f[First(s)] + g[s \ {First(s)}]]

\* SumFunctionOnSet is its value for the whole set.
LEMMA SumIsIter ==
  ASSUME NEW f, NEW S
  PROVE  SumFunctionOnSet(f, S) = Iter(f, S)[S]
BY DEF SumFunctionOnSet, FoldFunctionOnSet, MapThenFoldSet, Iter, First

\* It satisfies the recursive equation.
LEMMA IterEquation ==
  ASSUME NEW f, NEW S, IsFiniteSet(S)
  PROVE  \A s \in SUBSET S :
           Iter(f, S)[s] = IF s = {} THEN 0
                           ELSE f[First(s)] + Iter(f, S)[s \ {First(s)}]
<1>1. Cardinality(S) \in Nat
  BY FS_CardinalityType
<1>2. PICK g : Sums(f, g, S, Cardinality(S))
  BY <1>1, SumsExist
<1>3. PICK h : h = [s \in SUBSET S |-> g[s]]
  OBVIOUS
<1>4. h = [s \in SUBSET S |->
             IF s = {} THEN 0 ELSE f[First(s)] + h[s \ {First(s)}]]
  <2>1. \A s \in SUBSET S : Cardinality(s) <= Cardinality(S)
    BY FS_Subset
  <2>2. ASSUME NEW s \in SUBSET S
        PROVE  h[s] = IF s = {} THEN 0 ELSE f[First(s)] + h[s \ {First(s)}]
    BY <1>2, <1>3, <2>1 DEF Sums
  <2> QED BY <1>3, <2>2
<1>5. Iter(f, S) = [s \in SUBSET S |->
        IF s = {} THEN 0 ELSE f[First(s)] + Iter(f, S)[s \ {First(s)}]]
  BY <1>4 DEF Iter
<1> QED BY <1>5

-----------------------------------------------------------------------------
(* The order in which indices are taken makes no difference. *)

\* One element less.
LEMMA OneLess ==
  ASSUME NEW s, IsFiniteSet(s), NEW x \in s, NEW n \in Nat, Cardinality(s) = n + 1
  PROVE  Cardinality(s \ {x}) = n
<1>1. Cardinality(s \ {x}) = Cardinality(s) - 1
  BY FS_RemoveElement
<1> QED BY <1>1

\* A family of subsets of a finite set that holds the empty set, and with a
\* subset the ones that have one element more, holds the set.
LEMMA SubsetInduction ==
  ASSUME NEW S, IsFiniteSet(S), NEW T, {} \in T,
         \A s \in SUBSET S : \A x \in S : s \in T /\ x \notin s => s \cup {x} \in T
  PROVE  S \in T
<1> DEFINE N == {n \in Nat : \A s \in SUBSET S : Cardinality(s) = n => s \in T}
<1>a. \A s \in SUBSET S : IsFiniteSet(s) /\ Cardinality(s) \in Nat
  BY FS_Subset, FS_CardinalityType
<1>1. 0 \in N
  BY <1>a, FS_EmptySet
<1>2. ASSUME NEW n \in Nat, n \in N PROVE n + 1 \in N
  <2> SUFFICES ASSUME NEW s \in SUBSET S, Cardinality(s) = n + 1 PROVE s \in T
    OBVIOUS
  <2>1. s # {}
    BY FS_EmptySet
  <2>2. PICK x \in s : TRUE
    BY <2>1
  <2>3. Cardinality(s \ {x}) = n
    BY <1>a, OneLess
  <2>4. s \ {x} \in T /\ s = (s \ {x}) \cup {x} /\ x \in S
    BY <1>2, <2>3
  <2> QED BY <2>4
<1> HIDE DEF N
<1>3. Cardinality(S) \in N
  BY <1>a, <1>1, <1>2, Induction
<1> QED BY <1>3 DEF N

\* Sums of integers are integers.
LEMMA IterType ==
  ASSUME NEW f, NEW S, IsFiniteSet(S), \A x \in S : f[x] \in Int
  PROVE  \A s \in SUBSET S : Iter(f, S)[s] \in Int
<1> DEFINE N == {n \in Nat : \A s \in SUBSET S : Cardinality(s) = n =>
                               Iter(f, S)[s] \in Int}
<1>a. \A s \in SUBSET S : IsFiniteSet(s) /\ Cardinality(s) \in Nat
  BY FS_Subset, FS_CardinalityType
<1>1. 0 \in N
  <2>1. \A s \in SUBSET S : Cardinality(s) = 0 => s = {}
    BY <1>a, FS_EmptySet
  <2>2. Iter(f, S)[{}] = 0
    BY IterEquation
  <2> QED BY <2>1, <2>2
<1>2. ASSUME NEW n \in Nat, n \in N PROVE n + 1 \in N
  <2> SUFFICES ASSUME NEW s \in SUBSET S, Cardinality(s) = n + 1
               PROVE  Iter(f, S)[s] \in Int
    OBVIOUS
  <2>1. s # {}
    BY FS_EmptySet
  <2>2. First(s) \in s
    BY <2>1 DEF First
  <2>3. Cardinality(s \ {First(s)}) = n
    BY <1>a, <2>2, OneLess
  <2>4. Iter(f, S)[s \ {First(s)}] \in Int
    BY <1>2, <2>3
  <2>5. Iter(f, S)[s] = f[First(s)] + Iter(f, S)[s \ {First(s)}]
    BY <2>1, IterEquation
  <2> QED BY <2>2, <2>4, <2>5
<1> HIDE DEF N
<1>3. \A n \in Nat : n \in N
  BY <1>1, <1>2, Induction
<1> QED BY <1>a, <1>3 DEF N

\* Any index may be taken first.
LEMMA IterAny ==
  ASSUME NEW f, NEW S, IsFiniteSet(S), \A x \in S : f[x] \in Int
  PROVE  \A s \in SUBSET S : \A x \in s :
           Iter(f, S)[s] = f[x] + Iter(f, S)[s \ {x}]
<1> DEFINE N == {n \in Nat : \A s \in SUBSET S : Cardinality(s) = n =>
                   \A x \in s : Iter(f, S)[s] = f[x] + Iter(f, S)[s \ {x}]}
<1>a. \A s \in SUBSET S : IsFiniteSet(s) /\ Cardinality(s) \in Nat
  BY FS_Subset, FS_CardinalityType
<1>b. \A s \in SUBSET S : Iter(f, S)[s] \in Int
  BY IterType
<1>1. 0 \in N
  BY <1>a, FS_EmptySet
<1>2. ASSUME NEW n \in Nat, n \in N PROVE n + 1 \in N
  <2> SUFFICES ASSUME NEW s \in SUBSET S, Cardinality(s) = n + 1, NEW x \in s
               PROVE  Iter(f, S)[s] = f[x] + Iter(f, S)[s \ {x}]
    OBVIOUS
  <2>1. PICK y : y = First(s)
    OBVIOUS
  <2>2. y \in s
    BY <2>1 DEF First
  <2>3. Iter(f, S)[s] = f[y] + Iter(f, S)[s \ {y}]
    BY <2>1, <2>2, IterEquation
  <2>4. CASE x = y
    BY <2>3, <2>4
  <2>5. CASE x # y
    <3>1. Cardinality(s \ {x}) = n /\ Cardinality(s \ {y}) = n
      BY <1>a, <2>2, OneLess
    <3>2. Iter(f, S)[s \ {y}] = f[x] + Iter(f, S)[(s \ {y}) \ {x}]
      BY <1>2, <2>5, <3>1
    <3>3. Iter(f, S)[s \ {x}] = f[y] + Iter(f, S)[(s \ {x}) \ {y}]
      BY <1>2, <2>2, <2>5, <3>1
    <3>4. (s \ {x}) \ {y} = (s \ {y}) \ {x}
      OBVIOUS
    <3>5. Iter(f, S)[(s \ {y}) \ {x}] \in Int /\ f[x] \in Int /\ f[y] \in Int
      BY <1>b, <2>2
    <3> HIDE DEF N
    <3>6. PICK r : r = Iter(f, S)[(s \ {y}) \ {x}]
      OBVIOUS
    <3>7. Iter(f, S)[s] = f[y] + (f[x] + r) /\ Iter(f, S)[s \ {x}] = f[y] + r
      BY <2>3, <3>2, <3>3, <3>4, <3>6
    <3>8. r \in Int
      BY <3>5, <3>6
    <3> QED BY <3>5, <3>7, <3>8
  <2> QED BY <2>4, <2>5
<1> HIDE DEF N
<1>3. \A n \in Nat : n \in N
  BY <1>1, <1>2, Induction
<1> QED BY <1>a, <1>3 DEF N

\* Only the indices summed over and their values matter.
LEMMA IterSame ==
  ASSUME NEW f, NEW g, NEW S, NEW T, IsFiniteSet(S), IsFiniteSet(T),
         S \subseteq T, \A x \in S : f[x] = g[x]
  PROVE  Iter(f, S)[S] = Iter(g, T)[S]
<1> DEFINE N == {n \in Nat : \A s \in SUBSET S : Cardinality(s) = n =>
                               Iter(f, S)[s] = Iter(g, T)[s]}
<1>a. \A s \in SUBSET S : IsFiniteSet(s) /\ Cardinality(s) \in Nat /\ s \in SUBSET T
  BY FS_Subset, FS_CardinalityType
<1>1. 0 \in N
  <2>1. \A s \in SUBSET S : Cardinality(s) = 0 => s = {}
    BY <1>a, FS_EmptySet
  <2>2. Iter(f, S)[{}] = 0 /\ Iter(g, T)[{}] = 0
    BY IterEquation
  <2> QED BY <2>1, <2>2
<1>2. ASSUME NEW n \in Nat, n \in N PROVE n + 1 \in N
  <2> SUFFICES ASSUME NEW s \in SUBSET S, Cardinality(s) = n + 1
               PROVE  Iter(f, S)[s] = Iter(g, T)[s]
    OBVIOUS
  <2>1. s # {}
    BY FS_EmptySet
  <2>2. First(s) \in s
    BY <2>1 DEF First
  <2>3. Cardinality(s \ {First(s)}) = n
    BY <1>a, <2>2, OneLess
  <2>4. Iter(f, S)[s \ {First(s)}] = Iter(g, T)[s \ {First(s)}]
    BY <1>2, <2>3
  <2>5. Iter(f, S)[s] = f[First(s)] + Iter(f, S)[s \ {First(s)}]
    BY <2>1, IterEquation
  <2>6. Iter(g, T)[s] = g[First(s)] + Iter(g, T)[s \ {First(s)}]
    <3>1. s \in SUBSET T
      BY <1>a
    <3> QED BY <2>1, <3>1, IterEquation
  <2> QED BY <2>2, <2>4, <2>5, <2>6
<1> HIDE DEF N
<1>3. \A n \in Nat : n \in N
  BY <1>1, <1>2, Induction
<1> QED BY <1>a, <1>3 DEF N

-----------------------------------------------------------------------------
(* Sums. *)

\* The sum over no indices is 0.
LEMMA SumEmpty ==
  ASSUME NEW f
  PROVE  SumFunctionOnSet(f, {}) = 0
BY SumIsIter, IterEquation, FS_EmptySet

\* The sum of integers is an integer.
LEMMA SumType ==
  ASSUME NEW f, NEW S, IsFiniteSet(S), \A x \in S : f[x] \in Int
  PROVE  SumFunctionOnSet(f, S) \in Int
BY SumIsIter, IterType

\* Functions that agree on the indices have the same sum.
LEMMA SumSame ==
  ASSUME NEW f, NEW g, NEW S, IsFiniteSet(S), \A x \in S : f[x] = g[x]
  PROVE  SumFunctionOnSet(f, S) = SumFunctionOnSet(g, S)
BY SumIsIter, IterSame

\* An index taken away takes its value with it.
LEMMA SumRemove ==
  ASSUME NEW f, NEW S, IsFiniteSet(S), \A x \in S : f[x] \in Int, NEW x \in S
  PROVE  SumFunctionOnSet(f, S) = f[x] + SumFunctionOnSet(f, S \ {x})
<1>1. IsFiniteSet(S \ {x})
  BY FS_RemoveElement
<1>2. Iter(f, S)[S] = f[x] + Iter(f, S)[S \ {x}]
  BY IterAny
<1>3. Iter(f, S \ {x})[S \ {x}] = Iter(f, S)[S \ {x}]
  BY <1>1, IterSame
<1> QED BY <1>2, <1>3, SumIsIter

\* A new index adds its value.
LEMMA SumAdd ==
  ASSUME NEW f, NEW S, IsFiniteSet(S), NEW x, x \notin S,
         \A y \in S \cup {x} : f[y] \in Int
  PROVE  SumFunctionOnSet(f, S \cup {x}) = f[x] + SumFunctionOnSet(f, S)
<1>1. IsFiniteSet(S \cup {x}) /\ (S \cup {x}) \ {x} = S /\ x \in S \cup {x}
  BY FS_AddElement
<1> QED BY <1>1, SumRemove

\* A value that changes changes the sum by as much.
LEMMA SumUpdate ==
  ASSUME NEW f, NEW g, NEW S, IsFiniteSet(S), NEW x \in S,
         \A y \in S : f[y] \in Int /\ g[y] \in Int,
         \A y \in S : y # x => g[y] = f[y]
  PROVE  SumFunctionOnSet(g, S) = SumFunctionOnSet(f, S) + (g[x] - f[x])
<1>1. IsFiniteSet(S \ {x})
  BY FS_RemoveElement
<1>2. SumFunctionOnSet(f, S) = f[x] + SumFunctionOnSet(f, S \ {x})
  BY SumRemove
<1>3. SumFunctionOnSet(g, S) = g[x] + SumFunctionOnSet(g, S \ {x})
  BY SumRemove
<1>4. SumFunctionOnSet(g, S \ {x}) = SumFunctionOnSet(f, S \ {x})
  BY <1>1, SumSame
<1>5. SumFunctionOnSet(f, S \ {x}) \in Int
  BY <1>1, SumType
<1>6. f[x] \in Int /\ g[x] \in Int
  OBVIOUS
<1> QED BY <1>2, <1>3, <1>4, <1>5, <1>6

\* A sum of natural numbers is one, and no smaller than any of them.
LEMMA SumNat ==
  ASSUME NEW f, NEW S, IsFiniteSet(S), \A x \in S : f[x] \in Nat
  PROVE  /\ SumFunctionOnSet(f, S) \in Nat
         /\ \A x \in S : f[x] <= SumFunctionOnSet(f, S)
<1> DEFINE T == {s \in SUBSET S : SumFunctionOnSet(f, s) \in Nat}
<1>a. \A s \in SUBSET S : IsFiniteSet(s)
  BY FS_Subset
<1>1. {} \in T
  BY SumEmpty
<1>2. ASSUME NEW s \in SUBSET S, NEW x \in S, s \in T, x \notin s
      PROVE  s \cup {x} \in T
  <2>1. SumFunctionOnSet(f, s \cup {x}) = f[x] + SumFunctionOnSet(f, s)
    <3>1. \A y \in s \cup {x} : f[y] \in Int
      OBVIOUS
    <3> QED BY <1>2, <1>a, <3>1, SumAdd
  <2> QED BY <1>2, <2>1
<1>3. ASSUME NEW s \in SUBSET S PROVE SumFunctionOnSet(f, s) \in Nat
  <2> DEFINE U == T \cap SUBSET s
  <2>1. {} \in U
    BY <1>1
  <2>2. \A r \in SUBSET s : \A x \in s : r \in U /\ x \notin r => r \cup {x} \in U
    BY <1>2
  <2> HIDE DEF T, U
  <2>3. s \in U
    BY <1>a, <2>1, <2>2, SubsetInduction
  <2> QED BY <2>3 DEF T, U
<1>4. ASSUME NEW x \in S PROVE f[x] <= SumFunctionOnSet(f, S)
  <2>1. SumFunctionOnSet(f, S) = f[x] + SumFunctionOnSet(f, S \ {x})
    BY SumRemove
  <2>2. SumFunctionOnSet(f, S \ {x}) \in Nat /\ f[x] \in Nat
    BY <1>3
  <2> QED BY <2>1, <2>2
<1> QED BY <1>3, <1>4

\* The sum over two disjoint sets of indices.
LEMMA SumUnion ==
  ASSUME NEW f, NEW A, NEW B, IsFiniteSet(A), IsFiniteSet(B), A \cap B = {},
         \A x \in A \cup B : f[x] \in Int
  PROVE  SumFunctionOnSet(f, A \cup B)
           = SumFunctionOnSet(f, A) + SumFunctionOnSet(f, B)
<1> DEFINE T == {b \in SUBSET B :
                   SumFunctionOnSet(f, A \cup b)
                     = SumFunctionOnSet(f, A) + SumFunctionOnSet(f, b)}
<1>a. \A b \in SUBSET B : /\ IsFiniteSet(b) /\ IsFiniteSet(A \cup b)
                          /\ SumFunctionOnSet(f, b) \in Int
  BY FS_Subset, FS_Union, SumType
<1>b. SumFunctionOnSet(f, A) \in Int
  BY SumType
<1>1. {} \in T
  BY <1>b, SumEmpty
<1>2. ASSUME NEW b \in SUBSET B, NEW x \in B, b \in T, x \notin b
      PROVE  b \cup {x} \in T
  <2>1. SumFunctionOnSet(f, b \cup {x}) = f[x] + SumFunctionOnSet(f, b)
    <3>1. \A y \in b \cup {x} : f[y] \in Int
      OBVIOUS
    <3> QED BY <1>2, <1>a, <3>1, SumAdd
  <2>2. SumFunctionOnSet(f, (A \cup b) \cup {x}) = f[x] + SumFunctionOnSet(f, A \cup b)
    <3>1. \A y \in (A \cup b) \cup {x} : f[y] \in Int
      OBVIOUS
    <3>2. x \notin A \cup b
      BY <1>2
    <3> QED BY <1>a, <3>1, <3>2, SumAdd
  <2>3. A \cup (b \cup {x}) = (A \cup b) \cup {x}
    OBVIOUS
  <2>4. SumFunctionOnSet(f, A \cup b) = SumFunctionOnSet(f, A) + SumFunctionOnSet(f, b)
    BY <1>2
  <2>5. f[x] \in Int /\ SumFunctionOnSet(f, b) \in Int
    BY <1>a
  <2>6. SumFunctionOnSet(f, A \cup (b \cup {x}))
          = SumFunctionOnSet(f, A) + SumFunctionOnSet(f, b \cup {x})
    <3>1. PICK p \in Int, q \in Int :
            p = SumFunctionOnSet(f, A) /\ q = SumFunctionOnSet(f, b)
      BY <1>b, <2>5
    <3>2. SumFunctionOnSet(f, A \cup (b \cup {x})) = f[x] + (p + q)
      BY <2>2, <2>3, <2>4, <3>1
    <3>3. SumFunctionOnSet(f, b \cup {x}) = f[x] + q
      BY <2>1, <3>1
    <3>4. f[x] + (p + q) = p + (f[x] + q)
      BY <2>5
    <3> QED BY <3>1, <3>2, <3>3, <3>4
  <2> QED BY <2>6
<1> HIDE DEF T
<1>3. B \in T
  BY <1>1, <1>2, SubsetInduction
<1> QED BY <1>3 DEF T

\* The sum of a function that is the sum of two.
LEMMA SumPlus ==
  ASSUME NEW f, NEW g, NEW h, NEW S, IsFiniteSet(S),
         \A x \in S : f[x] \in Int /\ g[x] \in Int /\ h[x] = f[x] + g[x]
  PROVE  SumFunctionOnSet(h, S) = SumFunctionOnSet(f, S) + SumFunctionOnSet(g, S)
<1> DEFINE T == {s \in SUBSET S :
                   SumFunctionOnSet(h, s)
                     = SumFunctionOnSet(f, s) + SumFunctionOnSet(g, s)}
<1>a. \A s \in SUBSET S : /\ IsFiniteSet(s) /\ SumFunctionOnSet(f, s) \in Int
                          /\ SumFunctionOnSet(g, s) \in Int
  BY FS_Subset, SumType
<1>1. {} \in T
  BY SumEmpty
<1>2. ASSUME NEW s \in SUBSET S, NEW x \in S, s \in T, x \notin s
      PROVE  s \cup {x} \in T
  <2>1. \A y \in s \cup {x} : f[y] \in Int /\ g[y] \in Int /\ h[y] \in Int
    OBVIOUS
  <2>2. SumFunctionOnSet(f, s \cup {x}) = f[x] + SumFunctionOnSet(f, s)
    BY <1>2, <1>a, <2>1, SumAdd
  <2>3. SumFunctionOnSet(g, s \cup {x}) = g[x] + SumFunctionOnSet(g, s)
    BY <1>2, <1>a, <2>1, SumAdd
  <2>4. SumFunctionOnSet(h, s \cup {x}) = h[x] + SumFunctionOnSet(h, s)
    BY <1>2, <1>a, <2>1, SumAdd
  <2>5. SumFunctionOnSet(h, s) = SumFunctionOnSet(f, s) + SumFunctionOnSet(g, s)
    BY <1>2
  <2>6. /\ f[x] \in Int /\ g[x] \in Int /\ h[x] = f[x] + g[x]
        /\ SumFunctionOnSet(f, s) \in Int /\ SumFunctionOnSet(g, s) \in Int
    BY <1>a
  <2>7. SumFunctionOnSet(h, s \cup {x})
          = SumFunctionOnSet(f, s \cup {x}) + SumFunctionOnSet(g, s \cup {x})
    BY <2>2, <2>3, <2>4, <2>5, <2>6
  <2> QED BY <2>7
<1> HIDE DEF T
<1>3. S \in T
  BY <1>1, <1>2, SubsetInduction
<1> QED BY <1>3 DEF T

\* The indices S under the names that h gives them.
Renamed(h, S) == {h[x] : x \in S}

\* Indices may be renamed.
LEMMA SumRename ==
  ASSUME NEW f, NEW g, NEW h, NEW S, IsFiniteSet(S),
         \A x, y \in S : h[x] = h[y] => x = y,
         \A x \in S : g[x] = f[h[x]] /\ g[x] \in Int
  PROVE  /\ IsFiniteSet(Renamed(h, S))
         /\ SumFunctionOnSet(f, Renamed(h, S)) = SumFunctionOnSet(g, S)
<1> DEFINE Im(s) == {h[x] : x \in s}
           T == {s \in SUBSET S : /\ IsFiniteSet(Im(s))
                                  /\ SumFunctionOnSet(f, Im(s)) = SumFunctionOnSet(g, s)}
<1>a. \A s \in SUBSET S : IsFiniteSet(s)
  BY FS_Subset
<1>1. {} \in T
  <2>1. Im({}) = {}
    OBVIOUS
  <2> QED BY <2>1, SumEmpty, FS_EmptySet
<1>2. ASSUME NEW s \in SUBSET S, NEW x \in S, s \in T, x \notin s
      PROVE  s \cup {x} \in T
  <2>1. SumFunctionOnSet(g, s \cup {x}) = g[x] + SumFunctionOnSet(g, s)
    <3>1. \A y \in s \cup {x} : g[y] \in Int
      OBVIOUS
    <3> QED BY <1>2, <1>a, <3>1, SumAdd
  <2>2. Im(s \cup {x}) = Im(s) \cup {h[x]} /\ h[x] \notin Im(s)
    BY <1>2
  <2>3. \A z \in Im(s) \cup {h[x]} : f[z] \in Int
    OBVIOUS
  <2>4. IsFiniteSet(Im(s)) /\ SumFunctionOnSet(f, Im(s)) = SumFunctionOnSet(g, s)
    BY <1>2
  <2> HIDE DEF Im
  <2>5. SumFunctionOnSet(f, Im(s) \cup {h[x]}) = f[h[x]] + SumFunctionOnSet(f, Im(s))
    BY <2>2, <2>3, <2>4, SumAdd
  <2>6. IsFiniteSet(Im(s) \cup {h[x]})
    BY <2>4, FS_AddElement
  <2> QED BY <2>1, <2>2, <2>4, <2>5, <2>6
<1> HIDE DEF T, Im
<1>3. S \in T
  BY <1>1, <1>2, SubsetInduction
<1> QED BY <1>3 DEF T, Im, Renamed

\* Zeros add up to 0.
LEMMA SumZero ==
  ASSUME NEW f, NEW S, IsFiniteSet(S), \A x \in S : f[x] = 0
  PROVE  SumFunctionOnSet(f, S) = 0
<1> DEFINE T == {s \in SUBSET S : SumFunctionOnSet(f, s) = 0}
<1>a. \A s \in SUBSET S : IsFiniteSet(s)
  BY FS_Subset
<1>1. {} \in T
  BY SumEmpty
<1>2. ASSUME NEW s \in SUBSET S, NEW x \in S, s \in T, x \notin s
      PROVE  s \cup {x} \in T
  <2>1. SumFunctionOnSet(f, s \cup {x}) = f[x] + SumFunctionOnSet(f, s)
    <3>1. \A y \in s \cup {x} : f[y] \in Int
      OBVIOUS
    <3> QED BY <1>2, <1>a, <3>1, SumAdd
  <2> QED BY <1>2, <2>1
<1> HIDE DEF T
<1>3. S \in T
  BY <1>1, <1>2, SubsetInduction
<1> QED BY <1>3 DEF T

\* Ones add up to their number.
LEMMA SumOnes ==
  ASSUME NEW f, NEW S, IsFiniteSet(S), \A x \in S : f[x] = 1
  PROVE  SumFunctionOnSet(f, S) = Cardinality(S)
<1> DEFINE T == {s \in SUBSET S : SumFunctionOnSet(f, s) = Cardinality(s)}
<1>a. \A s \in SUBSET S : IsFiniteSet(s) /\ Cardinality(s) \in Nat
  BY FS_Subset, FS_CardinalityType
<1>1. {} \in T
  BY SumEmpty, FS_EmptySet
<1>2. ASSUME NEW s \in SUBSET S, NEW x \in S, s \in T, x \notin s
      PROVE  s \cup {x} \in T
  <2>1. SumFunctionOnSet(f, s \cup {x}) = f[x] + SumFunctionOnSet(f, s)
    <3>1. \A y \in s \cup {x} : f[y] \in Int
      OBVIOUS
    <3> QED BY <1>2, <1>a, <3>1, SumAdd
  <2>2. Cardinality(s \cup {x}) = Cardinality(s) + 1
    BY <1>2, <1>a, FS_AddElement
  <2>3. f[x] = 1 /\ SumFunctionOnSet(f, s) = Cardinality(s) /\ Cardinality(s) \in Nat
    BY <1>2, <1>a
  <2> QED BY <2>1, <2>2, <2>3
<1> HIDE DEF T
<1>3. S \in T
  BY <1>1, <1>2, SubsetInduction
<1> QED BY <1>3 DEF T

\* A function that is nowhere larger has no larger a sum.
LEMMA SumLeq ==
  ASSUME NEW f, NEW g, NEW S, IsFiniteSet(S),
         \A x \in S : f[x] \in Int /\ g[x] \in Int /\ f[x] <= g[x]
  PROVE  SumFunctionOnSet(f, S) <= SumFunctionOnSet(g, S)
<1>1. PICK h : h = [x \in S |-> g[x] - f[x]]
  OBVIOUS
<1>2. \A x \in S : h[x] \in Nat /\ g[x] = f[x] + h[x] /\ f[x] \in Int
  BY <1>1
<1>3. SumFunctionOnSet(g, S) = SumFunctionOnSet(f, S) + SumFunctionOnSet(h, S)
  BY <1>2, SumPlus
<1>4. SumFunctionOnSet(h, S) \in Nat
  BY <1>2, SumNat
<1>5. SumFunctionOnSet(f, S) \in Int
  BY <1>2, SumType
<1> QED BY <1>3, <1>4, <1>5
=============================================================================
