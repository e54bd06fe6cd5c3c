-------------------------------- MODULE SumProofs -------------------------------
(***************************************************************************)
(* What the proofs need of Sums.  Induction comes from the fact that every  *)
(* set of numbers has a least one, taken over sets: EveryNumber and Grown.  *)
(* From it, that a sum over a finite set exists, is unique and adds up      *)
(* member by member, and that a strict order on a finite set has a listing. *)
(***************************************************************************)
EXTENDS Sums, FiniteSetTheorems, TLAPS

-----------------------------------------------------------------------------
(* Induction, over sets of numbers and over sets of subsets                 *)

LEMMA Least ==
  ASSUME NEW T, T \subseteq Nat, T # {}
  PROVE  \E k \in T : \A m \in T : k <= m
<1> DEFINE R == OpToRel(<, Nat)
<1>1. IsWellFoundedOn(R, Nat)
  BY NatLessThanWellFounded
<1>2. \A k, m \in Nat : <<k, m>> \in R <=> k < m
  BY DEF OpToRel
<1> HIDE DEF R
<1>3. PICK x \in T : \A y \in T : ~(<<y, x>> \in R)
  BY <1>1, WFMin
<1>4. ASSUME NEW m \in T PROVE x <= m
  <2>1. x \in Nat /\ m \in Nat /\ ~(m < x)
    BY <1>2, <1>3
  <2> QED
    BY <2>1
<1> QED
  BY <1>4

\* A set that has 0 and every successor has every number.
LEMMA EveryNumber ==
  ASSUME NEW T, 0 \in T, \A n \in Nat : n \in T => n + 1 \in T
  PROVE  Nat \subseteq T
<1> SUFFICES ASSUME Nat \ T # {} PROVE FALSE
  OBVIOUS
<1>1. PICK k \in Nat \ T : \A m \in Nat \ T : k <= m
  BY Least
<1>2. k # 0 /\ k - 1 \in Nat
  BY <1>1
<1>3. k - 1 \in T
  BY <1>1, <1>2
<1> QED
  BY <1>1, <1>2, <1>3

\* A family of subsets of a finite set that has {} and, with a subset, every larger one by
\* an element, has the whole set.
LEMMA Grown ==
  ASSUME NEW S, IsFiniteSet(S), NEW C, {} \in C,
         \A A \in SUBSET S : \A x \in S \ A : A \in C => A \cup {x} \in C
  PROVE  SUBSET S \subseteq C
<1> DEFINE T == {n \in Nat : \A A \in SUBSET S : Cardinality(A) = n => A \in C}
<1>1. \A A \in SUBSET S : IsFiniteSet(A) /\ Cardinality(A) \in Nat
  BY FS_Subset, FS_CardinalityType
<1>2. 0 \in T
  BY <1>1, FS_EmptySet
<1>3. ASSUME NEW n \in Nat, n \in T PROVE n + 1 \in T
  <2> SUFFICES ASSUME NEW A \in SUBSET S, Cardinality(A) = n + 1 PROVE A \in C
    BY n + 1 \in Nat
  <2>0. IsFiniteSet(A) /\ n + 1 # 0
    BY <1>1
  <2>1. A # {}
    BY <2>0, FS_EmptySet
  <2>2. PICK x \in A : TRUE
    BY <2>1
  <2>3. Cardinality(A \ {x}) = n
    <3>1. Cardinality(A \ {x}) = Cardinality(A) - 1
      BY <2>0, <2>2, FS_RemoveElement
    <3> QED
      BY <3>1
  <2>4. A \ {x} \in C /\ A \ {x} \in SUBSET S /\ x \in S \ (A \ {x})
    BY <1>3, <2>3
  <2> QED
    BY <2>2, <2>4, (A \ {x}) \cup {x} = A
<1> HIDE DEF T
<1>4. Nat \subseteq T
  BY <1>2, <1>3, EveryNumber
<1> QED
  BY <1>1, <1>4 DEF T

-----------------------------------------------------------------------------
(* Sums                                                                     *)

Any(T) == CHOOSE x \in T : TRUE

\* The recursion behind a sum
Adds(f, S, g) == \A T \in SUBSET S : g[T] = IF T = {} THEN 0 ELSE f[Any(T)] + g[T \ {Any(T)}]

LEMMA AddsExists ==
  ASSUME NEW S, IsFiniteSet(S), NEW f, \A x \in S : f[x] \in Int
  PROVE  \E g \in [SUBSET S -> Int] : Adds(f, S, g)
<1> DEFINE Upto(g, n) ==
             \A T \in SUBSET S : Cardinality(T) <= n =>
               g[T] = IF T = {} THEN 0 ELSE f[Any(T)] + g[T \ {Any(T)}]
           N == {n \in Nat : \E g \in [SUBSET S -> Int] : Upto(g, n)}
<1>1. \A A \in SUBSET S : IsFiniteSet(A) /\ Cardinality(A) \in Nat /\ Cardinality(A) <= Cardinality(S)
  BY FS_Subset, FS_CardinalityType
<1>2. \A A \in SUBSET S : A # {} =>
        /\ Any(A) \in A /\ A \ {Any(A)} \in SUBSET S
        /\ Cardinality(A \ {Any(A)}) = Cardinality(A) - 1
  BY <1>1, FS_RemoveElement DEF Any
<1>3. 0 \in N
  <2>1. [T \in SUBSET S |-> 0] \in [SUBSET S -> Int]
    OBVIOUS
  <2>2. Upto([T \in SUBSET S |-> 0], 0)
    BY <1>1, FS_EmptySet
  <2> QED
    BY <2>1, <2>2
<1>4. ASSUME NEW n \in Nat, n \in N PROVE n + 1 \in N
  <2>1. PICK g \in [SUBSET S -> Int] : Upto(g, n)
    BY <1>4
  <2> DEFINE h == [T \in SUBSET S |-> IF Cardinality(T) = n + 1 THEN f[Any(T)] + g[T \ {Any(T)}] ELSE g[T]]
  <2>2. h \in [SUBSET S -> Int]
    <3>1. ASSUME NEW T \in SUBSET S, Cardinality(T) = n + 1 PROVE f[Any(T)] + g[T \ {Any(T)}] \in Int
      <4>1. T # {}
        BY <3>1, FS_EmptySet
      <4>2. f[Any(T)] \in Int /\ g[T \ {Any(T)}] \in Int
        BY <1>2, <4>1
      <4> QED
        BY <4>2
    <3> QED
      BY <3>1
  <2>3. ASSUME NEW T \in SUBSET S, Cardinality(T) <= n + 1
        PROVE  h[T] = IF T = {} THEN 0 ELSE f[Any(T)] + h[T \ {Any(T)}]
    <3>1. CASE T = {}
      BY <2>1, <3>1, FS_EmptySet
    <3>2. CASE T # {}
      <4>1. Cardinality(T \ {Any(T)}) < n + 1 /\ T \ {Any(T)} \in SUBSET S
        BY <1>1, <1>2, <2>3, <3>2
      <4>2. h[T \ {Any(T)}] = g[T \ {Any(T)}]
        <5>1. Cardinality(T \ {Any(T)}) # n + 1
          BY <1>1, <4>1
        <5> QED
          BY <4>1, <5>1
      <4>3. CASE Cardinality(T) = n + 1
        BY <3>2, <4>2, <4>3
      <4>4. CASE Cardinality(T) # n + 1
        <5>1. Cardinality(T) <= n
          BY <1>1, <2>3, <4>4
        <5> QED
          BY <2>1, <3>2, <4>2, <4>4, <5>1
      <4> QED
        BY <4>3, <4>4
    <3> QED
      BY <3>1, <3>2
  <2> HIDE DEF h
  <2> QED
    BY <2>2, <2>3
<1> HIDE DEF N
<1>5. Nat \subseteq N
  BY <1>3, <1>4, EveryNumber
<1>6. Cardinality(S) \in N
  BY <1>1, <1>5
<1> QED
  BY <1>1, <1>6 DEF N, Adds

\* The recursion has one solution, on each set whatever sets are around it.
LEMMA AddsOnce ==
  ASSUME NEW S, IsFiniteSet(S), NEW f, NEW g, Adds(f, S, g), NEW A \in SUBSET S, NEW h, Adds(f, A, h)
  PROVE  g[A] = h[A]
<1> DEFINE N == {n \in Nat : \A T \in SUBSET A : Cardinality(T) <= n => g[T] = h[T]}
<1>1. \A T \in SUBSET A : T \in SUBSET S /\ IsFiniteSet(T) /\ Cardinality(T) \in Nat
  BY FS_Subset, FS_CardinalityType
<1>2. \A T \in SUBSET A : T # {} =>
        /\ T \ {Any(T)} \in SUBSET A
        /\ Cardinality(T \ {Any(T)}) = Cardinality(T) - 1
  BY <1>1, FS_RemoveElement DEF Any
<1>3. 0 \in N
  <2> SUFFICES ASSUME NEW T \in SUBSET A, Cardinality(T) <= 0 PROVE g[T] = h[T]
    OBVIOUS
  <2>1. T = {}
    BY <1>1, FS_EmptySet
  <2> QED
    BY <2>1, <1>1 DEF Adds
<1>4. ASSUME NEW n \in Nat, n \in N PROVE n + 1 \in N
  <2>0. {} \in SUBSET A /\ g[{}] = h[{}]
    BY DEF Adds
  <2> SUFFICES ASSUME NEW T \in SUBSET A, Cardinality(T) <= n + 1, T # {} PROVE g[T] = h[T]
    BY <2>0, n + 1 \in Nat
  <2>1. Cardinality(T \ {Any(T)}) <= n /\ T \ {Any(T)} \in SUBSET A
    BY <1>1, <1>2
  <2>2. g[T \ {Any(T)}] = h[T \ {Any(T)}]
    BY <1>4, <2>1
  <2> QED
    BY <1>1, <2>2 DEF Adds
<1> HIDE DEF N
<1>5. Nat \subseteq N
  BY <1>3, <1>4, EveryNumber
<1> QED
  BY <1>1, <1>5 DEF N

LEMMA SumIsAdded ==
  ASSUME NEW S, IsFiniteSet(S), NEW f, \A x \in S : f[x] \in Int
  PROVE  \E g \in [SUBSET S -> Int] : Adds(f, S, g) /\ SumOver(f, S) = g[S]
<1> DEFINE Solves(it) == it = [s \in SUBSET S |-> IF s = {} THEN 0 ELSE f[Any(s)] + it[s \ {Any(s)}]]
           iter == CHOOSE it : Solves(it)
<1>1. PICK g \in [SUBSET S -> Int] : Adds(f, S, g)
  BY AddsExists
<1>2. Solves(g)
  BY <1>1 DEF Adds
<1>3. Solves(iter)
  BY <1>2
<1>4. SumOver(f, S) = iter[S]
  BY DEF SumOver, MapThenSumSet, MapThenFoldSet, Any
<1> HIDE DEF iter
<1>5. Adds(f, S, iter)
  BY <1>3 DEF Adds
<1>6. \A T \in SUBSET S : Adds(f, T, iter) /\ Adds(f, T, g)
  BY <1>1, <1>5 DEF Adds
<1>7. iter[S] = g[S]
  BY <1>1, <1>5, AddsOnce
<1> QED
  BY <1>1, <1>4, <1>7

LEMMA SumType ==
  ASSUME NEW S, IsFiniteSet(S), NEW f, \A x \in S : f[x] \in Int
  PROVE  SumOver(f, S) \in Int
<1>1. PICK g \in [SUBSET S -> Int] : Adds(f, S, g) /\ SumOver(f, S) = g[S]
  BY SumIsAdded
<1> QED
  BY <1>1

LEMMA SumEmpty == ASSUME NEW f PROVE SumOver(f, {}) = 0
<1>1. IsFiniteSet({}) /\ \A x \in {} : f[x] \in Int
  BY FS_EmptySet
<1>2. PICK g \in [SUBSET {} -> Int] : Adds(f, {}, g) /\ SumOver(f, {}) = g[{}]
  BY <1>1, SumIsAdded
<1> QED
  BY <1>2 DEF Adds

\* The sum is over parts as over the whole.
LEMMA SumOfPart ==
  ASSUME NEW S, IsFiniteSet(S), NEW f, \A x \in S : f[x] \in Int, NEW g, Adds(f, S, g)
  PROVE  \A T \in SUBSET S : SumOver(f, T) = g[T]
<1> SUFFICES ASSUME NEW T \in SUBSET S PROVE SumOver(f, T) = g[T]
  OBVIOUS
<1>1. IsFiniteSet(T) /\ \A x \in T : f[x] \in Int
  BY FS_Subset
<1>2. PICK h \in [SUBSET T -> Int] : Adds(f, T, h) /\ SumOver(f, T) = h[T]
  BY <1>1, SumIsAdded
<1> QED
  BY <1>2, AddsOnce

\* An element may be taken out of a sum, whichever the recursion takes.
LEMMA SumTake ==
  ASSUME NEW S, IsFiniteSet(S), NEW f, \A x \in S : f[x] \in Int, NEW x \in S
  PROVE  SumOver(f, S) = f[x] + SumOver(f, S \ {x})
<1>1. PICK g \in [SUBSET S -> Int] : Adds(f, S, g)
  BY AddsExists
<1> DEFINE C == {A \in SUBSET S : \A y \in A : g[A] = f[y] + g[A \ {y}]}
           N == {n \in Nat : \A A \in SUBSET S : Cardinality(A) <= n => A \in C}
<1>2. \A A \in SUBSET S : IsFiniteSet(A) /\ Cardinality(A) \in Nat
  BY FS_Subset, FS_CardinalityType
<1>3. \A A \in SUBSET S : \A y \in A : Cardinality(A \ {y}) = Cardinality(A) - 1
  BY <1>2, FS_RemoveElement
<1>4. 0 \in N
  <2> SUFFICES ASSUME NEW A \in SUBSET S, Cardinality(A) <= 0 PROVE A \in C
    OBVIOUS
  <2>1. A = {}
    BY <1>2, FS_EmptySet
  <2> QED
    BY <2>1
<1>5. ASSUME NEW n \in Nat, n \in N PROVE n + 1 \in N
  <2> SUFFICES ASSUME NEW A \in SUBSET S, Cardinality(A) <= n + 1, NEW y \in A
               PROVE  g[A] = f[y] + g[A \ {y}]
    BY n + 1 \in Nat
  <2> DEFINE a == Any(A)
  <2>1. a \in A
    BY DEF Any
  <2>2. g[A] = f[a] + g[A \ {a}]
    BY <1>1 DEF Adds
  <2> HIDE DEF a
  <2>3. CASE y = a
    BY <2>2, <2>3
  <2>4. CASE y # a
    <3>1. /\ Cardinality(A \ {a}) <= n /\ A \ {a} \in SUBSET S
          /\ Cardinality(A \ {y}) <= n /\ A \ {y} \in SUBSET S
      BY <1>2, <1>3, <2>1
    <3>2. A \ {a} \in C /\ A \ {y} \in C
      BY <1>5, <3>1
    <3>3. y \in A \ {a} /\ a \in A \ {y} /\ (A \ {a}) \ {y} = (A \ {y}) \ {a}
      BY <2>1, <2>4
    <3>4. g[A \ {a}] = f[y] + g[(A \ {y}) \ {a}] /\ g[A \ {y}] = f[a] + g[(A \ {y}) \ {a}]
      BY <3>2, <3>3
    <3>5. f[a] \in Int /\ f[y] \in Int /\ g[(A \ {y}) \ {a}] \in Int
      BY <2>1
    <3> QED
      BY <2>2, <3>4, <3>5
  <2> QED
    BY <2>3, <2>4
<1> HIDE DEF N
<1>6. Nat \subseteq N
  BY <1>4, <1>5, EveryNumber
<1>7. S \in C
  BY <1>2, <1>6 DEF N
<1>8. SumOver(f, S) = g[S] /\ SumOver(f, S \ {x}) = g[S \ {x}]
  BY <1>1, SumOfPart
<1> QED
  BY <1>7, <1>8

LEMMA SumAdd ==
  ASSUME NEW S, IsFiniteSet(S), NEW f, \A y \in S : f[y] \in Int, NEW x, x \notin S, f[x] \in Int
  PROVE  SumOver(f, S \cup {x}) = f[x] + SumOver(f, S)
<1>1. IsFiniteSet(S \cup {x}) /\ \A y \in S \cup {x} : f[y] \in Int
  BY FS_AddElement
<1>2. (S \cup {x}) \ {x} = S
  OBVIOUS
<1> QED
  BY <1>1, <1>2, SumTake

\* Greater rows have a greater sum.
LEMMA SumMonotone ==
  ASSUME NEW S, IsFiniteSet(S), NEW f, NEW g, \A x \in S : f[x] \in Int /\ g[x] \in Int /\ f[x] <= g[x]
  PROVE  SumOver(f, S) <= SumOver(g, S)
<1> DEFINE C == {A \in SUBSET S : SumOver(f, A) <= SumOver(g, A)}
<1>1. {} \in C
  BY SumEmpty
<1>2. ASSUME NEW A \in SUBSET S, NEW x \in S \ A, A \in C PROVE A \cup {x} \in C
  <2>1. IsFiniteSet(A) /\ \A y \in A : f[y] \in Int /\ g[y] \in Int
    BY FS_Subset
  <2>2. SumOver(f, A) \in Int /\ SumOver(g, A) \in Int
    BY <2>1, SumType
  <2>3. SumOver(f, A \cup {x}) = f[x] + SumOver(f, A) /\ SumOver(g, A \cup {x}) = g[x] + SumOver(g, A)
    BY <2>1, SumAdd
  <2>4. f[x] \in Int /\ g[x] \in Int /\ f[x] <= g[x] /\ SumOver(f, A) <= SumOver(g, A)
    BY <1>2
  <2> QED
    BY <2>2, <2>3, <2>4
<1> HIDE DEF C
<1>3. SUBSET S \subseteq C
  BY <1>1, <1>2, Grown
<1> QED
  BY <1>3 DEF C

\* Only the rows that are added matter.
LEMMA SumSame ==
  ASSUME NEW S, IsFiniteSet(S), NEW f, NEW g, \A x \in S : f[x] \in Int /\ f[x] = g[x]
  PROVE  SumOver(f, S) = SumOver(g, S)
<1>1. SumOver(f, S) <= SumOver(g, S) /\ SumOver(g, S) <= SumOver(f, S)
  BY SumMonotone
<1>2. SumOver(f, S) \in Int /\ SumOver(g, S) \in Int
  BY SumType
<1> QED
  BY <1>1, <1>2

\* Rewriting one row moves the sum by what the row moves.
LEMMA SumMoved ==
  ASSUME NEW S, IsFiniteSet(S), NEW x \in S, NEW f, NEW g,
         \A y \in S : f[y] \in Int, \A y \in S : g[y] \in Int, \A y \in S \ {x} : g[y] = f[y]
  PROVE  SumOver(g, S) = SumOver(f, S) + g[x] - f[x]
<1>1. IsFiniteSet(S \ {x}) /\ \A y \in S \ {x} : f[y] \in Int /\ f[y] = g[y]
  BY FS_RemoveElement
<1>2. SumOver(f, S \ {x}) = SumOver(g, S \ {x}) /\ SumOver(f, S \ {x}) \in Int
  BY <1>1, SumSame, SumType
<1>3. SumOver(f, S) = f[x] + SumOver(f, S \ {x})
  BY SumTake
<1>4. SumOver(g, S) = g[x] + SumOver(g, S \ {x})
  BY SumTake
<1>5. f[x] \in Int /\ g[x] \in Int
  OBVIOUS
<1> QED
  BY <1>2, <1>3, <1>4, <1>5

\* Renaming the keys one to one keeps the sum.
LEMMA SumMapped ==
  ASSUME NEW K, IsFiniteSet(K), NEW T, NEW p \in [K -> T], NEW f, NEW h,
         \A k \in K : f[p[k]] \in Int /\ h[k] = f[p[k]],
         \A k, l \in K : p[k] = p[l] => k = l,
         \A y \in T : \E k \in K : p[k] = y
  PROVE  SumOver(h, K) = SumOver(f, T)
<1> DEFINE C == {A \in SUBSET K : IsFiniteSet({p[k] : k \in A}) /\ SumOver(h, A) = SumOver(f, {p[k] : k \in A})}
<1>1. {} \in C
  <2>1. {p[k] : k \in {}} = {}
    OBVIOUS
  <2> QED
    BY <2>1, SumEmpty, FS_EmptySet
<1>2. ASSUME NEW A \in SUBSET K, NEW x \in K \ A, A \in C PROVE A \cup {x} \in C
  <2> DEFINE P == {p[k] : k \in A}
  <2>1. IsFiniteSet(A) /\ \A k \in A : h[k] \in Int
    BY FS_Subset
  <2>2. {p[k] : k \in A \cup {x}} = P \cup {p[x]} /\ p[x] \notin P
    OBVIOUS
  <2>3. IsFiniteSet(P) /\ SumOver(h, A) = SumOver(f, P)
    BY <1>2
  <2>4. \A y \in P : f[y] \in Int
    OBVIOUS
  <2>5. h[x] \in Int /\ f[p[x]] \in Int /\ h[x] = f[p[x]]
    OBVIOUS
  <2> HIDE DEF P
  <2>6. SumOver(h, A \cup {x}) = h[x] + SumOver(h, A)
    BY <2>1, <2>5, SumAdd
  <2>7. SumOver(f, P \cup {p[x]}) = f[p[x]] + SumOver(f, P)
    BY <2>2, <2>3, <2>4, <2>5, SumAdd
  <2>8. IsFiniteSet(P \cup {p[x]})
    BY <2>3, FS_AddElement
  <2> QED
    BY <2>2, <2>3, <2>5, <2>6, <2>7, <2>8
<1> HIDE DEF C
<1>3. SUBSET K \subseteq C
  BY <1>1, <1>2, Grown
<1>4. T = {p[k] : k \in K}
  OBVIOUS
<1> QED
  BY <1>3, <1>4 DEF C

-----------------------------------------------------------------------------
(* Order                                                                    *)

StrictOrder(S, R) ==
  /\ \A s \in S : <<s, s>> \notin R
  /\ \A s, t, u \in S : <<s, t>> \in R /\ <<t, u>> \in R => <<s, u>> \in R
  /\ \A s, t \in S : s # t => <<s, t>> \in R \/ <<t, s>> \in R

\* The place of a member is one more than the number of those before it.
Before(S, R, s) == {t \in S : <<t, s>> \in R}
PlaceIn(S, R, s) == 1 + Cardinality(Before(S, R, s))

LEMMA PlacesOrdered ==
  ASSUME NEW S, IsFiniteSet(S), NEW R, StrictOrder(S, R), NEW s \in S
  PROVE  /\ PlaceIn(S, R, s) \in 1 .. Cardinality(S)
         /\ \A t \in S : <<t, s>> \in R => PlaceIn(S, R, t) < PlaceIn(S, R, s)
<1>1. \A t \in S : IsFiniteSet(Before(S, R, t)) /\ Cardinality(Before(S, R, t)) \in Nat
                   /\ Cardinality(Before(S, R, t)) <= Cardinality(S)
  BY FS_Subset, FS_CardinalityType DEF Before
<1>2. Cardinality(Before(S, R, s)) # Cardinality(S)
  <2>1. s \notin Before(S, R, s) /\ Before(S, R, s) \in SUBSET S
    BY DEF Before, StrictOrder
  <2> QED
    BY <2>1, FS_Subset
<1>3. ASSUME NEW t \in S, <<t, s>> \in R PROVE PlaceIn(S, R, t) < PlaceIn(S, R, s)
  <2>1. Before(S, R, t) \in SUBSET Before(S, R, s) /\ t \in Before(S, R, s) /\ t \notin Before(S, R, t)
    BY <1>3 DEF Before, StrictOrder
  <2>2. Cardinality(Before(S, R, t)) <= Cardinality(Before(S, R, s))
        /\ Cardinality(Before(S, R, t)) # Cardinality(Before(S, R, s))
    BY <1>1, <2>1, FS_Subset
  <2> QED
    BY <1>1, <2>2 DEF PlaceIn
<1>4. Cardinality(S) \in Nat
  BY FS_CardinalityType
<1> QED
  BY <1>1, <1>2, <1>3, <1>4 DEF PlaceIn

\* The listing has every member once, in the order.
LEMMA Listed ==
  ASSUME NEW S, IsFiniteSet(S), NEW R, StrictOrder(S, R)
  PROVE  LET q == Listing(S, R)
             n == Cardinality(S)
         IN /\ n \in Nat /\ q \in [1 .. n -> S]
            /\ \A i, j \in 1 .. n : i < j => <<q[i], q[j]>> \in R
            /\ \A i, j \in 1 .. n : q[i] = q[j] => i = j
            /\ \A s \in S : \E i \in 1 .. n : q[i] = s
<1> DEFINE n == Cardinality(S)
           Sorts(q) == \A i, j \in 1 .. n : i < j => <<q[i], q[j]>> \in R
           p == [s \in S |-> PlaceIn(S, R, s)]
<1>1. n \in Nat /\ IsFiniteSet(1 .. n) /\ Cardinality(1 .. n) = n
  BY FS_CardinalityType, FS_Interval
<1>2. \E q \in [1 .. n -> S] : Sorts(q)
  <2>1. p \in Injection(S, 1 .. n)
    <3>1. p \in [S -> 1 .. n]
      BY PlacesOrdered
    <3>2. \A s, t \in S : s # t => p[s] # p[t]
      <4> SUFFICES ASSUME NEW s \in S, NEW t \in S, s # t PROVE p[s] # p[t]
        OBVIOUS
      <4>1. PlaceIn(S, R, s) < PlaceIn(S, R, t) \/ PlaceIn(S, R, t) < PlaceIn(S, R, s)
        BY PlacesOrdered DEF StrictOrder
      <4>2. PlaceIn(S, R, s) \in Int /\ PlaceIn(S, R, t) \in Int
        BY <1>1, PlacesOrdered
      <4> QED
        BY <4>1, <4>2
    <3> QED
      BY <3>1, <3>2 DEF Injection, IsInjective
  <2>2. p \in Surjection(S, 1 .. n)
    BY <1>1, <2>1, FS_Injection
  <2>3. \A i \in 1 .. n : \E s \in S : PlaceIn(S, R, s) = i
    BY <2>2 DEF Surjection
  <2> DEFINE q == [i \in 1 .. n |-> CHOOSE s \in S : PlaceIn(S, R, s) = i]
  <2>4. \A i \in 1 .. n : q[i] \in S /\ PlaceIn(S, R, q[i]) = i
    BY <2>3
  <2>5. q \in [1 .. n -> S]
    BY <2>3
  <2> HIDE DEF q
  <2>6. ASSUME NEW i \in 1 .. n, NEW j \in 1 .. n, i < j PROVE <<q[i], q[j]>> \in R
    <3>1. q[i] # q[j]
      BY <1>1, <2>4, <2>6
    <3>2. CASE <<q[j], q[i]>> \in R
      <4>1. PlaceIn(S, R, q[j]) < PlaceIn(S, R, q[i])
        BY <2>4, <3>2, PlacesOrdered
      <4> QED
        BY <1>1, <2>4, <2>6, <4>1
    <3> QED
      BY <2>4, <3>1, <3>2 DEF StrictOrder
  <2> QED
    BY <2>5, <2>6
<1> HIDE DEF p
<1> DEFINE q == Listing(S, R)
<1>3. q \in [1 .. n -> S] /\ Sorts(q)
  BY <1>2 DEF Listing
<1> HIDE DEF q
<1>4. \A i, j \in 1 .. n : q[i] = q[j] => i = j
  <2> SUFFICES ASSUME NEW i \in 1 .. n, NEW j \in 1 .. n, q[i] = q[j], i # j PROVE FALSE
    OBVIOUS
  <2>1. i < j \/ j < i
    BY <1>1
  <2> QED
    BY <1>3, <2>1 DEF StrictOrder
<1>5. q \in Injection(1 .. n, S)
  BY <1>3, <1>4 DEF Injection, IsInjective
<1>6. q \in Surjection(1 .. n, S)
  BY <1>1, <1>5, FS_Injection
<1>7. \A s \in S : \E i \in 1 .. n : q[i] = s
  BY <1>6 DEF Surjection
<1> QED
  BY <1>1, <1>3, <1>4, <1>7 DEF q

LEMMA LesserOfTwo ==
  ASSUME NEW a \in Int, NEW b \in Int
  PROVE  Min({a, b}) = IF a <= b THEN a ELSE b
<1> DEFINE m == IF a <= b THEN a ELSE b
<1>1. m \in {a, b} /\ \A y \in {a, b} : m <= y
  OBVIOUS
<1>2. \A x \in {a, b} : (\A y \in {a, b} : x <= y) => x = m
  OBVIOUS
<1> HIDE DEF m
<1> QED
  BY <1>1, <1>2 DEF Min, m

\* What a one-to-one renaming of a finite set counts.
LEMMA CountMapped ==
  ASSUME NEW K, IsFiniteSet(K), NEW p, \A k, l \in K : p[k] = p[l] => k = l
  PROVE  IsFiniteSet({p[k] : k \in K}) /\ Cardinality({p[k] : k \in K}) = Cardinality(K)
<1> DEFINE T == {p[k] : k \in K}
           F == [k \in K |-> p[k]]
<1>1. F \in Bijection(K, T)
  BY DEF Bijection, Injection, Surjection, IsInjective
<1>2. ExistsBijection(K, T)
  BY <1>1 DEF ExistsBijection
<1> QED
  BY <1>2, FS_Bijection

LEMMA OfOne == ASSUME NEW a \in Int PROVE Min({a}) = a
<1>1. {a, a} = {a}
  OBVIOUS
<1> QED
  BY <1>1, LesserOfTwo

LEMMA Greatest ==
  ASSUME NEW n \in Nat, NEW S, S \subseteq 1 .. n, S # {}
  PROVE  Max(S) \in S /\ \A y \in S : y <= Max(S)
<1> DEFINE U == {k \in Nat : \A y \in S : y <= k}
<1>1. PICK k \in U : \A m \in U : k <= m
  <2>1. n \in U
    OBVIOUS
  <2> QED
    BY <2>1, Least
<1>2. k \in S
  <2>1. SUFFICES ASSUME k \notin S PROVE FALSE
    OBVIOUS
  <2>2. \A y \in S : y <= k - 1
    BY <2>1
  <2>3. PICK y \in S : TRUE
    OBVIOUS
  <2>4. k - 1 \in Nat
    BY <2>2, <2>3, y \in 1 .. n, y <= k - 1
  <2> QED
    BY <1>1, <2>2, <2>4
<1> QED
  BY <1>2 DEF Max

=============================================================================
