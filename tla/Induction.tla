----------------------------- MODULE Induction -----------------------------
(***************************************************************************)
(* Induction over the natural numbers in a first-order form (a set that    *)
(* holds 0 and is closed under successor holds every number), and what     *)
(* follows from it for the helpers the models use: least elements, sums    *)
(* over finite sets and over sequences, definitions by iteration.          *)
(***************************************************************************)
EXTENDS Lists, FiniteSets, FiniteSetsExt, FiniteSetTheorems, SequenceTheorems,
        WellFoundedInduction, TLAPS

\* Induction, with the property to prove given as a set.
LEMMA NatSetInduction ==
    ASSUME NEW S, 0 \in S, \A n \in Nat : n \in S => n + 1 \in S
    PROVE  Nat \subseteq S
<1>. DEFINE T == Nat \ S
            R == {ss \in Nat \X Nat : ss[1] < ss[2]}
<1>1. SUFFICES ASSUME T # {} PROVE FALSE
  OBVIOUS
<1>2. IsWellFoundedOn(R, Nat)
  BY NatLessThanWellFounded, Zenon DEF OpToRel
<1>3. T \subseteq Nat
  OBVIOUS
<1>. HIDE DEF R
<1>4. PICK x \in T : \A y \in T : ~ (<<y, x>> \in R)
  <2>. HIDE DEF T
  <2>. QED BY <1>1, <1>2, <1>3, WFMin
<1>5. \A y \in T : ~ (y < x)
  <2>1. \A y \in Nat : y < x => <<y, x>> \in R
    BY <1>3 DEF R
  <2>. QED BY <2>1, <1>3, <1>4
<1>6. x # 0 /\ x \in Nat /\ x \notin S
  OBVIOUS
<1>7. x - 1 \in Nat /\ x - 1 \notin S
  BY <1>6
<1>. QED BY <1>5, <1>7, <1>6

\* Min of a nonempty set of natural numbers is its least element.
LEMMA MinOfNats ==
    ASSUME NEW T \in SUBSET Nat, T # {}
    PROVE  Min(T) \in T /\ \A y \in T : Min(T) <= y
<1>. DEFINE S == {n \in Nat : \A k \in T : k > n}
<1>1. \E x \in T : \A y \in T : x <= y
  <2>1. SUFFICES ASSUME \A x \in T : \E y \in T : y < x PROVE FALSE
    OBVIOUS
  <2>2. 0 \in S
    BY <2>1
  <2>3. ASSUME NEW n \in Nat, n \in S PROVE n + 1 \in S
    <3>1. SUFFICES ASSUME NEW k \in T, k <= n + 1 PROVE FALSE
      OBVIOUS
    <3>2. PICK y \in T : y < k
      BY <2>1
    <3>. QED BY <2>3, <3>1, <3>2
  <2>4. Nat \subseteq S
    <3>. HIDE DEF S
    <3>. QED BY <2>2, <2>3, NatSetInduction
  <2>5. PICK t : t \in T
    OBVIOUS
  <2>. QED BY <2>4, <2>5
<1>. QED BY <1>1, Zenon DEF Min

\* Max of a nonempty bounded set of natural numbers is its greatest element.
LEMMA MaxOfNats ==
    ASSUME NEW T \in SUBSET Nat, T # {}, NEW b \in Nat, \A y \in T : y <= b
    PROVE  Max(T) \in T /\ \A y \in T : Max(T) >= y
<1>. DEFINE B == {n \in Nat : \A y \in T : y <= n}
<1>1. PICK m \in B : \A n \in B : m <= n
  <2>1. B \in SUBSET Nat /\ B # {}
    OBVIOUS
  <2>. HIDE DEF B
  <2>. QED BY <2>1, MinOfNats
<1>2. m \in T
  <2>1. SUFFICES ASSUME m \notin T PROVE FALSE
    OBVIOUS
  <2>2. \A y \in T : y <= m - 1
    BY <2>1, <1>1
  <2>3. m # 0
    <3>1. PICK t : t \in T
      OBVIOUS
    <3>. QED BY <2>1, <1>1, <3>1
  <2>4. m - 1 \in B
    BY <2>2, <2>3, <1>1
  <2>. QED BY <2>4, <1>1
<1>3. \E x \in T : \A y \in T : x >= y
  BY <1>1, <1>2
<1>. QED BY <1>3, Zenon DEF Max
-----------------------------------------------------------------------------
\* The sum of g over a finite set.

SetSum(g, S) == MapThenSumSet(LAMBDA x : g[x], S)

Chosen(s) == CHOOSE x \in s : TRUE

\* f maps each subset of S to the sum of g over it.
IsSummation(f, g, S) ==
    f = [s \in SUBSET S |-> IF s = {} THEN 0 ELSE g[Chosen(s)] + f[s \ {Chosen(s)}]]

\* The element CHOOSE picks of a nonempty set is in it.
LEMMA ChosenIn == ASSUME NEW s, s # {} PROVE Chosen(s) \in s
BY Zenon DEF Chosen

\* Removing an element makes a finite subset smaller by one.
LEMMA SmallerSubset ==
    ASSUME NEW S, IsFiniteSet(S), NEW s \in SUBSET S, NEW x \in s
    PROVE  /\ IsFiniteSet(s) /\ Cardinality(s) \in Nat /\ Cardinality(s) # 0
           /\ s \ {x} \in SUBSET S
           /\ Cardinality(s \ {x}) = Cardinality(s) - 1
<1>1. IsFiniteSet(s)
  BY FS_Subset
<1>2. Cardinality(s) \in Nat
  BY <1>1, FS_CardinalityType
<1>3. Cardinality(s) # 0
  BY <1>1, FS_EmptySet
<1>4. Cardinality(s \ {x}) = Cardinality(s) - 1
  BY <1>1, FS_RemoveElement
<1>. QED BY <1>1, <1>2, <1>3, <1>4

\* Sums over the subsets of a finite set exist: by induction on their size.
LEMMA SummationExists ==
    ASSUME NEW S, IsFiniteSet(S), NEW g, \A x \in S : g[x] \in Int
    PROVE  \E f \in [SUBSET S -> Int] : IsSummation(f, g, S)
<1>. DEFINE Upto(n) == {s \in SUBSET S : Cardinality(s) <= n}
            Sums(n, f) == \A s \in Upto(n) :
                f[s] = IF s = {} THEN 0 ELSE g[Chosen(s)] + f[s \ {Chosen(s)}]
            P(n) == \E f \in [Upto(n) -> Int] : Sums(n, f)
            N == {n \in Nat : P(n)}
<1>1. P(0)
  <2>1. \A s \in Upto(0) : s = {}
    <3>1. SUFFICES ASSUME NEW s \in SUBSET S, Cardinality(s) <= 0, NEW x \in s PROVE FALSE
      OBVIOUS
    <3>2. Cardinality(s) \in Nat /\ Cardinality(s) # 0
      BY SmallerSubset
    <3>. QED BY <3>1, <3>2
  <2>2. [s \in Upto(0) |-> 0] \in [Upto(0) -> Int] /\ Sums(0, [s \in Upto(0) |-> 0])
    BY <2>1
  <2>. QED BY <2>2
<1>2. ASSUME NEW n \in Nat, P(n) PROVE P(n + 1)
  <2>1. PICK f \in [Upto(n) -> Int] : Sums(n, f)
    BY <1>2
  <2>. DEFINE h == [s \in Upto(n + 1) |->
                      IF Cardinality(s) <= n THEN f[s]
                      ELSE g[Chosen(s)] + f[s \ {Chosen(s)}]]
  <2>2. \A s \in Upto(n + 1) : s # {} =>
          /\ Chosen(s) \in s /\ g[Chosen(s)] \in Int
          /\ s \ {Chosen(s)} \in Upto(n) /\ Cardinality(s) \in Nat
          /\ Cardinality(s \ {Chosen(s)}) = Cardinality(s) - 1
    BY ChosenIn, SmallerSubset
  <2>3. {} \in Upto(n)
    BY FS_EmptySet
  <2>4. \A s \in Upto(n + 1) : Cardinality(s) <= n => s \in Upto(n)
    OBVIOUS
  <2>5. h \in [Upto(n + 1) -> Int]
    <3>1. ASSUME NEW s \in Upto(n + 1)
          PROVE  (IF Cardinality(s) <= n THEN f[s] ELSE g[Chosen(s)] + f[s \ {Chosen(s)}]) \in Int
      <4>. HIDE DEF Upto
      <4>1. CASE s = {}
        BY <4>1, <2>3, FS_EmptySet
      <4>2. CASE s # {} /\ Cardinality(s) <= n
        BY <4>2, <2>4
      <4>3. CASE s # {} /\ ~(Cardinality(s) <= n)
        BY <4>3, <2>2
      <4>. QED BY <4>1, <4>2, <4>3
    <3>. HIDE DEF Upto
    <3>. QED BY <3>1
  <2>6. ASSUME NEW s \in Upto(n + 1)
        PROVE  h[s] = IF s = {} THEN 0 ELSE g[Chosen(s)] + h[s \ {Chosen(s)}]
    <3>1. CASE s = {}
      <4>1. Cardinality(s) <= n
        BY <3>1, FS_EmptySet
      <4>. HIDE DEF Upto
      <4>2. h[s] = f[s]
        BY <4>1
      <4>. QED BY <4>2, <3>1, <2>1, <2>3
    <3>2. CASE s # {}
      <4>. HIDE DEF Upto
      <4>. DEFINE p == s \ {Chosen(s)}
      <4>0. p \in Upto(n) /\ p \in Upto(n + 1) /\ Cardinality(p) <= n
        <5>1. p \in Upto(n)
          BY <2>2, <3>2
        <5>2. Cardinality(p) \in Int
          BY <2>2, <3>2
        <5>. QED BY <5>1, <5>2 DEF Upto
      <4>1. h[p] = f[p]
        BY <4>0
      <4>2. CASE Cardinality(s) <= n
        <5>1. h[s] = f[s] /\ s \in Upto(n)
          BY <2>4, <4>2
        <5>. QED BY <5>1, <4>1, <3>2, <2>1
      <4>3. CASE ~(Cardinality(s) <= n)
        BY <4>1, <4>3, <3>2
      <4>. QED BY <4>2, <4>3
    <3>. QED BY <3>1, <3>2
  <2>. HIDE DEF h
  <2>. QED BY <2>5, <2>6
<1>3. Nat \subseteq N
  <2>. HIDE DEF P
  <2>1. 0 \in N
    BY <1>1
  <2>2. \A n \in Nat : n \in N => n + 1 \in N
    BY <1>2
  <2>. HIDE DEF N
  <2>. QED BY <2>1, <2>2, NatSetInduction
<1>4. P(Cardinality(S))
  <2>1. Cardinality(S) \in Nat
    BY FS_CardinalityType
  <2>. HIDE DEF P
  <2>. QED BY <1>3, <2>1
<1>5. Upto(Cardinality(S)) = SUBSET S
  BY FS_Subset
<1>6. PICK f \in [SUBSET S -> Int] : Sums(Cardinality(S), f)
  <2>. HIDE DEF Upto
  <2>. QED BY <1>4, <1>5
<1>7. \A s \in SUBSET S : f[s] = IF s = {} THEN 0 ELSE g[Chosen(s)] + f[s \ {Chosen(s)}]
  <2>. HIDE DEF Upto
  <2>. QED BY <1>5, <1>6
<1>8. f = [s \in SUBSET S |-> f[s]]
  OBVIOUS
<1>9. f = [s \in SUBSET S |-> IF s = {} THEN 0 ELSE g[Chosen(s)] + f[s \ {Chosen(s)}]]
  BY <1>7, <1>8, Zenon
<1>. QED BY <1>9, Zenon DEF IsSummation

\* Two summations agree on a set on which their functions agree.
LEMMA SummationUnique ==
    ASSUME NEW S, IsFiniteSet(S), NEW g, NEW f, IsSummation(f, g, S),
           NEW T, IsFiniteSet(T), NEW h, NEW e, IsSummation(e, h, T),
           NEW A \in SUBSET (S \cap T), \A x \in A : g[x] = h[x]
    PROVE  f[A] = e[A]
<1>. DEFINE P(n) == \A s \in SUBSET A : Cardinality(s) = n => f[s] = e[s]
            N == {n \in Nat : P(n)}
<1>0. /\ \A s \in SUBSET S : f[s] = IF s = {} THEN 0 ELSE g[Chosen(s)] + f[s \ {Chosen(s)}]
      /\ \A s \in SUBSET T : e[s] = IF s = {} THEN 0 ELSE h[Chosen(s)] + e[s \ {Chosen(s)}]
  BY DEF IsSummation
<1>1. P(0)
  <2>1. SUFFICES ASSUME NEW s \in SUBSET A, Cardinality(s) = 0 PROVE f[s] = e[s]
    OBVIOUS
  <2>2. s = {}
    BY <2>1, SmallerSubset
  <2>. QED BY <2>2, <1>0
<1>2. ASSUME NEW n \in Nat, P(n) PROVE P(n + 1)
  <2>1. SUFFICES ASSUME NEW s \in SUBSET A, Cardinality(s) = n + 1 PROVE f[s] = e[s]
    OBVIOUS
  <2>2. s # {}
    BY <2>1, FS_EmptySet
  <2>3. Chosen(s) \in s
    BY <2>2, ChosenIn
  <2>4. s \ {Chosen(s)} \in SUBSET A /\ Cardinality(s \ {Chosen(s)}) = n
    BY <2>1, <2>3, SmallerSubset
  <2>5. f[s \ {Chosen(s)}] = e[s \ {Chosen(s)}]
    BY <1>2, <2>4
  <2>. QED BY <1>0, <2>2, <2>3, <2>5
<1>3. Nat \subseteq N
  <2>. HIDE DEF P
  <2>1. 0 \in N /\ \A n \in Nat : n \in N => n + 1 \in N
    BY <1>1, <1>2
  <2>. HIDE DEF N
  <2>. QED BY <2>1, NatSetInduction
<1>4. Cardinality(A) \in Nat
  BY FS_Subset, FS_CardinalityType
<1>5. P(Cardinality(A))
  <2>. HIDE DEF P
  <2>. QED BY <1>3, <1>4
<1>. QED BY <1>5

\* The sum over a set does not depend on the element it starts with.
LEMMA SummationAny ==
    ASSUME NEW S, IsFiniteSet(S), NEW g, \A x \in S : g[x] \in Int,
           NEW f, \A s \in SUBSET S : f[s] \in Int, IsSummation(f, g, S),
           NEW A \in SUBSET S, NEW e \in A
    PROVE  f[A] = g[e] + f[A \ {e}]
<1>. DEFINE P(n) == \A s \in SUBSET S : Cardinality(s) = n =>
                        \A x \in s : f[s] = g[x] + f[s \ {x}]
            N == {n \in Nat : P(n)}
<1>0. \A s \in SUBSET S : f[s] = IF s = {} THEN 0 ELSE g[Chosen(s)] + f[s \ {Chosen(s)}]
  BY DEF IsSummation
<1>1. P(0)
  BY SmallerSubset
<1>2. ASSUME NEW n \in Nat, P(n) PROVE P(n + 1)
  <2>1. SUFFICES ASSUME NEW s \in SUBSET S, Cardinality(s) = n + 1, NEW x \in s
                 PROVE  f[s] = g[x] + f[s \ {x}]
    OBVIOUS
  <2>. DEFINE p == Chosen(s)
  <2>2. p \in s
    BY ChosenIn
  <2>3. f[s] = g[p] + f[s \ {p}]
    BY <1>0, <2>2
  <2>4. /\ s \ {p} \in SUBSET S /\ Cardinality(s \ {p}) = n
        /\ s \ {x} \in SUBSET S /\ Cardinality(s \ {x}) = n
    BY <2>1, <2>2, SmallerSubset
  <2>5. CASE x = p
    BY <2>5, <2>3
  <2>6. CASE x # p
    <3>. HIDE DEF p
    <3>1. f[s \ {p}] = g[x] + f[(s \ {p}) \ {x}]
      BY <1>2, <2>4, <2>6
    <3>2. f[s \ {x}] = g[p] + f[(s \ {x}) \ {p}]
      BY <1>2, <2>2, <2>4, <2>6
    <3>. DEFINE rest == (s \ {p}) \ {x}
    <3>3. (s \ {x}) \ {p} = rest
      OBVIOUS
    <3>4. rest \in SUBSET S
      BY <2>4
    <3>5. f[s \ {p}] = g[x] + f[rest] /\ f[s \ {x}] = g[p] + f[rest]
      BY <3>1, <3>2, <3>3
    <3>. HIDE DEF rest
    <3>6. g[p] \in Int /\ g[x] \in Int /\ f[rest] \in Int
      BY <2>2, <3>4
    <3>. QED BY <2>3, <3>5, <3>6
  <2>. QED BY <2>5, <2>6
<1>3. Nat \subseteq N
  <2>. HIDE DEF P
  <2>1. 0 \in N /\ \A n \in Nat : n \in N => n + 1 \in N
    BY <1>1, <1>2
  <2>. HIDE DEF N
  <2>. QED BY <2>1, NatSetInduction
<1>4. Cardinality(A) \in Nat
  BY FS_Subset, FS_CardinalityType
<1>5. P(Cardinality(A))
  <2>. HIDE DEF P
  <2>. QED BY <1>3, <1>4
<1>. QED BY <1>5

\* SetSum is computed by a summation.
LEMMA SetSumDef ==
    ASSUME NEW S, IsFiniteSet(S), NEW g, \A x \in S : g[x] \in Int
    PROVE  \E f \in [SUBSET S -> Int] : IsSummation(f, g, S) /\ SetSum(g, S) = f[S]
<1>. DEFINE iter == CHOOSE f : IsSummation(f, g, S)
<1>1. PICK f \in [SUBSET S -> Int] : IsSummation(f, g, S)
  BY SummationExists
<1>2. IsSummation(iter, g, S)
  BY <1>1, Zenon
<1>3. SetSum(g, S) = iter[S]
  BY Zenon DEF SetSum, MapThenSumSet, MapThenFoldSet, IsSummation, Chosen
<1>. HIDE DEF iter
<1>4. S \in SUBSET (S \cap S)
  OBVIOUS
<1>5. iter[S] = f[S]
  BY <1>1, <1>2, <1>4, SummationUnique
<1>. QED BY <1>1, <1>3, <1>5

\* The empty sum is 0.
LEMMA SetSumEmpty == ASSUME NEW g PROVE SetSum(g, {}) = 0
<1>1. IsFiniteSet({})
  BY FS_EmptySet
<1>2. PICK f \in [SUBSET {} -> Int] : IsSummation(f, g, {}) /\ SetSum(g, {}) = f[{}]
  BY <1>1, SetSumDef
<1>. QED BY <1>2 DEF IsSummation

\* Functions that agree on a set have the same sum over it.
LEMMA SetSumAgree ==
    ASSUME NEW S, IsFiniteSet(S), NEW g, NEW h,
           \A x \in S : g[x] \in Int /\ g[x] = h[x]
    PROVE  SetSum(g, S) = SetSum(h, S)
<1>1. PICK f \in [SUBSET S -> Int] : IsSummation(f, g, S) /\ SetSum(g, S) = f[S]
  BY SetSumDef
<1>2. PICK e \in [SUBSET S -> Int] : IsSummation(e, h, S) /\ SetSum(h, S) = e[S]
  <2>1. \A x \in S : h[x] \in Int
    OBVIOUS
  <2>. QED BY <2>1, SetSumDef
<1>3. S \in SUBSET (S \cap S)
  OBVIOUS
<1>. QED BY <1>1, <1>2, <1>3, SummationUnique

\* A sum is one summand and the sum of the others.
LEMMA SetSumRemove ==
    ASSUME NEW S, IsFiniteSet(S), NEW g, \A x \in S : g[x] \in Int, NEW x \in S
    PROVE  /\ SetSum(g, S) \in Int /\ SetSum(g, S \ {x}) \in Int
           /\ SetSum(g, S) = g[x] + SetSum(g, S \ {x})
<1>1. PICK f \in [SUBSET S -> Int] : IsSummation(f, g, S) /\ SetSum(g, S) = f[S]
  BY SetSumDef
<1>a. \A s \in SUBSET S : f[s] \in Int
  OBVIOUS
<1>. DEFINE T == S \ {x}
<1>2. IsFiniteSet(T) /\ T \in SUBSET (T \cap S) /\ S \in SUBSET S
  BY FS_Subset
<1>3. PICK e \in [SUBSET T -> Int] : IsSummation(e, g, T) /\ SetSum(g, T) = e[T]
  BY <1>2, SetSumDef
<1>4. e[T] = f[T]
  BY <1>1, <1>2, <1>3, SummationUnique
<1>5. f[S] = g[x] + f[T]
  BY <1>1, <1>a, SummationAny, S \in SUBSET S
<1>6. T \in SUBSET S
  OBVIOUS
<1>. QED BY <1>1, <1>3, <1>4, <1>5, <1>6

\* One more element adds its summand.
LEMMA SetSumInsert ==
    ASSUME NEW S, IsFiniteSet(S), NEW x, x \notin S, NEW g, \A y \in S \cup {x} : g[y] \in Int
    PROVE  /\ SetSum(g, S) \in Int
           /\ SetSum(g, S \cup {x}) = g[x] + SetSum(g, S)
<1>. DEFINE T == S \cup {x}
<1>1. IsFiniteSet(T) /\ x \in T /\ T \ {x} = S
  BY FS_AddElement
<1>. QED BY <1>1, SetSumRemove

\* Sums of natural numbers are natural numbers, and no smaller than an element.
LEMMA SetSumNat ==
    ASSUME NEW S, IsFiniteSet(S), NEW g, \A x \in S : g[x] \in Nat
    PROVE  SetSum(g, S) \in Nat /\ \A x \in S : g[x] <= SetSum(g, S)
<1>. \A x \in S : g[x] \in Int
  OBVIOUS
<1>0. PICK f \in [SUBSET S -> Int] : IsSummation(f, g, S) /\ SetSum(g, S) = f[S]
  BY SetSumDef
<1>a. \A s \in SUBSET S : f[s] \in Int
  OBVIOUS
<1>. DEFINE P(n) == \A s \in SUBSET S : Cardinality(s) = n => f[s] \in Nat
            N == {n \in Nat : P(n)}
<1>1. P(0)
  <2>1. \A s \in SUBSET S : Cardinality(s) = 0 => s = {}
    BY SmallerSubset
  <2>2. f[{}] = 0
    BY <1>0 DEF IsSummation
  <2>3. 0 \in Nat
    OBVIOUS
  <2>. QED BY <2>1, <2>2, <2>3, Zenon
<1>2. ASSUME NEW n \in Nat, P(n) PROVE P(n + 1)
  <2>1. SUFFICES ASSUME NEW s \in SUBSET S, Cardinality(s) = n + 1 PROVE f[s] \in Nat
    OBVIOUS
  <2>2. PICK x \in s : TRUE
    <3>1. Cardinality(s) # 0
      BY <2>1
    <3>. QED BY <3>1, FS_EmptySet, Zenon
  <2>3. s \ {x} \in SUBSET S /\ Cardinality(s \ {x}) = n
    BY <2>1, <2>2, SmallerSubset
  <2>4. f[s] = g[x] + f[s \ {x}]
    BY <1>0, <1>a, SummationAny
  <2>. QED BY <1>2, <2>2, <2>3, <2>4
<1>3. Nat \subseteq N
  <2>. HIDE DEF P
  <2>1. 0 \in N /\ \A n \in Nat : n \in N => n + 1 \in N
    BY <1>1, <1>2
  <2>. HIDE DEF N
  <2>. QED BY <2>1, NatSetInduction
<1>4. ASSUME NEW A \in SUBSET S PROVE f[A] \in Nat
  <2>1. Cardinality(A) \in Nat
    BY FS_Subset, FS_CardinalityType
  <2>2. P(Cardinality(A))
    <3>. HIDE DEF P
    <3>. QED BY <1>3, <2>1
  <2>. QED BY <2>2
<1>5. \A x \in S : f[S] = g[x] + f[S \ {x}]
  BY <1>0, <1>a, SummationAny, S \in SUBSET S
<1>6. f[S] \in Nat /\ \A x \in S : g[x] \in Nat /\ f[S \ {x}] \in Nat
  BY <1>4
<1>7. ASSUME NEW x \in S PROVE g[x] <= f[S]
  <2>1. f[S] = g[x] + f[S \ {x}]
    BY <1>5
  <2>2. g[x] \in Nat /\ f[S \ {x}] \in Nat
    BY <1>6
  <2>. QED BY <2>1, <2>2
<1>. QED BY <1>0, <1>6, <1>7

\* A sum of integers is an integer, of zeros 0.
LEMMA SetSumInt ==
    ASSUME NEW S, IsFiniteSet(S), NEW g, \A x \in S : g[x] \in Int
    PROVE  SetSum(g, S) \in Int
<1>1. PICK f \in [SUBSET S -> Int] : IsSummation(f, g, S) /\ SetSum(g, S) = f[S]
  BY SetSumDef
<1>. QED BY <1>1

\* Zeros add up to zero.
LEMMA ZeroSum ==
    ASSUME NEW S, IsFiniteSet(S) PROVE SetSum([x \in S |-> 0], S) = 0
<1>. DEFINE g == [x \in S |-> 0]
            f == [s \in SUBSET S |-> 0]
<1>1. \A x \in S : g[x] \in Int
  OBVIOUS
<1>2. IsSummation(f, g, S)
  <2>1. ASSUME NEW s \in SUBSET S
        PROVE  f[s] = IF s = {} THEN 0 ELSE g[Chosen(s)] + f[s \ {Chosen(s)}]
    <3>1. s # {} => Chosen(s) \in s
      BY ChosenIn
    <3>. QED BY <3>1
  <2>2. f = [s \in SUBSET S |-> f[s]]
    OBVIOUS
  <2>. HIDE DEF f, g
  <2>. QED BY <2>1, <2>2, Zenon DEF IsSummation
<1>3. PICK e \in [SUBSET S -> Int] : IsSummation(e, g, S) /\ SetSum(g, S) = e[S]
  <2>. HIDE DEF g
  <2>. QED BY <1>1, SetSumDef
<1>4. e[S] = f[S]
  <2>1. S \in SUBSET (S \cap S)
    OBVIOUS
  <2>. HIDE DEF f, g
  <2>. QED BY <1>2, <1>3, <2>1, SummationUnique
<1>. QED BY <1>3, <1>4

\* The sum of the differences of t over an interval telescopes.
LEMMA IntervalSum ==
    ASSUME NEW n \in Nat, NEW a \in 1 .. n + 1, NEW t, NEW g,
           \A i \in 0 .. n : t[i] \in Int,
           \A i \in 1 .. n : g[i] \in Int /\ t[i] = t[i - 1] + g[i]
    PROVE  SetSum(g, a .. n) = t[n] - t[a - 1]
<1>. DEFINE P(m) == a + m <= n + 1 => SetSum(g, a .. a + m - 1) = t[a + m - 1] - t[a - 1]
            N == {m \in Nat : P(m)}
<1>1. P(0)
  <2>1. a .. a + 0 - 1 = {}
    OBVIOUS
  <2>2. SetSum(g, {}) = 0
    BY SetSumEmpty
  <2>3. t[a - 1] \in Int /\ a + 0 - 1 = a - 1
    OBVIOUS
  <2>. QED BY <2>1, <2>2, <2>3
<1>2. ASSUME NEW m \in Nat, P(m) PROVE P(m + 1)
  <2>1. SUFFICES ASSUME a + m <= n
                 PROVE  SetSum(g, a .. a + m) = t[a + m] - t[a - 1]
    BY a + (m + 1) - 1 = a + m
  <2>. DEFINE S == a .. a + m - 1
  <2>2. IsFiniteSet(S) /\ a + m \notin S /\ a .. a + m = S \cup {a + m}
    <3>1. a \in Int /\ a + m - 1 \in Int
      OBVIOUS
    <3>2. IsFiniteSet(S)
      BY <3>1, FS_Interval
    <3>3. a + m \notin S /\ a .. a + m = S \cup {a + m}
      OBVIOUS
    <3>. QED BY <3>2, <3>3
  <2>3. \A y \in S \cup {a + m} : g[y] \in Int
    BY <2>1
  <2>4. SetSum(g, S \cup {a + m}) = g[a + m] + SetSum(g, S)
    <3>. HIDE DEF S
    <3>. QED BY <2>2, <2>3, SetSumInsert
  <2>5. SetSum(g, S) = t[a + m - 1] - t[a - 1]
    BY <1>2, <2>1
  <2>6. /\ t[a + m] = t[a + m - 1] + g[a + m]
        /\ t[a + m - 1] \in Int /\ t[a - 1] \in Int /\ g[a + m] \in Int
    BY <2>1
  <2>7. g[a + m] + (t[a + m - 1] - t[a - 1]) = t[a + m] - t[a - 1]
    BY <2>6
  <2>. HIDE DEF S
  <2>. QED BY <2>2, <2>4, <2>5, <2>7, Zenon
<1>3. Nat \subseteq N
  <2>. HIDE DEF P
  <2>1. 0 \in N /\ \A m \in Nat : m \in N => m + 1 \in N
    BY <1>1, <1>2
  <2>. HIDE DEF N
  <2>. QED BY <2>1, NatSetInduction
<1>4. n + 1 - a \in Nat
  OBVIOUS
<1>5. P(n + 1 - a)
  <2>. HIDE DEF P
  <2>. QED BY <1>3, <1>4
<1>6. a + (n + 1 - a) <= n + 1 /\ a + (n + 1 - a) - 1 = n
  OBVIOUS
<1>. QED BY <1>5, <1>6
-----------------------------------------------------------------------------
\* Definition by recursion over an interval.

\* f iterates the step g from b, n times.
IsIteration(f, b, g, n) ==
    f = [i \in 0 .. n |-> IF i = 0 THEN b ELSE g[<<f[i - 1], i>>]]

\* g is a step on X.
StepOn(g, X, n) == \A x \in X, i \in 1 .. n : g[<<x, i>>] \in X

\* A step on X can be iterated any number of times.
LEMMA IterationExists ==
    ASSUME NEW X, NEW b \in X, NEW n \in Nat, NEW g, StepOn(g, X, n)
    PROVE  \E f \in [0 .. n -> X] : IsIteration(f, b, g, n)
<1>. DEFINE P(m) == m <= n => \E f \in [0 .. m -> X] : IsIteration(f, b, g, m)
            N == {m \in Nat : P(m)}
<1>1. P(0)
  <2>. DEFINE f == [i \in 0 .. 0 |-> b]
  <2>1. f \in [0 .. 0 -> X] /\ IsIteration(f, b, g, 0)
    BY DEF IsIteration
  <2>. HIDE DEF f
  <2>. QED BY <2>1
<1>2. ASSUME NEW m \in Nat, P(m) PROVE P(m + 1)
  <2>1. SUFFICES ASSUME m + 1 <= n
                 PROVE  \E f \in [0 .. m + 1 -> X] : IsIteration(f, b, g, m + 1)
    OBVIOUS
  <2>2. PICK f \in [0 .. m -> X] : IsIteration(f, b, g, m)
    BY <1>2, <2>1
  <2>3. \A i \in 0 .. m : f[i] = IF i = 0 THEN b ELSE g[<<f[i - 1], i>>]
    BY <2>2 DEF IsIteration
  <2>. DEFINE new == g[<<f[m], m + 1>>]
              h == [i \in 0 .. m + 1 |-> IF i <= m THEN f[i] ELSE new]
  <2>4. new \in X
    BY <2>1 DEF StepOn
  <2>5. h \in [0 .. m + 1 -> X]
    <3>. HIDE DEF new
    <3>. QED BY <2>4
  <2>6. ASSUME NEW i \in 0 .. m + 1 PROVE h[i] = IF i = 0 THEN b ELSE g[<<h[i - 1], i>>]
    <3>1. CASE i <= m
      <4>1. h[i] = f[i] /\ i \in 0 .. m
        BY <3>1
      <4>2. i # 0 => h[i - 1] = f[i - 1]
        BY <3>1
      <4>. HIDE DEF h
      <4>. QED BY <4>1, <4>2, <2>3
    <3>2. CASE i = m + 1
      <4>1. h[i] = g[<<f[m], i>>] /\ h[i - 1] = f[m] /\ i # 0
        BY <3>2
      <4>. HIDE DEF h
      <4>. QED BY <4>1
    <3>. QED BY <3>1, <3>2
  <2>7. h = [i \in 0 .. m + 1 |-> h[i]]
    OBVIOUS
  <2>. HIDE DEF h
  <2>8. IsIteration(h, b, g, m + 1)
    BY <2>6, <2>7, Zenon DEF IsIteration
  <2>. QED BY <2>5, <2>8
<1>3. Nat \subseteq N
  <2>. HIDE DEF P
  <2>1. 0 \in N /\ \A m \in Nat : m \in N => m + 1 \in N
    BY <1>1, <1>2
  <2>. HIDE DEF N
  <2>. QED BY <2>1, NatSetInduction
<1>4. P(n)
  <2>. HIDE DEF P
  <2>. QED BY <1>3
<1>. QED BY <1>4

\* Two functions on an interval that begin alike and step alike agree.
StepAlike(f, e, n) == f[0] = e[0] /\ \A i \in 1 .. n : f[i - 1] = e[i - 1] => f[i] = e[i]

\* By induction on the position.
LEMMA SameSteps ==
    ASSUME NEW n \in Nat, NEW f, NEW e, StepAlike(f, e, n)
    PROVE  \A i \in 0 .. n : f[i] = e[i]
<1>0. f[0] = e[0] /\ \A i \in 1 .. n : f[i - 1] = e[i - 1] => f[i] = e[i]
  BY DEF StepAlike
<1>. DEFINE N == {m \in Nat : m <= n => f[m] = e[m]}
<1>1. 0 \in N
  BY <1>0
<1>2. ASSUME NEW m \in Nat, m \in N PROVE m + 1 \in N
  <2>1. SUFFICES ASSUME m + 1 <= n PROVE f[m + 1] = e[m + 1]
    OBVIOUS
  <2>2. f[m] = e[m] /\ m + 1 \in 1 .. n /\ (m + 1) - 1 = m
    BY <1>2, <2>1
  <2>. QED BY <1>0, <2>2
<1>3. Nat \subseteq N
  <2>. HIDE DEF N
  <2>. QED BY <1>1, <1>2, NatSetInduction
<1>. QED BY <1>3
-----------------------------------------------------------------------------
\* Sums of sequences.

\* f holds the sums of the prefixes of s.
PrefixSums(f, s) ==
    /\ \A i \in 0 .. Len(s) : f[i] \in Int
    /\ f[0] = 0 /\ \A i \in 1 .. Len(s) : f[i] = f[i - 1] + s[i]

\* Every sequence of integers has prefix sums, and Total is the last one.
LEMMA TotalDef ==
    ASSUME NEW s \in Seq(Int)
    PROVE  \E f : PrefixSums(f, s) /\ Total(s) = f[Len(s)]
<1>. DEFINE n == Len(s)
            g == [p \in Int \X (1 .. n) |-> p[1] + s[p[2]]]
            Sums(f) == f = [i \in 0 .. n |-> IF i = 0 THEN 0 ELSE f[i - 1] + s[i]]
            sum == CHOOSE f : Sums(f)
<1>1. n \in Nat /\ \A i \in 1 .. n : s[i] \in Int
  OBVIOUS
<1>2. \A x \in Int, i \in 1 .. n : g[<<x, i>>] = x + s[i] /\ g[<<x, i>>] \in Int
  BY <1>1
<1>. HIDE DEF g
<1>3. PICK f \in [0 .. n -> Int] : IsIteration(f, 0, g, n)
  <2>1. StepOn(g, Int, n)
    BY <1>2 DEF StepOn
  <2>2. 0 \in Int /\ n \in Nat
    BY <1>1
  <2>. HIDE DEF n
  <2>. QED BY <2>1, <2>2, IterationExists, Zenon
<1>4. \A i \in 0 .. n : f[i] = IF i = 0 THEN 0 ELSE f[i - 1] + s[i]
  <2>1. SUFFICES ASSUME NEW i \in 0 .. n PROVE f[i] = IF i = 0 THEN 0 ELSE f[i - 1] + s[i]
    OBVIOUS
  <2>2. f[i] = IF i = 0 THEN 0 ELSE g[<<f[i - 1], i>>]
    BY <1>3 DEF IsIteration
  <2>3. i # 0 => f[i - 1] \in Int /\ i \in 1 .. n
    BY <1>1
  <2>. QED BY <1>2, <2>2, <2>3
<1>5. Sums(f)
  <2>1. f = [i \in 0 .. n |-> f[i]]
    OBVIOUS
  <2>. QED BY <2>1, <1>4, Zenon
<1>6. Sums(sum)
  <2>. HIDE DEF Sums
  <2>. QED BY <1>5, Zenon
<1>7. Total(s) = sum[n]
  BY Zenon DEF Total
<1>. HIDE DEF sum
<1>8. StepAlike(sum, f, n)
  <2>1. sum[0] = 0
    BY <1>6
  <2>2. \A i \in 1 .. n : sum[i] = sum[i - 1] + s[i]
    BY <1>6
  <2>. QED BY <2>1, <2>2, <1>1, <1>4 DEF StepAlike
<1>9. \A i \in 0 .. n : sum[i] = f[i]
  <2>. HIDE DEF n
  <2>. QED BY <1>1, <1>8, SameSteps
<1>10. PrefixSums(f, s)
  BY <1>4 DEF PrefixSums
<1>. QED BY <1>7, <1>9, <1>10

\* Whatever adds up along a sequence is its total.
LEMMA TotalIs ==
    ASSUME NEW s \in Seq(Int), NEW f, f[0] = 0, \A i \in 1 .. Len(s) : f[i] = f[i - 1] + s[i]
    PROVE  Total(s) = f[Len(s)]
<1>1. PICK e : PrefixSums(e, s) /\ Total(s) = e[Len(s)]
  BY TotalDef
<1>2. Len(s) \in Nat
  OBVIOUS
<1>3. StepAlike(f, e, Len(s))
  BY <1>1 DEF PrefixSums, StepAlike
<1>4. \A i \in 0 .. Len(s) : f[i] = e[i]
  BY <1>2, <1>3, SameSteps
<1>. QED BY <1>1, <1>2, <1>4

\* The total of a sequence of integers is an integer, of none is 0.
LEMMA TotalInt == ASSUME NEW s \in Seq(Int) PROVE Total(s) \in Int
BY TotalDef DEF PrefixSums

\* An empty sequence adds up to zero.
LEMMA TotalEmpty == ASSUME NEW s \in Seq(Int), Len(s) = 0 PROVE Total(s) = 0
BY TotalDef DEF PrefixSums

\* s is a followed by b.
Parts(s, a, b) ==
    /\ Len(s) = Len(a) + Len(b)
    /\ \A i \in 1 .. Len(a) : s[i] = a[i]
    /\ \A i \in 1 .. Len(b) : s[Len(a) + i] = b[i]

\* Totals of the two parts of a sequence.
LEMMA TotalSplit ==
    ASSUME NEW s \in Seq(Int), NEW a \in Seq(Int), NEW b \in Seq(Int), Parts(s, a, b)
    PROVE  Total(s) = Total(a) + Total(b)
<1>0. /\ Len(s) = Len(a) + Len(b)
      /\ \A i \in 1 .. Len(a) : s[i] = a[i]
      /\ \A i \in 1 .. Len(b) : s[Len(a) + i] = b[i]
  BY DEF Parts
<1>1. PICK f : PrefixSums(f, s) /\ Total(s) = f[Len(s)]
  BY TotalDef
<1>. DEFINE k == Len(a)
            m == Len(b)
            h == [i \in 0 .. m |-> f[k + i] - f[k]]
<1>2. k \in Nat /\ m \in Nat
  OBVIOUS
<1>3. Total(a) = f[k]
  <2>1. f[0] = 0 /\ \A i \in 1 .. Len(a) : f[i] = f[i - 1] + a[i]
    BY <1>0, <1>1, <1>2 DEF PrefixSums
  <2>. QED BY <2>1, TotalIs
<1>4. h[0] = 0 /\ h[m] = f[k + m] - f[k]
  <2>1. f[k] \in Int /\ k + 0 = k
    BY <1>0, <1>1, <1>2 DEF PrefixSums
  <2>. QED BY <1>2, <2>1
<1>5. ASSUME NEW i \in 1 .. m PROVE h[i] = h[i - 1] + b[i]
  <2>1. h[i] = f[k + i] - f[k] /\ h[i - 1] = f[k + (i - 1)] - f[k]
    OBVIOUS
  <2>2. f[k + i] = f[k + (i - 1)] + s[k + i] /\ s[k + i] = b[i]
    <3>1. k + i \in 1 .. Len(s) /\ (k + i) - 1 = k + (i - 1)
      BY <1>0, <1>2
    <3>. QED BY <3>1, <1>0, <1>1 DEF PrefixSums
  <2>3. f[k + (i - 1)] \in Int /\ f[k] \in Int /\ b[i] \in Int
    <3>1. k + (i - 1) \in 0 .. Len(s) /\ k \in 0 .. Len(s)
      BY <1>0, <1>2
    <3>. QED BY <3>1, <1>0, <1>1, SMTT(30) DEF PrefixSums
  <2>. QED BY <2>1, <2>2, <2>3, SMTT(30)
<1>. HIDE DEF h
<1>6. Total(b) = h[m]
  BY <1>4, <1>5, TotalIs
<1>7. f[k] \in Int /\ f[k + m] \in Int
  <2>1. k \in 0 .. Len(s) /\ k + m \in 0 .. Len(s)
    BY <1>0, <1>2
  <2>. QED BY <2>1, <1>1 DEF PrefixSums
<1>. QED BY <1>0, <1>1, <1>3, <1>4, <1>6, <1>7

\* The total of sums is the sum of the totals.
LEMMA TotalSum ==
    ASSUME NEW s \in Seq(Int), NEW a \in Seq(Int), NEW b \in Seq(Int),
           Len(a) = Len(s), Len(b) = Len(s), \A i \in 1 .. Len(s) : s[i] = a[i] + b[i]
    PROVE  Total(s) = Total(a) + Total(b)
<1>1. PICK f : PrefixSums(f, a) /\ Total(a) = f[Len(a)]
  BY TotalDef
<1>2. PICK e : PrefixSums(e, b) /\ Total(b) = e[Len(b)]
  BY TotalDef
<1>. DEFINE h == [i \in 0 .. Len(s) |-> f[i] + e[i]]
<1>3. h[0] = 0 /\ h[Len(s)] = f[Len(a)] + e[Len(b)]
  BY <1>1, <1>2 DEF PrefixSums
<1>4. ASSUME NEW i \in 1 .. Len(s) PROVE h[i] = h[i - 1] + s[i]
  <2>1. f[i] = f[i - 1] + a[i] /\ e[i] = e[i - 1] + b[i]
    BY <1>1, <1>2 DEF PrefixSums
  <2>2. f[i - 1] \in Int /\ e[i - 1] \in Int /\ a[i] \in Int /\ b[i] \in Int
    BY <1>1, <1>2 DEF PrefixSums
  <2>3. h[i] = f[i] + e[i] /\ h[i - 1] = f[i - 1] + e[i - 1] /\ s[i] = a[i] + b[i]
    OBVIOUS
  <2>. HIDE DEF h
  <2>. QED BY <2>1, <2>2, <2>3, SMTT(30)
<1>. HIDE DEF h
<1>. QED BY <1>1, <1>2, <1>3, <1>4, TotalIs

\* No total is above that of a sequence that is nowhere smaller.
LEMMA TotalBound ==
    ASSUME NEW s \in Seq(Int), NEW a \in Seq(Int), Len(a) = Len(s),
           \A i \in 1 .. Len(s) : a[i] <= s[i]
    PROVE  Total(a) <= Total(s)
<1>1. PICK f : PrefixSums(f, a) /\ Total(a) = f[Len(a)]
  BY TotalDef
<1>2. PICK e : PrefixSums(e, s) /\ Total(s) = e[Len(s)]
  BY TotalDef
<1>. DEFINE N == {m \in Nat : m <= Len(s) => f[m] <= e[m]}
<1>3. 0 \in N
  BY <1>1, <1>2 DEF PrefixSums
<1>4. ASSUME NEW m \in Nat, m \in N PROVE m + 1 \in N
  <2>1. SUFFICES ASSUME m + 1 <= Len(s) PROVE f[m + 1] <= e[m + 1]
    OBVIOUS
  <2>2. m + 1 \in 1 .. Len(s) /\ (m + 1) - 1 = m /\ m \in 0 .. Len(s)
    BY <2>1
  <2>3. f[m + 1] = f[m] + a[m + 1] /\ e[m + 1] = e[m] + s[m + 1]
    BY <1>1, <1>2, <2>2 DEF PrefixSums
  <2>4. f[m] \in Int /\ e[m] \in Int /\ a[m + 1] \in Int /\ s[m + 1] \in Int
    BY <1>1, <1>2, <2>2 DEF PrefixSums
  <2>5. f[m] <= e[m] /\ a[m + 1] <= s[m + 1]
    BY <1>4, <2>2
  <2>. QED BY <2>3, <2>4, <2>5
<1>5. Nat \subseteq N
  <2>. HIDE DEF N
  <2>. QED BY <1>3, <1>4, NatSetInduction
<1>6. Len(s) \in Nat
  OBVIOUS
<1>. QED BY <1>1, <1>2, <1>5, <1>6
-----------------------------------------------------------------------------
\* Ascending lists a set of positions in ascending order, each once.
LEMMA AscendingFacts ==
    ASSUME NEW n \in Nat, NEW S \in SUBSET (1 .. n)
    PROVE  /\ Ascending(S, n) \in Seq(S)
           /\ \A j, k \in 1 .. Len(Ascending(S, n)) :
                j < k => Ascending(S, n)[j] < Ascending(S, n)[k]
           /\ \A i \in S : \E k \in 1 .. Len(Ascending(S, n)) : Ascending(S, n)[k] = i
<1>. DEFINE Step(f, i) == IF i = 0 THEN <<>>
                          ELSE IF i \in S THEN Append(f[i - 1], i) ELSE f[i - 1]
            Lists(f, m) == f = [i \in 0 .. m |-> Step(f, i)]
            Good(q, m) == /\ q \in Seq(S)
                          /\ \A k \in 1 .. Len(q) : q[k] <= m
                          /\ \A j, k \in 1 .. Len(q) : j < k => q[j] < q[k]
                          /\ \A i \in S : i <= m => \E k \in 1 .. Len(q) : q[k] = i
            P(m) == m <= n => \E f : Lists(f, m) /\ Good(f[m], m)
            N == {m \in Nat : P(m)}
<1>1. P(0)
  <2>. DEFINE f == [i \in 0 .. 0 |-> <<>>]
  <2>1. Lists(f, 0) /\ f[0] = <<>>
    OBVIOUS
  <2>2. Good(<<>>, 0)
    OBVIOUS
  <2>. HIDE DEF f, Lists, Good
  <2>. QED BY <2>1, <2>2
<1>2. ASSUME NEW m \in Nat, P(m) PROVE P(m + 1)
  <2>1. SUFFICES ASSUME m + 1 <= n PROVE \E f : Lists(f, m + 1) /\ Good(f[m + 1], m + 1)
    OBVIOUS
  <2>2. PICK f : Lists(f, m) /\ Good(f[m], m)
    <3>. HIDE DEF Lists, Good
    <3>. QED BY <1>2, <2>1
  <2>. DEFINE new == IF m + 1 \in S THEN Append(f[m], m + 1) ELSE f[m]
              g == [i \in 0 .. m + 1 |-> IF i <= m THEN f[i] ELSE new]
  <2>3. \A i \in 0 .. m : f[i] = Step(f, i)
    BY <2>2
  <2>4. Lists(g, m + 1)
    <3>1. ASSUME NEW i \in 0 .. m + 1 PROVE g[i] = Step(g, i)
      <4>1. CASE i <= m
        BY <4>1, <2>3
      <4>2. CASE i = m + 1
        BY <4>2
      <4>. QED BY <4>1, <4>2
    <3>2. g = [i \in 0 .. m + 1 |-> g[i]]
      OBVIOUS
    <3>. HIDE DEF g, Step
    <3>3. [i \in 0 .. m + 1 |-> g[i]] = [i \in 0 .. m + 1 |-> Step(g, i)]
      BY <3>1
    <3>. QED BY <3>2, <3>3
  <2>5. Good(new, m + 1)
    <3>1. CASE m + 1 \in S
      <4>. DEFINE q == f[m]
      <4>1. Good(q, m) /\ new = Append(q, m + 1)
        BY <2>2, <3>1
      <4>. HIDE DEF q, new
      <4>2. /\ new \in Seq(S) /\ Len(new) = Len(q) + 1 /\ new[Len(q) + 1] = m + 1
            /\ \A k \in 1 .. Len(q) : new[k] = q[k]
            /\ Len(q) \in Nat
        BY <4>1, <3>1
      <4>3. \A k \in 1 .. Len(q) : q[k] \in Nat /\ q[k] <= m
        <5>1. \A k \in 1 .. Len(q) : q[k] \in S
          BY <4>1, ElementOfSeq
        <5>2. \A k \in 1 .. Len(q) : q[k] <= m
          BY <4>1
        <5>3. \A e \in S : e \in Nat
          OBVIOUS
        <5>. QED BY <5>1, <5>2, <5>3, Zenon
      <4>4. \A k \in 1 .. Len(new) : new[k] <= m + 1
        BY <4>1, <4>2, <4>3
      <4>5. ASSUME NEW j \in 1 .. Len(new), NEW k \in 1 .. Len(new), j < k
            PROVE  new[j] < new[k]
        <5>1. j \in 1 .. Len(q) /\ new[j] = q[j]
          BY <4>2, <4>5
        <5>2. CASE k \in 1 .. Len(q)
          BY <4>1, <4>2, <4>5, <5>1, <5>2
        <5>3. CASE k = Len(q) + 1
          BY <4>2, <4>3, <5>1, <5>3
        <5>. QED BY <4>2, <5>2, <5>3
      <4>6. \A i \in S : i <= m + 1 => \E k \in 1 .. Len(new) : new[k] = i
        BY <4>1, <4>2
      <4>. QED BY <4>2, <4>4, <4>5, <4>6
    <3>2. CASE m + 1 \notin S
      <4>1. Good(f[m], m) /\ new = f[m]
        BY <2>2, <3>2
      <4>2. \A i \in S : i <= m + 1 => i <= m
        BY <3>2
      <4>. DEFINE q == f[m]
      <4>. HIDE DEF q
      <4>3. Good(q, m) /\ new = q
        BY <4>1 DEF q
      <4>4. \A k \in 1 .. Len(q) : q[k] <= m + 1
        <5>1. \A k \in 1 .. Len(q) : q[k] \in S
          BY <4>3, ElementOfSeq
        <5>2. \A k \in 1 .. Len(q) : q[k] <= m
          BY <4>3
        <5>3. \A e \in S : e <= m => e <= m + 1
          OBVIOUS
        <5>. QED BY <5>1, <5>2, <5>3, Zenon
      <4>. HIDE DEF new
      <4>. QED BY <4>2, <4>3, <4>4
    <3>. QED BY <3>1, <3>2
  <2>6. g[m + 1] = new
    OBVIOUS
  <2>. HIDE DEF g, new, Lists, Good
  <2>. QED BY <2>4, <2>5, <2>6
<1>3. Nat \subseteq N
  <2>. HIDE DEF P
  <2>1. 0 \in N /\ \A m \in Nat : m \in N => m + 1 \in N
    BY <1>1, <1>2
  <2>. HIDE DEF N
  <2>. QED BY <2>1, NatSetInduction
<1>4. PICK f : Lists(f, n) /\ Good(f[n], n)
  <2>1. P(n)
    <3>. HIDE DEF P
    <3>. QED BY <1>3
  <2>. HIDE DEF Lists, Good
  <2>. QED BY <2>1
<1>. DEFINE upto == CHOOSE e : Lists(e, n)
<1>5. Lists(upto, n)
  <2>. HIDE DEF Lists
  <2>. QED BY <1>4, Zenon
<1>6. Ascending(S, n) = upto[n]
  BY Zenon DEF Ascending
<1>. HIDE DEF upto
<1>7. upto[n] = f[n]
  <2>. DEFINE Q(m) == m <= n => upto[m] = f[m]
              M == {m \in Nat : Q(m)}
  <2>1. Q(0)
    BY <1>4, <1>5
  <2>2. ASSUME NEW m \in Nat, Q(m) PROVE Q(m + 1)
    <3>1. SUFFICES ASSUME m + 1 \in 0 .. n PROVE upto[m + 1] = f[m + 1]
      OBVIOUS
    <3>2. upto[m + 1] = Step(upto, m + 1) /\ f[m + 1] = Step(f, m + 1)
      BY <1>4, <1>5, <3>1
    <3>3. upto[m] = f[m] /\ (m + 1) - 1 = m
      BY <2>2, <3>1
    <3>. QED BY <3>2, <3>3
  <2>3. Nat \subseteq M
    <3>. HIDE DEF Q
    <3>1. 0 \in M /\ \A m \in Nat : m \in M => m + 1 \in M
      BY <2>1, <2>2
    <3>. HIDE DEF M
    <3>. QED BY <3>1, NatSetInduction
  <2>4. Q(n)
    <3>. HIDE DEF Q
    <3>. QED BY <2>3
  <2>. QED BY <2>4
<1>8. Good(Ascending(S, n), n)
  BY <1>4, <1>6, <1>7
<1>. QED BY <1>8
=============================================================================
