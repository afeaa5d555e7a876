----------------------------- MODULE SumTheorems -----------------------------
(***************************************************************************)
(* Facts about SumFunctionOnSet of the community modules, for integer      *)
(* functions on finite sets.  The induction is by minimal counterexample:  *)
(* a non-empty set of finite sets has a minimal element.                   *)
(***************************************************************************)
EXTENDS Integers, Functions, FiniteSetTheorems, WellFoundedInduction, TLAPS

\* A non-empty set of finite sets has a minimal element.
LEMMA LeastSet ==
    ASSUME NEW T, T # {}, \A U \in T : IsFiniteSet(U)
    PROVE  \E U \in T : \A V \in T : V \subseteq U => V = U
  <1> DEFINE S == UNION T
  <1>1. T \subseteq FiniteSubsetsOf(S)
    BY DEF FiniteSubsetsOf
  <1> HIDE DEF S
  <1>2. PICK U \in T : \A V \in T : ~ (<<V, U>> \in StrictSubsetOrdering(S))
    BY <1>1, WFMin, FS_StrictSubsetOrderingWellFounded
  <1> QED
    BY <1>1, <1>2 DEF StrictSubsetOrdering, FiniteSubsetsOf

\* A non-empty set of natural numbers has a least element.
LEMMA LeastNatural ==
    ASSUME NEW T, T \subseteq Nat, T # {}
    PROVE  \E n \in T : \A m \in T : n <= m
  <1> DEFINE W == {0 .. n : n \in T}
  <1>1. PICK U \in W : \A V \in W : V \subseteq U => V = U
    <2>1. \A n \in T : IsFiniteSet(0 .. n)
      BY FS_Interval
    <2>2. W # {} /\ \A U \in W : IsFiniteSet(U)
      BY <2>1
    <2> HIDE DEF W
    <2> QED
      BY <2>2, LeastSet
  <1>2. PICK n \in T : U = 0 .. n
    BY <1>1
  <1>3. ASSUME NEW m \in T, m < n
        PROVE  FALSE
    <2>1. 0 .. m \in W /\ 0 .. m \subseteq U
      BY <1>2, <1>3
    <2>2. n \in 0 .. n /\ ~ (n \in 0 .. m)
      BY <1>3
    <2> QED
      BY <1>1, <1>2, <2>1, <2>2
  <1> QED
    BY <1>3, <1>2

\* Counting up to n: a set with 0 and the successor of each member below n.
LEMMA CountUp ==
    ASSUME NEW n \in Nat, NEW G, 0 \in G,
           \A k \in 1 .. n : k - 1 \in G => k \in G
    PROVE  \A k \in 0 .. n : k \in G
  <1> DEFINE T == (0 .. n) \ G
  <1>1. SUFFICES ASSUME T # {}
                 PROVE  FALSE
    OBVIOUS
  <1>2. PICK k \in T : \A m \in T : k <= m
    <2>1. T \subseteq Nat
      OBVIOUS
    <2> HIDE DEF T
    <2> QED
      BY <1>1, <2>1, LeastNatural
  <1>3. k \in 1 .. n /\ k \notin G
    BY <1>2
  <1>4. k - 1 \in 0 .. n /\ k - 1 \notin T
    BY <1>2, <1>3
  <1> QED
    BY <1>3, <1>4

-----------------------------------------------------------------------------
\* The recursion behind SumFunctionOnSet.
First(s) == CHOOSE x \in s : TRUE

SumStep(g, f, s) == IF s = {} THEN 0 ELSE f[First(s)] + g[s \ {First(s)}]

IsSum(g, f, S) == g = [s \in SUBSET S |-> SumStep(g, f, s)]

\* The element that a fold takes first is one of the set.
LEMMA FirstIsIn ==
    ASSUME NEW s, s # {}
    PROVE  First(s) \in s
  BY DEF First

\* The sum of the library is the value of a function chosen by its recursion.
LEMMA SumIsRecursive ==
    ASSUME NEW f, NEW S
    PROVE  SumFunctionOnSet(f, S) = (CHOOSE g : IsSum(g, f, S))[S]
  BY DEF SumFunctionOnSet, FoldFunctionOnSet, MapThenFoldSet, IsSum, SumStep, First

\* The recursion has a solution: by the cardinality up to which it is solved.
LEMMA SumExists ==
    ASSUME NEW f, NEW S, IsFiniteSet(S)
    PROVE  \E g : IsSum(g, f, S)
  <1> DEFINE Solves(g, n) ==
                 /\ g = [s \in SUBSET S |-> g[s]]
                 /\ \A s \in SUBSET S : Cardinality(s) <= n => g[s] = SumStep(g, f, s)
             T == {n \in Nat : ~ \E g : Solves(g, n)}
  <1>1. \A s \in SUBSET S : IsFiniteSet(s) /\ Cardinality(s) \in Nat
    BY FS_Subset, FS_CardinalityType
  <1>2. T = {}
    <2>1. SUFFICES ASSUME T # {}
                   PROVE  FALSE
      OBVIOUS
    <2>2. PICK n \in T : \A m \in T : n <= m
      <3>1. T \subseteq Nat
        OBVIOUS
      <3> HIDE DEF T
      <3> QED
        BY <2>1, <3>1, LeastNatural
    <2>3. n \in Nat /\ ~ \E g : Solves(g, n)
      BY <2>2
    <2>4. CASE n = 0
      <3> DEFINE g == [s \in SUBSET S |-> 0]
      <3>1. \A s \in SUBSET S : Cardinality(s) <= 0 => s = {}
        BY <1>1, FS_EmptySet
      <3>2. Solves(g, 0)
        BY <3>1 DEF SumStep
      <3> QED
        BY <2>3, <2>4, <3>2
    <2>5. CASE n > 0
      <3>1. n - 1 \in Nat /\ n - 1 \notin T
        <4> HIDE DEF T
        <4> QED
          BY <2>2, <2>3, <2>5
      <3>2. PICK g : Solves(g, n - 1)
        BY <3>1
      <3> DEFINE h == [s \in SUBSET S |-> IF Cardinality(s) = n THEN SumStep(g, f, s) ELSE g[s]]
      <3>3. ASSUME NEW s \in SUBSET S, Cardinality(s) <= n
            PROVE  h[s] = SumStep(h, f, s)
        <4>1. h[s] = SumStep(g, f, s)
          <5>1. CASE Cardinality(s) = n
            BY <5>1
          <5>2. CASE Cardinality(s) # n
            <6>1. Cardinality(s) <= n - 1
              BY <1>1, <2>3, <3>3, <5>2
            <6>2. g[s] = SumStep(g, f, s)
              BY <3>2, <6>1
            <6> QED
              BY <5>2, <6>2
          <5> QED
            BY <5>1, <5>2
        <4>2. ASSUME s # {}
              PROVE  h[s \ {First(s)}] = g[s \ {First(s)}]
          <5>1. s \ {First(s)} \in SUBSET S /\ First(s) \in s
            BY <4>2, FirstIsIn
          <5>2. Cardinality(s \ {First(s)}) = Cardinality(s) - 1
            BY <1>1, <5>1, FS_RemoveElement
          <5> QED
            BY <1>1, <2>3, <3>3, <5>1, <5>2
        <4> QED
          BY <4>1, <4>2 DEF SumStep
      <3>4. Solves(h, n)
        BY <3>3
      <3> QED
        BY <2>3, <3>4
    <2> QED
      BY <2>3, <2>4, <2>5
  <1>3. PICK g : Solves(g, Cardinality(S))
    BY <1>1, <1>2
  <1>4. \A s \in SUBSET S : Cardinality(s) <= Cardinality(S)
    BY FS_Subset
  <1>5. g = [s \in SUBSET S |-> SumStep(g, f, s)]
    BY <1>3, <1>4
  <1> QED
    BY <1>5 DEF IsSum

\* The solutions for a set and for a larger one agree.
LEMMA SumIsUnique ==
    ASSUME NEW f, NEW S, NEW R, R \subseteq S, IsFiniteSet(S),
           NEW g, NEW h, IsSum(g, f, S), IsSum(h, f, R)
    PROVE  g[R] = h[R]
  <1> DEFINE T == {s \in SUBSET R : g[s] # h[s]}
  <1>1. T = {}
    <2>1. SUFFICES ASSUME T # {}
                   PROVE  FALSE
      OBVIOUS
    <2>2. PICK s \in T : \A u \in T : u \subseteq s => u = s
      <3>1. \A s \in T : IsFiniteSet(s)
        BY FS_Subset
      <3> HIDE DEF T
      <3> QED
        BY <2>1, <3>1, LeastSet
    <2>3. /\ g[s] = SumStep(g, f, s) /\ h[s] = SumStep(h, f, s)
          /\ g[s] # h[s]
      BY <2>2 DEF IsSum
    <2>4. CASE s = {}
      BY <2>3, <2>4 DEF SumStep
    <2>5. CASE s # {}
      <3>1. First(s) \in s
        BY <2>5, FirstIsIn
      <3>2. s \ {First(s)} \in SUBSET R /\ s \ {First(s)} \notin T
        BY <2>2, <3>1
      <3> QED
        BY <2>3, <2>5, <3>2 DEF SumStep
    <2> QED
      BY <2>4, <2>5
  <1> QED
    BY <1>1

-----------------------------------------------------------------------------
\* The sum over no index is zero.
LEMMA SumEmpty ==
    ASSUME NEW f
    PROVE  SumFunctionOnSet(f, {}) = 0
  <1>1. IsFiniteSet({})
    BY FS_EmptySet
  <1>2. IsSum(CHOOSE g : IsSum(g, f, {}), f, {})
    BY <1>1, SumExists
  <1> QED
    BY <1>2, SumIsRecursive DEF IsSum, SumStep

\* The sum takes out the chosen index.
LEMMA SumFirst ==
    ASSUME NEW f, NEW S, IsFiniteSet(S), S # {}
    PROVE  SumFunctionOnSet(f, S)
               = f[First(S)] + SumFunctionOnSet(f, S \ {First(S)})
  <1> DEFINE R == S \ {First(S)}
             g == CHOOSE g : IsSum(g, f, S)
             h == CHOOSE h : IsSum(h, f, R)
  <1>1. R \subseteq S /\ IsFiniteSet(R)
    BY FS_Subset
  <1>2. IsSum(g, f, S)
    BY SumExists
  <1> HIDE DEF R
  <1>3. IsSum(h, f, R)
    BY <1>1, SumExists
  <1>4. SumFunctionOnSet(f, S) = g[S] /\ SumFunctionOnSet(f, R) = h[R]
    BY SumIsRecursive
  <1> HIDE DEF g, h
  <1>5. g[R] = h[R]
    BY <1>1, <1>2, <1>3, SumIsUnique
  <1>6. g[S] = f[First(S)] + g[R]
    BY <1>2 DEF IsSum, SumStep, R
  <1> QED
    BY <1>4, <1>5, <1>6 DEF R

\* A sum of integers is an integer.
LEMMA SumType ==
    ASSUME NEW f, NEW S, IsFiniteSet(S), \A x \in S : f[x] \in Int
    PROVE  SumFunctionOnSet(f, S) \in Int
  <1> DEFINE T == {s \in SUBSET S : SumFunctionOnSet(f, s) \notin Int}
  <1>1. T = {}
    <2>1. SUFFICES ASSUME T # {}
                   PROVE  FALSE
      OBVIOUS
    <2>2. \A s \in T : IsFiniteSet(s)
      BY FS_Subset
    <2>3. PICK s \in T : \A u \in T : u \subseteq s => u = s
      <3> HIDE DEF T
      <3> QED
        BY <2>1, <2>2, LeastSet
    <2>4. s # {}
      <3>1. SumFunctionOnSet(f, {}) \in Int
        BY SumEmpty
      <3> QED
        BY <2>3, <3>1
    <2>5. First(s) \in s
      BY <2>4, FirstIsIn
    <2>6. s \ {First(s)} \in SUBSET S /\ s \ {First(s)} \notin T
      BY <2>3, <2>5
    <2>7. SumFunctionOnSet(f, s) = f[First(s)] + SumFunctionOnSet(f, s \ {First(s)})
      BY <2>2, <2>4, SumFirst
    <2> QED
      BY <2>3, <2>5, <2>6, <2>7
  <1> QED
    BY <1>1

\* A sum takes out any index.
LEMMA SumRemove ==
    ASSUME NEW f, NEW S, IsFiniteSet(S), \A x \in S : f[x] \in Int, NEW y \in S
    PROVE  SumFunctionOnSet(f, S) = f[y] + SumFunctionOnSet(f, S \ {y})
  <1> DEFINE Taken(s, x) ==
                 SumFunctionOnSet(f, s) = f[x] + SumFunctionOnSet(f, s \ {x})
             T == {s \in SUBSET S : \E x \in s : ~ Taken(s, x)}
  <1>1. T = {}
    <2>1. SUFFICES ASSUME T # {}
                   PROVE  FALSE
      OBVIOUS
    <2>2. \A s \in SUBSET S : IsFiniteSet(s)
      BY FS_Subset
    <2>3. PICK s \in T : \A u \in T : u \subseteq s => u = s
      <3>1. \A s \in T : IsFiniteSet(s)
        BY <2>2
      <3> HIDE DEF T
      <3> QED
        BY <2>1, <3>1, LeastSet
    <2>4. PICK x \in s : ~ Taken(s, x)
      BY <2>3
    <2> DEFINE c == First(s)
    <2>5. c \in s /\ Taken(s, c)
      BY <2>2, <2>3, <2>4, FirstIsIn, SumFirst
    <2> HIDE DEF c
    <2>6. c # x
      BY <2>4, <2>5
    <2>7. /\ s \ {c} \in SUBSET S /\ s \ {c} \notin T
          /\ s \ {x} \in SUBSET S /\ s \ {x} \notin T
      BY <2>3, <2>4, <2>5
    <2>8. Taken(s \ {c}, x) /\ Taken(s \ {x}, c)
      BY <2>4, <2>5, <2>6, <2>7
    <2>9. (s \ {c}) \ {x} = (s \ {x}) \ {c} /\ (s \ {c}) \ {x} \in SUBSET S
      BY <2>7
    <2>10. /\ f[c] \in Int /\ f[x] \in Int
           /\ SumFunctionOnSet(f, (s \ {c}) \ {x}) \in Int
      <3>1. \A z \in (s \ {c}) \ {x} : f[z] \in Int
        BY <2>9
      <3> QED
        BY <2>2, <2>3, <2>4, <2>5, <2>9, <3>1, SumType
    <2> QED
      BY <2>4, <2>5, <2>8, <2>9, <2>10
  <1> QED
    BY <1>1

\* An index that is added adds its value.
LEMMA SumAdd ==
    ASSUME NEW f, NEW S, IsFiniteSet(S), NEW y, y \notin S,
           \A x \in S \cup {y} : f[x] \in Int
    PROVE  SumFunctionOnSet(f, S \cup {y}) = f[y] + SumFunctionOnSet(f, S)
  <1>1. IsFiniteSet(S \cup {y}) /\ (S \cup {y}) \ {y} = S
    BY FS_AddElement
  <1> QED
    BY <1>1, SumRemove

\* A sum depends on the values at its indices only.
LEMMA SumEqual ==
    ASSUME NEW f, NEW g, NEW S, IsFiniteSet(S), \A x \in S : f[x] = g[x]
    PROVE  SumFunctionOnSet(f, S) = SumFunctionOnSet(g, S)
  <1> DEFINE T == {s \in SUBSET S : SumFunctionOnSet(f, s) # SumFunctionOnSet(g, s)}
  <1>1. T = {}
    <2>1. SUFFICES ASSUME T # {}
                   PROVE  FALSE
      OBVIOUS
    <2>2. \A s \in T : IsFiniteSet(s)
      BY FS_Subset
    <2>3. PICK s \in T : \A u \in T : u \subseteq s => u = s
      <3> HIDE DEF T
      <3> QED
        BY <2>1, <2>2, LeastSet
    <2>4. s # {}
      BY <2>3, SumEmpty
    <2>5. First(s) \in s
      BY <2>4, FirstIsIn
    <2>6. s \ {First(s)} \in SUBSET S /\ s \ {First(s)} \notin T
      BY <2>3, <2>5
    <2>7. /\ SumFunctionOnSet(f, s) = f[First(s)] + SumFunctionOnSet(f, s \ {First(s)})
          /\ SumFunctionOnSet(g, s) = g[First(s)] + SumFunctionOnSet(g, s \ {First(s)})
      BY <2>2, <2>4, SumFirst
    <2> QED
      BY <2>3, <2>5, <2>6, <2>7
  <1> QED
    BY <1>1

\* A sum of zeros is zero.
LEMMA SumZero ==
    ASSUME NEW f, NEW S, IsFiniteSet(S), \A x \in S : f[x] = 0
    PROVE  SumFunctionOnSet(f, S) = 0
  <1> DEFINE T == {s \in SUBSET S : SumFunctionOnSet(f, s) # 0}
  <1>1. T = {}
    <2>1. SUFFICES ASSUME T # {}
                   PROVE  FALSE
      OBVIOUS
    <2>2. \A s \in T : IsFiniteSet(s)
      BY FS_Subset
    <2>3. PICK s \in T : \A u \in T : u \subseteq s => u = s
      <3> HIDE DEF T
      <3> QED
        BY <2>1, <2>2, LeastSet
    <2>4. s # {}
      BY <2>3, SumEmpty
    <2>5. First(s) \in s
      BY <2>4, FirstIsIn
    <2>6. s \ {First(s)} \in SUBSET S /\ s \ {First(s)} \notin T
      BY <2>3, <2>5
    <2>7. SumFunctionOnSet(f, s) = f[First(s)] + SumFunctionOnSet(f, s \ {First(s)})
      BY <2>2, <2>4, SumFirst
    <2> QED
      BY <2>3, <2>5, <2>6, <2>7
  <1> QED
    BY <1>1

\* Changing one value changes the sum by the difference.
LEMMA SumChange ==
    ASSUME NEW f, NEW g, NEW S, IsFiniteSet(S), NEW y \in S,
           \A x \in S : f[x] \in Int /\ g[x] \in Int,
           \A x \in S \ {y} : f[x] = g[x]
    PROVE  SumFunctionOnSet(g, S) = SumFunctionOnSet(f, S) - f[y] + g[y]
  <1>1. IsFiniteSet(S \ {y})
    BY FS_RemoveElement
  <1>2. SumFunctionOnSet(f, S \ {y}) = SumFunctionOnSet(g, S \ {y})
    BY <1>1, SumEqual
  <1>3. /\ SumFunctionOnSet(f, S) = f[y] + SumFunctionOnSet(f, S \ {y})
        /\ SumFunctionOnSet(g, S) = g[y] + SumFunctionOnSet(g, S \ {y})
    BY SumRemove
  <1>4. SumFunctionOnSet(f, S \ {y}) \in Int
    BY <1>1, SumType
  <1> QED
    BY <1>2, <1>3, <1>4

\* The sum over an initial segment of the naturals takes out its last index.
LEMMA SumNext ==
    ASSUME NEW f, NEW n \in Nat, \A i \in 0 .. n : f[i] \in Int
    PROVE  SumFunctionOnSet(f, 0 .. n) = f[n] + SumFunctionOnSet(f, 0 .. n - 1)
  <1>1. IsFiniteSet(0 .. n)
    BY FS_Interval
  <1>2. n \in 0 .. n /\ (0 .. n) \ {n} = 0 .. n - 1
    OBVIOUS
  <1> QED
    BY <1>1, <1>2, SumRemove

\* n terms of which the first r are one larger.
LEMMA SumSteps ==
    ASSUME NEW n \in Nat, NEW k \in Int, NEW r \in 0 .. n, NEW f,
           \A i \in 0 .. n - 1 : f[i] = k + (IF i < r THEN 1 ELSE 0)
    PROVE  SumFunctionOnSet(f, 0 .. n - 1) = n * k + r
  <1> DEFINE Expected(m) == m * k + (IF m < r THEN m ELSE r)
             T == {m \in 0 .. n : SumFunctionOnSet(f, 0 .. m - 1) # Expected(m)}
  <1>1. T = {}
    <2>1. SUFFICES ASSUME T # {}
                   PROVE  FALSE
      OBVIOUS
    <2>2. PICK m \in T : \A j \in T : m <= j
      <3>1. T \subseteq Nat
        OBVIOUS
      <3> HIDE DEF T
      <3> QED
        BY <2>1, <3>1, LeastNatural
    <2>3. m \in 0 .. n /\ SumFunctionOnSet(f, 0 .. m - 1) # Expected(m)
      BY <2>2
    <2>4. CASE m = 0
      <3>1. 0 .. m - 1 = {} /\ 0 * k = 0
        BY <2>4
      <3> QED
        BY <2>3, <2>4, <3>1, SumEmpty
    <2>5. CASE m > 0
      <3>1. m - 1 \in 0 .. n /\ m - 1 \notin T
        <4>1. m - 1 \in 0 .. n /\ ~ (m <= m - 1)
          BY <2>3, <2>5
        <4> HIDE DEF T
        <4> QED
          BY <2>2, <4>1
      <3>2. SumFunctionOnSet(f, 0 .. (m - 1) - 1) = Expected(m - 1)
        BY <3>1
      <3>3. \A i \in 0 .. m - 1 : f[i] = k + (IF i < r THEN 1 ELSE 0) /\ f[i] \in Int
        BY <2>3
      <3>4. PICK j : j = m - 1
        OBVIOUS
      <3>5. j \in Nat /\ \A i \in 0 .. j : f[i] \in Int
        BY <2>3, <2>5, <3>3, <3>4
      <3>6. SumFunctionOnSet(f, 0 .. j) = f[j] + SumFunctionOnSet(f, 0 .. j - 1)
        BY <3>5, SumNext
      <3>7. f[j] = k + (IF j < r THEN 1 ELSE 0)
        BY <3>3, <3>4, <3>5
      <3>8. m * k = j * k + k /\ j * k \in Int
        BY <2>3, <3>4
      <3>9. Expected(m) = Expected(j) + f[j] /\ Expected(j) \in Int
        BY <2>3, <3>4, <3>5, <3>7, <3>8
      <3>10. SumFunctionOnSet(f, 0 .. m - 1) = f[j] + Expected(j)
        BY <3>2, <3>4, <3>6
      <3> HIDE DEF Expected
      <3> QED
        BY <2>3, <3>5, <3>9, <3>10
    <2> QED
      BY <2>3, <2>4, <2>5
  <1>2. n \notin T
    BY <1>1
  <1> QED
    BY <1>2

\* n equal terms.
LEMMA SumConstant ==
    ASSUME NEW n \in Nat, NEW k \in Int, NEW f, \A i \in 0 .. n - 1 : f[i] = k
    PROVE  SumFunctionOnSet(f, 0 .. n - 1) = n * k
  <1>1. \A i \in 0 .. n - 1 : f[i] = k + (IF i < 0 THEN 1 ELSE 0)
    OBVIOUS
  <1>2. PICK r : r = 0 /\ r \in 0 .. n
    OBVIOUS
  <1>3. \A i \in 0 .. n - 1 : f[i] = k + (IF i < r THEN 1 ELSE 0)
    BY <1>1, <1>2
  <1>4. SumFunctionOnSet(f, 0 .. n - 1) = n * k + r
    BY <1>2, <1>3, SumSteps
  <1>5. n * k \in Int
    OBVIOUS
  <1> QED
    BY <1>2, <1>4, <1>5

=============================================================================
