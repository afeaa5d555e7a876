----------------------------- MODULE FoldTheorems -----------------------------
(***************************************************************************)
(* Facts about FoldLeft of the community modules, for any operator.  A     *)
(* proof about a model's fold instantiates this module with the model's    *)
(* operator.  FoldLeft is a recursion over the sets of positions; from it  *)
(* follow the recursion over the last element and, by minimal              *)
(* counterexample, the induction over the prefixes of a sequence.          *)
(***************************************************************************)
EXTENDS SequencesExt, SequenceTheorems, SumTheorems
CONSTANT Op(_, _)

Fold(base, s) == FoldLeft(Op, base, s)

\* The maximum of a non-empty set of positions is one of them.
LEMMA GreatestIsIn ==
    ASSUME NEW n \in Nat, NEW t \in SUBSET (1 .. n), t # {}
    PROVE  Max(t) \in t /\ \A i \in t : i <= Max(t)
  <1> DEFINE T == {n - i : i \in t}
  <1>1. T # {} /\ T \subseteq Nat
    <2>1. \A i \in t : i \in 1 .. n /\ n - i \in Nat
      OBVIOUS
    <2> QED
      BY <2>1
  <1>2. PICK m \in T : \A k \in T : m <= k
    <2> HIDE DEF T
    <2> QED
      BY <1>1, LeastNatural
  <1>3. PICK x \in t : m = n - x
    BY <1>2
  <1>4. ASSUME NEW y \in t
        PROVE  x >= y
    <2>1. n - y \in T
      OBVIOUS
    <2>2. n - x <= n - y
      BY <1>2, <1>3, <2>1
    <2> QED
      BY <2>2
  <1>5. Max(t) \in t /\ \A y \in t : Max(t) >= y
    BY <1>3, <1>4 DEF Max
  <1>6. t \subseteq Int
    OBVIOUS
  <1> QED
    BY <1>5, <1>6

\* The recursion behind FoldLeft.
FoldStep(g, base, s, t) ==
    IF t = {} THEN base ELSE Op(g[t \ {Max(t)}], s[Max(t)])

IsFold(g, base, s, n) ==
    g = [t \in SUBSET (1 .. n) |-> FoldStep(g, base, s, t)]

\* The fold is the value of the chosen solution at all positions.
LEMMA FoldIsRecursive ==
    ASSUME NEW base, NEW s, NEW n \in Nat, DOMAIN s = 1 .. n
    PROVE  Fold(base, s) = (CHOOSE g : IsFold(g, base, s, n))[1 .. n]
  BY DEF Fold, FoldLeft, MapThenFoldSet, IsFold, FoldStep

\* The recursion has a solution, built up by the size of the sets.
LEMMA FoldExists ==
    ASSUME NEW base, NEW s, NEW n \in Nat
    PROVE  \E g : IsFold(g, base, s, n)
  <1> DEFINE D == 1 .. n
             Solves(g, k) ==
                 /\ g = [t \in SUBSET D |-> g[t]]
                 /\ \A t \in SUBSET D : Cardinality(t) <= k => g[t] = FoldStep(g, base, s, t)
             T == {k \in Nat : ~ \E g : Solves(g, k)}
  <1>0. IsFiniteSet(D) /\ \A t \in SUBSET D : t # {} => Max(t) \in t
    <2>1. IsFiniteSet(1 .. n)
      BY FS_Interval
    <2> QED
      BY <2>1, GreatestIsIn
  <1> HIDE DEF D
  <1>1. \A t \in SUBSET D : IsFiniteSet(t) /\ Cardinality(t) \in Nat
    BY <1>0, FS_Subset, FS_CardinalityType
  <1>2. T = {}
    <2>1. SUFFICES ASSUME T # {}
                   PROVE  FALSE
      OBVIOUS
    <2>2. PICK k \in T : \A m \in T : k <= m
      <3>1. T \subseteq Nat
        OBVIOUS
      <3> HIDE DEF T
      <3> QED
        BY <2>1, <3>1, LeastNatural
    <2>3. k \in Nat /\ ~ \E g : Solves(g, k)
      BY <2>2
    <2>4. CASE k = 0
      <3> DEFINE g == [t \in SUBSET D |-> base]
      <3>1. \A t \in SUBSET D : Cardinality(t) <= 0 => t = {}
        BY <1>1, FS_EmptySet
      <3>2. Solves(g, 0)
        BY <3>1 DEF FoldStep
      <3> QED
        BY <2>3, <2>4, <3>2
    <2>5. CASE k > 0
      <3>1. k - 1 \in Nat /\ k - 1 \notin T
        <4> HIDE DEF T
        <4> QED
          BY <2>2, <2>3, <2>5
      <3>2. PICK g : Solves(g, k - 1)
        BY <3>1
      <3> DEFINE h == [t \in SUBSET D |-> IF Cardinality(t) = k THEN FoldStep(g, base, s, t)
                                          ELSE g[t]]
      <3>3. ASSUME NEW t \in SUBSET D, Cardinality(t) <= k
            PROVE  h[t] = FoldStep(h, base, s, t)
        <4>1. h[t] = FoldStep(g, base, s, t)
          <5>1. CASE Cardinality(t) = k
            BY <5>1
          <5>2. CASE Cardinality(t) # k
            <6>1. Cardinality(t) <= k - 1
              BY <1>1, <2>3, <3>3, <5>2
            <6>2. g[t] = FoldStep(g, base, s, t)
              BY <3>2, <6>1
            <6> QED
              BY <5>2, <6>2
          <5> QED
            BY <5>1, <5>2
        <4>2. ASSUME t # {}
              PROVE  h[t \ {Max(t)}] = g[t \ {Max(t)}]
          <5>1. t \ {Max(t)} \in SUBSET D /\ Max(t) \in t
            BY <1>0, <4>2
          <5>2. Cardinality(t \ {Max(t)}) = Cardinality(t) - 1
            BY <1>1, <5>1, FS_RemoveElement
          <5> QED
            BY <1>1, <2>3, <3>3, <5>1, <5>2
        <4> QED
          BY <4>1, <4>2 DEF FoldStep
      <3>4. Solves(h, k)
        BY <3>3
      <3> QED
        BY <2>3, <3>4
    <2> QED
      BY <2>3, <2>4, <2>5
  <1>3. PICK g : Solves(g, Cardinality(D))
    BY <1>0, <1>1, <1>2
  <1>4. \A t \in SUBSET D : Cardinality(t) <= Cardinality(D)
    BY <1>0, FS_Subset
  <1>5. g = [t \in SUBSET D |-> FoldStep(g, base, s, t)]
    BY <1>3, <1>4
  <1> QED
    BY <1>5 DEF IsFold, D

\* Its value depends on the elements at the positions only.
LEMMA FoldIsUnique ==
    ASSUME NEW base, NEW s, NEW r, NEW n \in Nat, NEW m \in Nat, m <= n,
           \A i \in 1 .. m : s[i] = r[i],
           NEW g, NEW h, IsFold(g, base, s, n), IsFold(h, base, r, m)
    PROVE  g[1 .. m] = h[1 .. m]
  <1> DEFINE D == 1 .. m
             T == {t \in SUBSET D : g[t] # h[t]}
  <1>0. /\ IsFiniteSet(D) /\ \A t \in SUBSET D : t # {} => Max(t) \in t
        /\ D \subseteq 1 .. n
    <2>1. IsFiniteSet(1 .. m)
      BY FS_Interval
    <2>2. 1 .. m \subseteq 1 .. n
      OBVIOUS
    <2> QED
      BY <2>1, <2>2, GreatestIsIn
  <1> HIDE DEF D
  <1>1. T = {}
    <2>1. SUFFICES ASSUME T # {}
                   PROVE  FALSE
      OBVIOUS
    <2>2. PICK t \in T : \A u \in T : u \subseteq t => u = t
      <3>1. \A t \in T : IsFiniteSet(t)
        BY <1>0, FS_Subset
      <3> HIDE DEF T
      <3> QED
        BY <2>1, <3>1, LeastSet
    <2>3. /\ g[t] = FoldStep(g, base, s, t) /\ h[t] = FoldStep(h, base, r, t)
          /\ g[t] # h[t]
      <3>1. t \in SUBSET (1 .. n) /\ t \in SUBSET (1 .. m)
        BY <1>0, <2>2 DEF D
      <3> QED
        BY <2>2, <3>1 DEF IsFold
    <2>4. CASE t = {}
      BY <2>3, <2>4 DEF FoldStep
    <2>5. CASE t # {}
      <3>1. Max(t) \in t /\ Max(t) \in D
        BY <1>0, <2>5
      <3>2. t \ {Max(t)} \in SUBSET D /\ t \ {Max(t)} \notin T
        BY <2>2, <3>1
      <3>3. s[Max(t)] = r[Max(t)]
        BY <3>1 DEF D
      <3> QED
        BY <2>3, <2>5, <3>2, <3>3 DEF FoldStep
    <2> QED
      BY <2>4, <2>5
  <1>2. D \in SUBSET D
    OBVIOUS
  <1>3. g[D] = h[D]
    BY <1>1, <1>2
  <1> QED
    BY <1>3 DEF D

\* Without elements a fold is its base.
LEMMA FoldEmpty ==
    ASSUME NEW base
    PROVE  Fold(base, <<>>) = base
  <1>1. PICK n : n = 0 /\ n \in Nat
    OBVIOUS
  <1>2. DOMAIN <<>> = 1 .. n /\ 1 .. n = {}
    BY <1>1
  <1>3. PICK g : g = CHOOSE i : IsFold(i, base, <<>>, n)
    OBVIOUS
  <1>4. IsFold(g, base, <<>>, n)
    BY <1>1, <1>3, FoldExists
  <1>5. g[1 .. n] = base
    BY <1>2, <1>4 DEF IsFold, FoldStep
  <1> QED
    BY <1>1, <1>2, <1>3, <1>5, FoldIsRecursive

\* The last element is consumed last.
LEMMA FoldLast ==
    ASSUME NEW base, NEW s, NEW r, NEW n \in Nat,
           DOMAIN s = 1 .. n + 1, DOMAIN r = 1 .. n,
           \A i \in 1 .. n : s[i] = r[i]
    PROVE  Fold(base, s) = Op(Fold(base, r), s[n + 1])
  <1>0. PICK m : m = n + 1 /\ m \in Nat /\ n <= m
    OBVIOUS
  <1>1. PICK g : g = CHOOSE i : IsFold(i, base, s, m)
    OBVIOUS
  <1>2. PICK h : h = CHOOSE i : IsFold(i, base, r, n)
    OBVIOUS
  <1>3. IsFold(g, base, s, m) /\ IsFold(h, base, r, n)
    BY <1>0, <1>1, <1>2, FoldExists
  <1>4. Fold(base, s) = g[1 .. m] /\ Fold(base, r) = h[1 .. n]
    BY <1>0, <1>1, <1>2, FoldIsRecursive
  <1>5. g[1 .. n] = h[1 .. n]
    BY <1>0, <1>3, FoldIsUnique
  <1>6. 1 .. m # {} /\ Max(1 .. m) = m /\ (1 .. m) \ {m} = 1 .. n
    <2>1. m \in 1 .. m
      BY <1>0
    <2>2. Max(1 .. m) \in 1 .. m /\ \A i \in 1 .. m : i <= Max(1 .. m)
      <3>1. PICK D : D = 1 .. m
        OBVIOUS
      <3>2. Max(D) \in D /\ \A i \in D : i <= Max(D)
        BY <1>0, <2>1, <3>1, GreatestIsIn
      <3> QED
        BY <3>1, <3>2
    <2>3. Max(1 .. m) = m
      BY <1>0, <2>1, <2>2
    <2> QED
      BY <1>0, <2>1, <2>3
  <1>7. g[1 .. m] = Op(g[1 .. n], s[m])
    BY <1>3, <1>6 DEF IsFold, FoldStep
  <1> QED
    BY <1>0, <1>4, <1>5, <1>7

\* A fold consumes its sequence from the left.
LEMMA FoldAppend ==
    ASSUME NEW base, NEW S, NEW s \in Seq(S), NEW x \in S
    PROVE  Fold(base, Append(s, x)) = Op(Fold(base, s), x)
  <1>1. PICK n : n = Len(s) /\ n \in Nat
    OBVIOUS
  <1>2. /\ DOMAIN s = 1 .. n /\ DOMAIN Append(s, x) = 1 .. n + 1
        /\ \A i \in 1 .. n : Append(s, x)[i] = s[i]
        /\ Append(s, x)[n + 1] = x
    BY <1>1, AppendProperties
  <1>3. PICK t : t = Append(s, x)
    OBVIOUS
  <1>4. /\ DOMAIN t = 1 .. n + 1 /\ t[n + 1] = x
        /\ \A i \in 1 .. n : t[i] = s[i]
    BY <1>2, <1>3
  <1>5. Fold(base, t) = Op(Fold(base, s), t[n + 1])
    BY <1>1, <1>2, <1>4, FoldLast
  <1> QED
    BY <1>3, <1>4, <1>5

\* The same, from one prefix of a sequence to the next.
LEMMA FoldPrefix ==
    ASSUME NEW base, NEW S, NEW s \in Seq(S), NEW k \in 1 .. Len(s)
    PROVE  Fold(base, SubSeq(s, 1, k)) = Op(Fold(base, SubSeq(s, 1, k - 1)), s[k])
  <1>1. PICK j : j = k - 1 /\ j \in Nat
    OBVIOUS
  <1>2. PICK t, r : t = SubSeq(s, 1, k) /\ r = SubSeq(s, 1, j)
    OBVIOUS
  <1>3. /\ DOMAIN t = 1 .. j + 1 /\ DOMAIN r = 1 .. j
        /\ \A i \in 1 .. j : t[i] = r[i]
        /\ t[j + 1] = s[k]
    BY <1>1, <1>2
  <1>4. Fold(base, t) = Op(Fold(base, r), t[j + 1])
    BY <1>1, <1>3, FoldLast
  <1> QED
    BY <1>1, <1>2, <1>3, <1>4

\* The values of a fold on the prefixes of its sequence.
LEMMA FoldTrace ==
    ASSUME NEW base, NEW S, NEW s \in Seq(S)
    PROVE  \E t : /\ t[0] = base /\ t[Len(s)] = Fold(base, s)
                  /\ \A k \in 1 .. Len(s) : t[k] = Op(t[k - 1], s[k])
  <1> DEFINE t == [k \in 0 .. Len(s) |-> Fold(base, SubSeq(s, 1, k))]
  <1>1. /\ Len(s) \in 0 .. Len(s) /\ 0 \in 0 .. Len(s)
        /\ \A k \in 1 .. Len(s) : k \in 0 .. Len(s) /\ k - 1 \in 0 .. Len(s)
    OBVIOUS
  <1>2. SubSeq(s, 1, 0) = <<>> /\ SubSeq(s, 1, Len(s)) = s
    OBVIOUS
  <1>3. t[0] = base
    BY <1>1, <1>2, FoldEmpty
  <1>4. t[Len(s)] = Fold(base, s)
    BY <1>1, <1>2
  <1>5. ASSUME NEW k \in 1 .. Len(s)
        PROVE  t[k] = Op(t[k - 1], s[k])
    BY <1>1, FoldPrefix
  <1> HIDE DEF t
  <1> QED
    BY <1>3, <1>4, <1>5

\* Induction over the prefixes: what holds of the base, and of each step when
\* it held before, holds of the fold.
LEMMA FoldInduction ==
    ASSUME NEW S, NEW s \in Seq(S), NEW base, NEW A,
           base \in A[0],
           \A k \in 1 .. Len(s) : \A a \in A[k - 1] : Op(a, s[k]) \in A[k]
    PROVE  Fold(base, s) \in A[Len(s)]
  <1> DEFINE T == {k \in 0 .. Len(s) : Fold(base, SubSeq(s, 1, k)) \notin A[k]}
  <1>1. T = {}
    <2>1. SUFFICES ASSUME T # {}
                   PROVE  FALSE
      OBVIOUS
    <2>2. PICK k \in T : \A m \in T : k <= m
      <3>1. T \subseteq Nat
        OBVIOUS
      <3> HIDE DEF T
      <3> QED
        BY <2>1, <3>1, LeastNatural
    <2>3. k \in 0 .. Len(s) /\ Fold(base, SubSeq(s, 1, k)) \notin A[k]
      BY <2>2
    <2>4. CASE k = 0
      <3>1. SubSeq(s, 1, 0) = <<>>
        OBVIOUS
      <3> QED
        BY <2>3, <2>4, <3>1, FoldEmpty
    <2>5. CASE k # 0
      <3>1. k \in 1 .. Len(s) /\ k - 1 \in 0 .. Len(s) /\ k - 1 < k
        BY <2>3, <2>5
      <3>2. Fold(base, SubSeq(s, 1, k - 1)) \in A[k - 1]
        <4>1. k - 1 \notin T
          <5> HIDE DEF T
          <5> QED
            BY <2>2, <3>1
        <4> QED
          BY <3>1, <4>1
      <3> QED
        BY <2>3, <3>1, <3>2, FoldPrefix
    <2> QED
      BY <2>3, <2>4, <2>5
  <1>2. SubSeq(s, 1, Len(s)) = s /\ Len(s) \in 0 .. Len(s)
    OBVIOUS
  <1>3. Fold(base, SubSeq(s, 1, Len(s))) \in A[Len(s)]
    BY <1>1, <1>2
  <1> QED
    BY <1>2, <1>3

\* What the steps of a fold keep, the fold keeps.
LEMMA FoldKeeps ==
    ASSUME NEW A, NEW S, NEW s \in Seq(S), NEW base \in A,
           \A a \in A, x \in S : Op(a, x) \in A
    PROVE  Fold(base, s) \in A
  <1> DEFINE B == [k \in 0 .. Len(s) |-> A]
  <1>1. /\ 0 \in 0 .. Len(s) /\ Len(s) \in 0 .. Len(s)
        /\ \A k \in 1 .. Len(s) : k \in 0 .. Len(s) /\ k - 1 \in 0 .. Len(s) /\ s[k] \in S
    OBVIOUS
  <1>2. base \in B[0] /\ B[Len(s)] = A
    BY <1>1
  <1>3. \A k \in 1 .. Len(s) : \A a \in B[k - 1] : Op(a, s[k]) \in B[k]
    BY <1>1
  <1> HIDE DEF B
  <1>4. Fold(base, s) \in B[Len(s)]
    BY <1>2, <1>3, FoldInduction
  <1> QED
    BY <1>2, <1>4

\* The first element can be consumed into the base.
LEMMA FoldTail ==
    ASSUME NEW base, NEW S, NEW s \in Seq(S), s # <<>>
    PROVE  Fold(base, s) = Fold(Op(base, Head(s)), Tail(s))
  <1>1. PICK t : t = Tail(s)
    OBVIOUS
  <1>2. /\ t \in Seq(S) /\ Len(s) \in Nat \ {0} /\ Len(t) = Len(s) - 1
        /\ \A k \in 1 .. Len(t) : t[k] = s[k + 1]
        /\ Head(s) = s[1]
    BY <1>1
  <1>3. PICK b : b = Op(base, Head(s))
    OBVIOUS
  <1> DEFINE A == [k \in 0 .. Len(s) |->
                      IF k = 0 THEN {base} ELSE {Fold(b, SubSeq(t, 1, k - 1))}]
  <1>4. base \in A[0]
    BY <1>2
  <1>5. ASSUME NEW k \in 1 .. Len(s), NEW a \in A[k - 1]
        PROVE  Op(a, s[k]) \in A[k]
    <2>1. k \in 0 .. Len(s) /\ k - 1 \in 0 .. Len(s) /\ k # 0
      BY <1>2
    <2>2. CASE k = 1
      <3>1. a = base
        BY <1>5, <2>1, <2>2
      <3>2. SubSeq(t, 1, 0) = <<>>
        BY <1>2
      <3>3. A[1] = {b}
        <4>1. A[1] = {Fold(b, SubSeq(t, 1, 0))}
          BY <2>1, <2>2
        <4>2. Fold(b, <<>>) = b
          BY FoldEmpty
        <4> QED
          BY <3>2, <4>1, <4>2
      <3> QED
        BY <1>2, <1>3, <2>2, <3>1, <3>3
    <2>3. CASE k # 1
      <3>1. PICK j : j = k - 1
        OBVIOUS
      <3>2. j \in 1 .. Len(t) /\ t[j] = s[k] /\ j # 0
        BY <1>2, <2>3, <3>1
      <3>3. a = Fold(b, SubSeq(t, 1, j - 1))
        BY <1>5, <2>1, <3>1, <3>2
      <3>4. Fold(b, SubSeq(t, 1, j)) = Op(Fold(b, SubSeq(t, 1, j - 1)), t[j])
        BY <1>2, <3>2, FoldPrefix
      <3>5. A[k] = {Fold(b, SubSeq(t, 1, j))}
        BY <2>1, <3>1
      <3> QED
        BY <3>2, <3>3, <3>4, <3>5
    <2> QED
      BY <2>2, <2>3
  <1>6. A[Len(s)] = {Fold(b, t)}
    <2>1. Len(s) \in 0 .. Len(s) /\ Len(s) # 0 /\ SubSeq(t, 1, Len(s) - 1) = t
      BY <1>2
    <2> QED
      BY <2>1
  <1> HIDE DEF A
  <1>7. Fold(base, s) \in A[Len(s)]
    BY <1>4, <1>5, FoldInduction
  <1> QED
    BY <1>1, <1>3, <1>6, <1>7

\* A concatenation is consumed one part after the other.
LEMMA FoldConcat ==
    ASSUME NEW base, NEW S, NEW s \in Seq(S), NEW t \in Seq(S)
    PROVE  Fold(base, s \o t) = Fold(Fold(base, s), t)
  <1> DEFINE U(k) == s \o SubSeq(t, 1, k)
             A == [k \in 0 .. Len(t) |-> {Fold(base, U(k))}]
  <1>1. Fold(base, s) \in A[0]
    <2>1. 0 \in 0 .. Len(t) /\ U(0) = s
      OBVIOUS
    <2> QED
      BY <2>1
  <1>2. ASSUME NEW k \in 1 .. Len(t), NEW a \in A[k - 1]
        PROVE  Op(a, t[k]) \in A[k]
    <2>1. PICK j : j = k - 1 /\ j \in 0 .. Len(t) /\ k = j + 1 /\ k \in 0 .. Len(t)
      OBVIOUS
    <2>2. PICK n : n = Len(s) + j /\ n \in Nat
      BY <2>1
    <2>3. PICK u, v : u = U(k) /\ v = U(j)
      OBVIOUS
    <2>4. /\ DOMAIN v = 1 .. n /\ DOMAIN u = 1 .. n + 1
          /\ \A i \in 1 .. n : u[i] = v[i]
          /\ u[n + 1] = t[k]
      <3>1. PICK x, y : x = SubSeq(t, 1, k) /\ y = SubSeq(t, 1, j)
        OBVIOUS
      <3>2. x \in Seq(S) /\ y \in Seq(S) /\ Len(x) = j + 1 /\ Len(y) = j
            /\ (\A i \in 1 .. j : x[i] = y[i]) /\ x[j + 1] = t[k]
        BY <2>1, <3>1
      <3>3. u = s \o x /\ v = s \o y
        BY <2>3, <3>1
      <3>4. Len(u) = Len(s) + (j + 1) /\ Len(v) = Len(s) + j
            /\ u \in Seq(S) /\ v \in Seq(S)
        <4>1. /\ s \o x \in Seq(S) /\ Len(s \o x) = Len(s) + Len(x)
              /\ s \o y \in Seq(S) /\ Len(s \o y) = Len(s) + Len(y)
          BY <3>2, ConcatProperties
        <4> QED
          BY <3>2, <3>3, <4>1
      <3>5. ASSUME NEW i \in 1 .. n
            PROVE  u[i] = v[i]
        <4>1. CASE i <= Len(s)
          BY <2>2, <3>2, <3>3, <4>1
        <4>2. CASE i > Len(s)
          <5>0. Len(s) \in Nat /\ i \in Nat /\ i <= Len(s) + j /\ j \in Nat
            BY <2>1, <2>2
          <5>1. i - Len(s) \in 1 .. j
            BY <4>2, <5>0
          <5>2. u[i] = x[i - Len(s)] /\ v[i] = y[i - Len(s)]
            <6>1. i \in 1 .. Len(s) + Len(x) /\ i \in 1 .. Len(s) + Len(y)
              BY <2>2, <3>2, <5>0
            <6>2. (s \o x)[i] = IF i <= Len(s) THEN s[i] ELSE x[i - Len(s)]
              BY <3>2, <6>1, ConcatProperties
            <6>3. (s \o y)[i] = IF i <= Len(s) THEN s[i] ELSE y[i - Len(s)]
              BY <3>2, <6>1, ConcatProperties
            <6>4. ~ (i <= Len(s))
              BY <4>2, <5>0
            <6> QED
              BY <3>3, <6>2, <6>3, <6>4
          <5> QED
            BY <3>2, <5>1, <5>2
        <4> QED
          BY <4>1, <4>2
      <3>6. u[n + 1] = x[j + 1]
        BY <2>1, <2>2, <3>2, <3>3
      <3>7. DOMAIN u = 1 .. Len(u) /\ DOMAIN v = 1 .. Len(v)
        BY <3>4
      <3>8. Len(v) = n /\ Len(u) = n + 1
        BY <2>1, <2>2, <3>4
      <3> QED
        BY <3>2, <3>5, <3>6, <3>7, <3>8
    <2>5. Fold(base, u) = Op(Fold(base, v), u[n + 1])
      <3>1. n \in Nat
        BY <2>2
      <3> HIDE DEF U
      <3> QED
        BY <2>4, <3>1, FoldLast
    <2>6. a = Fold(base, v)
      BY <1>2, <2>1, <2>3
    <2> QED
      BY <2>1, <2>3, <2>4, <2>5, <2>6
  <1>3. A[Len(t)] = {Fold(base, s \o t)}
    <2>1. Len(t) \in 0 .. Len(t) /\ SubSeq(t, 1, Len(t)) = t
      OBVIOUS
    <2> QED
      BY <2>1
  <1> HIDE DEF A
  <1>4. Fold(Fold(base, s), t) \in A[Len(t)]
    BY <1>1, <1>2, FoldInduction
  <1> QED
    BY <1>3, <1>4
=============================================================================
