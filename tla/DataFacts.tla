------------------------------ MODULE DataFacts ------------------------------
(***************************************************************************)
(* Facts about integers and sequences that the proofs rest on: a least     *)
(* element and induction, an element for every number of smaller ones, and *)
(* what FlattenSeq makes of a sequence of sequences.                       *)
(***************************************************************************)
EXTENDS FiniteSetTheorems, SequenceTheorems, SequencesExt, TLAPS

\* A set of naturals that is not empty has a least element.
LEMMA LeastExists ==
    ASSUME NEW T \in SUBSET Nat, T # {}
    PROVE  \E t \in T : \A u \in T : t <= u
<1>1. PICK t \in T : \A u \in T : ~(<<u, t>> \in OpToRel(<, Nat))
  BY NatLessThanWellFounded, WFMin
<1>2. \A u \in T : ~(u < t)
  BY <1>1 DEF OpToRel
<1> QED
  BY <1>2

\* There are n places below n, counted from 0 or from 1.
LEMMA BelowFinite ==
    ASSUME NEW n \in Nat
    PROVE  /\ IsFiniteSet(0 .. n - 1) /\ Cardinality(0 .. n - 1) = n
           /\ IsFiniteSet(1 .. n) /\ Cardinality(1 .. n) = n
<1>1. 0 \in Int /\ 1 \in Int /\ n - 1 \in Int /\ n \in Int
  OBVIOUS
<1>2. /\ IsFiniteSet(0 .. n - 1)
      /\ Cardinality(0 .. n - 1) = IF 0 > n - 1 THEN 0 ELSE n - 1 - 0 + 1
  BY <1>1, FS_Interval
<1>3. /\ IsFiniteSet(1 .. n)
      /\ Cardinality(1 .. n) = IF 1 > n THEN 0 ELSE n - 1 + 1
  BY <1>1, FS_Interval
<1> QED
  BY <1>2, <1>3

\* The elements of a finite set of integers are counted by the elements below
\* them: each number up to the size of the set occurs, and only once.
LEMMA CountedBelow ==
    ASSUME NEW S \in SUBSET Int, IsFiniteSet(S)
    PROVE  /\ \A k \in S : Cardinality({l \in S : l < k}) \in 0 .. Cardinality(S) - 1
           /\ \A k, m \in S :
                k < m => Cardinality({l \in S : l < k}) < Cardinality({l \in S : l < m})
           /\ \A c \in 0 .. Cardinality(S) - 1 :
                \E k \in S : Cardinality({l \in S : l < k}) = c
<1> DEFINE below(k) == {l \in S : l < k}
           number == [k \in S |-> Cardinality(below(k))]
           N == 0 .. Cardinality(S) - 1
<1>1. Cardinality(S) \in Nat
  BY FS_CardinalityType
<1>2. ASSUME NEW k \in S
      PROVE  IsFiniteSet(below(k)) /\ Cardinality(below(k)) \in N
  <2>1. below(k) \subseteq S \ {k}
    OBVIOUS
  <2>2. IsFiniteSet(S \ {k}) /\ Cardinality(S \ {k}) = Cardinality(S) - 1
    BY FS_RemoveElement
  <2>3. IsFiniteSet(below(k)) /\ Cardinality(below(k)) <= Cardinality(S) - 1
    BY <2>1, <2>2, FS_Subset
  <2>4. Cardinality(below(k)) \in Nat
    BY <2>3, FS_CardinalityType
  <2> HIDE DEF below
  <2> QED
    BY <1>1, <2>3, <2>4
<1>3. ASSUME NEW k \in S, NEW m \in S, k < m
      PROVE  Cardinality(below(k)) < Cardinality(below(m))
  <2>1. below(k) \subseteq below(m) /\ k \in below(m) /\ k \notin below(k)
    <3>1. \A l \in S : l < k => l < m
      BY <1>3
    <3>2. below(k) \subseteq below(m)
      BY <3>1
    <3>3. k \in below(m)
      BY <1>3
    <3>4. ~(k < k)
      OBVIOUS
    <3>5. k \notin below(k)
      BY <3>4
    <3> QED
      BY <3>2, <3>3, <3>5
  <2>2. Cardinality(below(k)) <= Cardinality(below(m))
        /\ Cardinality(below(k)) # Cardinality(below(m))
    <3> HIDE DEF below
    <3> QED
      BY <1>2, <2>1, FS_Subset
  <2>3. Cardinality(below(k)) \in Int /\ Cardinality(below(m)) \in Int
    BY <1>1, <1>2
  <2> HIDE DEF below
  <2> QED
    BY <2>2, <2>3
<1>4. \A c \in N : \E k \in S : Cardinality(below(k)) = c
  <2>1. IsFiniteSet(N) /\ Cardinality(N) = Cardinality(S)
    BY <1>1, BelowFinite
  <2>2. number \in Injection(S, N)
    <3>1. \A k, m \in S : k # m => number[k] # number[m]
      <4>1. \A k, m \in S : k # m => k < m \/ m < k
        OBVIOUS
      <4>2. \A k \in S : number[k] \in Int
        BY <1>2
      <4>3. \A k, m \in S : k < m => number[k] < number[m]
        BY <1>3
      <4> HIDE DEF number
      <4> QED
        BY <4>1, <4>2, <4>3
    <3>2. number \in [S -> N]
      BY <1>2
    <3> HIDE DEF number
    <3> QED
      BY <3>1, <3>2 DEF Injection, IsInjective
  <2>3. number \in Surjection(S, N)
    <3> HIDE DEF number, N
    <3> QED
      BY <2>1, <2>2, FS_Injection
  <2> QED
    BY <2>3 DEF Surjection
<1> QED
  BY <1>2, <1>3, <1>4

\* Induction over a set that says for which numbers a statement holds.
LEMMA InductiveSet ==
    ASSUME NEW T \in SUBSET Nat, 0 \in T, \A n \in T : n + 1 \in T
    PROVE  T = Nat
<1> SUFFICES ASSUME T # Nat PROVE FALSE
  OBVIOUS
<1>1. Nat \ T \in SUBSET Nat /\ Nat \ T # {}
  OBVIOUS
<1>2. PICK m \in Nat \ T : \A u \in Nat \ T : m <= u
  BY <1>1, LeastExists
<1>3. m # 0 /\ m - 1 \in Nat /\ ~(m <= m - 1)
  BY <1>2
<1>4. m - 1 \in T
  BY <1>2, <1>3
<1>5. m - 1 + 1 = m
  BY <1>2
<1> QED
  BY <1>2, <1>4, <1>5

\* Induction up to a bound.
LEMMA InductiveUpTo ==
    ASSUME NEW n \in Nat, NEW T, 0 \in T, \A k \in 1 .. n : k - 1 \in T => k \in T
    PROVE  \A k \in 0 .. n : k \in T
<1> DEFINE U == {m \in Nat : m <= n => m \in T}
<1>1. 0 \in U
  OBVIOUS
<1>2. ASSUME NEW m \in U
      PROVE  m + 1 \in U
  <2>1. m \in Nat /\ m + 1 \in Nat /\ m + 1 - 1 = m
    OBVIOUS
  <2>2. CASE m + 1 <= n
    <3>1. m + 1 \in 1 .. n /\ m <= n
      BY <2>1, <2>2
    <3>2. m \in T
      BY <3>1
    <3> QED
      BY <2>1, <3>1, <3>2
  <2>3. CASE ~(m + 1 <= n)
    BY <2>1, <2>3
  <2> QED
    BY <2>2, <2>3
<1>3. U = Nat
  <2>1. U \in SUBSET Nat
    BY DEF U
  <2> HIDE DEF U
  <2> QED
    BY <1>1, <1>2, <2>1, InductiveSet
<1>4. ASSUME NEW k \in 0 .. n
      PROVE  k \in T
  <2>1. k \in Nat /\ k <= n
    OBVIOUS
  <2>2. k \in U
    <3> HIDE DEF U
    <3> QED
      BY <1>3, <2>1
  <2> QED
    BY <2>1, <2>2
<1> QED
  BY <1>4

\* The values of a loop that starts with "first" and applies step[k] in its
\* k-th iteration.
IsLoop(f, n, S, first, step) ==
    /\ f \in [0 .. n -> S]
    /\ f[0] = first
    /\ \A k \in 1 .. n : f[k] = step[k][f[k - 1]]

\* Such values exist.
LEMMA LoopExists ==
    ASSUME NEW n \in Nat, NEW S, NEW first \in S,
           NEW step \in [1 .. n -> [S -> S]]
    PROVE  \E f : IsLoop(f, n, S, first, step)
<1> DEFINE isLoop(f, m) ==
        f \in [0 .. m -> S] /\ f[0] = first /\ \A k \in 1 .. m : f[k] = step[k][f[k - 1]]
           T == {m \in 0 .. n : \E f : isLoop(f, m)}
<1>1. 0 \in T
  <2> DEFINE g == [k \in 0 .. 0 |-> first]
  <2>1. isLoop(g, 0)
    OBVIOUS
  <2>2. 0 \in 0 .. n
    OBVIOUS
  <2> QED
    BY <2>1, <2>2
<1>2. ASSUME NEW m \in 1 .. n, m - 1 \in T
      PROVE  m \in T
  <2>1. PICK f : isLoop(f, m - 1)
    BY <1>2
  <2> DEFINE g == [k \in 0 .. m |-> IF k = m THEN step[m][f[m - 1]] ELSE f[k]]
  <2>2. m \in Nat /\ m # 0 /\ m - 1 \in 0 .. m - 1 /\ m \in 0 .. n
    OBVIOUS
  <2>3. f[m - 1] \in S /\ step[m] \in [S -> S]
    BY <2>1, <2>2
  <2>4. step[m][f[m - 1]] \in S
    BY <2>3
  <2>5. \A k \in 0 .. m : k # m => k \in 0 .. m - 1
    OBVIOUS
  <2>6. g \in [0 .. m -> S]
    <3>1. \A k \in 0 .. m : k # m => f[k] \in S
      BY <2>1, <2>5
    <3> QED
      BY <2>4, <3>1
  <2>7. g[0] = first
    <3>1. 0 \in 0 .. m
      OBVIOUS
    <3> QED
      BY <2>1, <2>2, <3>1
  <2>8. ASSUME NEW k \in 1 .. m
        PROVE  g[k] = step[k][g[k - 1]]
    <3>1. k - 1 \in 0 .. m /\ k - 1 # m /\ k \in 0 .. m
      OBVIOUS
    <3>2. g[k - 1] = f[k - 1]
      BY <3>1
    <3>3. CASE k = m
      <4>1. g[k] = step[m][f[m - 1]]
        BY <3>1, <3>3
      <4> HIDE DEF g
      <4> QED
        BY <3>2, <3>3, <4>1
    <3>4. CASE k # m
      <4>1. g[k] = f[k] /\ k \in 1 .. m - 1
        BY <3>1, <3>4
      <4> HIDE DEF g
      <4> QED
        BY <2>1, <3>2, <4>1
    <3> QED
      BY <3>3, <3>4
  <2> HIDE DEF g
  <2>9. isLoop(g, m)
    BY <2>6, <2>7, <2>8
  <2> HIDE DEF isLoop
  <2> QED
    BY <2>2, <2>9
<1>3. \A k \in 0 .. n : k \in T
  <2> HIDE DEF T
  <2> QED
    BY <1>1, <1>2, InductiveUpTo
<1>4. n \in T
  <2>1. n \in 0 .. n
    OBVIOUS
  <2> HIDE DEF T
  <2> QED
    BY <1>3, <2>1
<1> QED
  BY <1>4 DEF IsLoop

\* What each iteration preserves holds of every value of the loop.
LEMMA LoopPreserves ==
    ASSUME NEW n \in Nat, NEW S, NEW f, f[0] \in S,
           \A k \in 1 .. n : f[k - 1] \in S => f[k] \in S
    PROVE  \A k \in 0 .. n : f[k] \in S
<1> DEFINE T == {k \in 0 .. n : f[k] \in S}
<1>1. 0 \in T
  OBVIOUS
<1>2. \A k \in 1 .. n : k - 1 \in T => k \in T
  OBVIOUS
<1>3. \A k \in 0 .. n : k \in T
  <2> HIDE DEF T
  <2> QED
    BY <1>1, <1>2, InductiveUpTo
<1> QED
  BY <1>3

\* The recursive definition of running sums has a solution, and all that
\* solve it are those sums.
LEMMA SumsExist ==
    ASSUME NEW n \in Nat, NEW w
    PROVE  \E f : f = [k \in 0 .. n |-> IF k = 0 THEN 0 ELSE f[k - 1] + w[k]]
<1> DEFINE isTable(f, m) == f = [k \in 0 .. m |-> IF k = 0 THEN 0 ELSE f[k - 1] + w[k]]
           T == {m \in Nat : \E f : isTable(f, m)}
<1>1. 0 \in T
  <2> DEFINE g == [k \in 0 .. 0 |-> 0]
  <2>1. \A k \in 0 .. 0 : k = 0
    OBVIOUS
  <2>2. isTable(g, 0)
    BY <2>1
  <2> QED
    BY <2>2
<1>2. ASSUME NEW m \in T
      PROVE  m + 1 \in T
  <2>1. PICK f : isTable(f, m)
    OBVIOUS
  <2> DEFINE g == [k \in 0 .. m + 1 |-> IF k = m + 1 THEN f[m] + w[m + 1] ELSE f[k]]
  <2>2. m \in Nat /\ m + 1 \in Nat /\ m + 1 # 0 /\ m + 1 - 1 = m
    OBVIOUS
  <2>3. \A k \in 0 .. m : f[k] = IF k = 0 THEN 0 ELSE f[k - 1] + w[k]
    BY <2>1
  <2>4. ASSUME NEW k \in 0 .. m + 1
        PROVE  g[k] = IF k = 0 THEN 0 ELSE g[k - 1] + w[k]
    <3>1. k # 0 => k - 1 \in 0 .. m + 1 /\ k - 1 # m + 1
      BY <2>2
    <3>2. k # 0 => g[k - 1] = f[k - 1]
      BY <3>1
    <3>3. CASE k = m + 1
      <4>1. g[k] = f[m] + w[m + 1]
        BY <3>3
      <4> HIDE DEF g
      <4> QED
        BY <2>2, <3>2, <3>3, <4>1
    <3>4. CASE k # m + 1
      <4>1. g[k] = f[k] /\ k \in 0 .. m
        BY <2>2, <3>4
      <4> HIDE DEF g
      <4> QED
        BY <2>3, <3>2, <4>1
    <3> QED
      BY <3>3, <3>4
  <2>5. g = [k \in 0 .. m + 1 |-> g[k]]
    OBVIOUS
  <2> HIDE DEF g
  <2>6. isTable(g, m + 1)
    BY <2>4, <2>5
  <2> HIDE DEF isTable
  <2> QED
    BY <2>2, <2>6
<1>3. T = Nat
  <2>1. T \in SUBSET Nat
    BY DEF T
  <2> HIDE DEF T
  <2> QED
    BY <1>1, <1>2, <2>1, InductiveSet
<1>4. n \in T
  BY <1>3
<1> QED
  BY <1>4

LEMMA SumsTyped ==
    ASSUME NEW n \in Nat, NEW w, \A k \in 1 .. n : w[k] \in Nat,
           NEW f, \A k \in 0 .. n : f[k] = IF k = 0 THEN 0 ELSE f[k - 1] + w[k]
    PROVE  /\ f[0] = 0
           /\ \A k \in 0 .. n : f[k] \in Nat
           /\ \A k \in 1 .. n : f[k] = f[k - 1] + w[k]
<1> DEFINE T == {m \in Nat : m <= n => f[m] \in Nat}
<1>1. \A k \in 0 .. n : f[k] = IF k = 0 THEN 0 ELSE f[k - 1] + w[k]
  OBVIOUS
<1>2. f[0] = 0 /\ \A k \in 1 .. n : f[k] = f[k - 1] + w[k]
  <2>1. 0 \in 0 .. n /\ \A k \in 1 .. n : k \in 0 .. n /\ k # 0
    OBVIOUS
  <2> QED
    BY <1>1, <2>1
<1>3. 0 \in T
  BY <1>2
<1>4. ASSUME NEW m \in T
      PROVE  m + 1 \in T
  <2>1. m \in Nat /\ m + 1 \in Nat /\ m + 1 - 1 = m
    OBVIOUS
  <2> SUFFICES ASSUME m + 1 <= n PROVE f[m + 1] \in Nat
    BY <2>1
  <2>2. m + 1 \in 1 .. n /\ m <= n
    BY <2>1
  <2>3. f[m] \in Nat
    BY <2>2
  <2>4. f[m + 1] = f[m + 1 - 1] + w[m + 1]
    BY <1>2, <2>2
  <2> QED
    BY <2>1, <2>2, <2>3, <2>4
<1>5. T = Nat
  <2>1. T \in SUBSET Nat
    BY DEF T
  <2> HIDE DEF T
  <2> QED
    BY <1>3, <1>4, <2>1, InductiveSet
<1>6. ASSUME NEW k \in 0 .. n
      PROVE  f[k] \in Nat
  <2>1. k \in Nat /\ k <= n
    OBVIOUS
  <2>2. k \in T
    <3> HIDE DEF T
    <3> QED
      BY <1>5, <2>1
  <2> QED
    BY <2>1, <2>2
<1> QED
  BY <1>2, <1>6

-----------------------------------------------------------------------------
(* Sequences of sequences *)

\* FlattenSeq joins one after another: "joined" has what it is after each.
LEMMA Joined ==
    ASSUME NEW S, NEW ss \in Seq(Seq(S)), ss # <<>>
    PROVE  \E joined \in [1 .. Len(ss) -> Seq(S)] :
              /\ FlattenSeq(ss) = joined[Len(ss)]
              /\ joined[1] = ss[1]
              /\ \A i \in 1 .. Len(ss) - 1 : joined[i + 1] = joined[i] \o ss[i + 1]
<1> DEFINE Len0 == Len(ss)
           isTable(f, n) == f = [i \in 1 .. n |-> IF i = 1 THEN ss[i] ELSE f[i - 1] \o ss[i]]
           T == {n \in Nat : n + 1 <= Len0 => \E f : isTable(f, n + 1)}
<1>1. Len0 \in Nat /\ Len0 # 0 /\ Len0 - 1 \in Nat /\ \A i \in 1 .. Len0 : ss[i] \in Seq(S)
  BY EmptySeq, LenProperties
<1> HIDE DEF Len0
<1>2. 0 \in T
  <2>1. isTable([i \in 1 .. 0 + 1 |-> ss[1]], 0 + 1)
    OBVIOUS
  <2> QED
    BY <2>1
<1>3. ASSUME NEW n \in T
      PROVE  n + 1 \in T
  <2>0. n \in Nat /\ n + 1 \in Nat /\ n + 1 + 1 = n + 2
    OBVIOUS
  <2> SUFFICES ASSUME n + 2 <= Len0
               PROVE  \E f : isTable(f, n + 2)
    <3> HIDE DEF isTable
    <3> QED
      BY <2>0
  <2>1. PICK f : isTable(f, n + 1)
    <3>1. n \in Nat /\ n + 1 <= Len0
      BY <1>1
    <3> QED
      BY <3>1
  <2> DEFINE g == [i \in 1 .. n + 2 |-> IF i = n + 2 THEN f[n + 1] \o ss[n + 2] ELSE f[i]]
  <2>2. isTable(g, n + 2)
    <3>1. \A i \in 1 .. n + 1 : f[i] = IF i = 1 THEN ss[i] ELSE f[i - 1] \o ss[i]
      BY <2>1
    <3>2. n \in Nat /\ n + 2 # 1 /\ n + 2 - 1 = n + 1
      OBVIOUS
    <3>3. \A i \in 1 .. n + 2 : i # n + 2 => i \in 1 .. n + 1
      BY <3>2
    <3>4. \A i \in 1 .. n + 2 : i # 1 => i - 1 \in 1 .. n + 2 /\ i - 1 # n + 2
      BY <3>2
    <3>5. \A i \in 1 .. n + 2 : i # 1 => g[i - 1] = f[i - 1]
      BY <3>4
    <3>6. ASSUME NEW i \in 1 .. n + 2
          PROVE  g[i] = IF i = 1 THEN ss[i] ELSE g[i - 1] \o ss[i]
      <4>1. CASE i = n + 2
        <5>1. g[i] = f[n + 1] \o ss[n + 2]
          BY <4>1
        <5>2. i # 1 /\ g[i - 1] = f[n + 1]
          BY <3>2, <3>5, <4>1
        <5> HIDE DEF g
        <5> QED
          BY <4>1, <5>1, <5>2
      <4>2. CASE i # n + 2
        <5>1. g[i] = f[i] /\ i \in 1 .. n + 1
          BY <3>3, <4>2
        <5> HIDE DEF g
        <5> QED
          BY <3>1, <3>5, <5>1
      <4> QED
        BY <4>1, <4>2
    <3>7. g = [i \in 1 .. n + 2 |-> g[i]]
      OBVIOUS
    <3> HIDE DEF g
    <3> QED
      BY <3>6, <3>7
  <2> HIDE DEF isTable, g
  <2> QED
    BY <2>2
<1>4. \E f : isTable(f, Len0)
  <2>1. Len0 - 1 \in T
    <3>1. T \in SUBSET Nat
      BY DEF T
    <3> HIDE DEF T
    <3> QED
      BY <1>1, <1>2, <1>3, <3>1, InductiveSet
  <2>2. Len0 - 1 + 1 <= Len0 /\ Len0 - 1 + 1 = Len0
    BY <1>1
  <2> HIDE DEF isTable
  <2> QED
    BY <2>1, <2>2
<1> DEFINE joined == CHOOSE f : isTable(f, Len0)
<1>5. isTable(joined, Len0)
  <2> HIDE DEF isTable
  <2> QED
    BY <1>4
<1>6. FlattenSeq(ss) = joined[Len0]
  BY <1>1 DEF FlattenSeq, Len0
<1> HIDE DEF joined
<1>7. joined[1] = ss[1] /\ \A i \in 1 .. Len0 - 1 : joined[i + 1] = joined[i] \o ss[i + 1]
  <2>1. \A i \in 1 .. Len0 : joined[i] = IF i = 1 THEN ss[i] ELSE joined[i - 1] \o ss[i]
    BY <1>5 DEF isTable
  <2>2. \A i \in 1 .. Len0 - 1 : i + 1 \in 1 .. Len0 /\ i + 1 # 1 /\ i + 1 - 1 = i
    BY <1>1
  <2>3. 1 \in 1 .. Len0
    BY <1>1
  <2> HIDE DEF isTable
  <2>4. joined[1] = ss[1]
    BY <2>1, <2>3
  <2>5. ASSUME NEW i \in 1 .. Len0 - 1
        PROVE  joined[i + 1] = joined[i] \o ss[i + 1]
    <3> DEFINE k == i + 1
    <3>1. k \in 1 .. Len0 /\ k # 1 /\ k - 1 = i
      BY <2>2
    <3> HIDE DEF k
    <3>2. joined[k] = joined[k - 1] \o ss[k]
      BY <2>1, <3>1
    <3> QED
      BY <3>1, <3>2 DEF k
  <2> QED
    BY <2>4, <2>5
<1>8. DOMAIN joined = 1 .. Len0
  BY <1>5
<1> HIDE DEF isTable
<1> DEFINE U == {n \in Nat : n + 1 <= Len0 => joined[n + 1] \in Seq(S)}
<1>9. 0 \in U
  BY <1>1, <1>7
<1>10. ASSUME NEW n \in U
       PROVE  n + 1 \in U
  <2> SUFFICES ASSUME n + 2 <= Len0
               PROVE  joined[n + 2] \in Seq(S)
    OBVIOUS
  <2>1. n \in Nat /\ n + 1 \in 1 .. Len0 - 1 /\ n + 2 \in 1 .. Len0 /\ n + 1 + 1 = n + 2
    BY <1>1
  <2>2. joined[n + 1] \in Seq(S)
    BY <1>1, <2>1
  <2>3. joined[n + 2] = joined[n + 1] \o ss[n + 2]
    BY <1>7, <2>1
  <2> QED
    BY <1>1, <2>1, <2>2, <2>3, ConcatProperties
<1>11. U = Nat
  <2> HIDE DEF U
  <2>1. U \in SUBSET Nat
    BY DEF U
  <2> QED
    BY <1>9, <1>10, <2>1, InductiveSet
<1>12. \A i \in 1 .. Len0 : joined[i] \in Seq(S)
  <2> SUFFICES ASSUME NEW i \in 1 .. Len0 PROVE joined[i] \in Seq(S)
    OBVIOUS
  <2>1. i - 1 \in Nat /\ i - 1 + 1 = i /\ i <= Len0
    BY <1>1
  <2>2. i - 1 \in U
    BY <1>11, <2>1
  <2> QED
    BY <2>1, <2>2
<1>13. joined \in [1 .. Len0 -> Seq(S)]
  <2>1. joined = [i \in 1 .. Len0 |-> joined[i]]
    BY <1>5 DEF isTable
  <2> QED
    BY <1>12, <2>1
<1> QED
  BY <1>6, <1>7, <1>13 DEF Len0

LEMMA JoinedIsSeq ==
    ASSUME NEW S, NEW ss \in Seq(Seq(S))
    PROVE  FlattenSeq(ss) \in Seq(S)
<1>1. CASE ss = <<>>
  BY <1>1, EmptySeq DEF FlattenSeq
<1>2. CASE ss # <<>>
  <2>1. PICK joined \in [1 .. Len(ss) -> Seq(S)] : FlattenSeq(ss) = joined[Len(ss)]
    BY <1>2, Joined
  <2>2. Len(ss) \in 1 .. Len(ss)
    BY <1>2, EmptySeq, LenProperties
  <2> QED
    BY <2>1, <2>2
<1> QED
  BY <1>1, <1>2

\* What is left of a sequence behind its first k elements.
Rest(ss, k) == [m \in 1 .. Len(ss) - k |-> ss[k + m]]

LEMMA RestProperties ==
    ASSUME NEW S, NEW ss \in Seq(S), NEW k \in 0 .. Len(ss)
    PROVE  /\ Rest(ss, k) \in Seq(S)
           /\ Len(Rest(ss, k)) = Len(ss) - k
           /\ \A m \in 1 .. Len(ss) - k : Rest(ss, k)[m] = ss[k + m]
           /\ k < Len(ss) => Rest(Rest(ss, k), 1) = Rest(ss, k + 1)
<1>1. Len(ss) \in Nat /\ Len(ss) - k \in Nat /\ k \in Nat
  BY LenProperties
<1>2. \A m \in 1 .. Len(ss) - k : k + m \in 1 .. Len(ss)
  BY <1>1
<1>3. \A m \in 1 .. Len(ss) - k : ss[k + m] \in S
  BY <1>2, ElementOfSeq
<1>4. Rest(ss, k) \in Seq(S) /\ Len(Rest(ss, k)) = Len(ss) - k
  BY <1>1, <1>3, IsASeq DEF Rest
<1>5. \A m \in 1 .. Len(ss) - k : Rest(ss, k)[m] = ss[k + m]
  BY DEF Rest
<1>6. ASSUME k < Len(ss)
      PROVE  Rest(Rest(ss, k), 1) = Rest(ss, k + 1)
  <2>1. Rest(Rest(ss, k), 1) = [m \in 1 .. Len(ss) - k - 1 |-> Rest(ss, k)[1 + m]]
    BY <1>4 DEF Rest
  <2>2. Len(ss) - k - 1 = Len(ss) - (k + 1)
    BY <1>1
  <2>3. \A m \in 1 .. Len(ss) - k - 1 : 1 + m \in 1 .. Len(ss) - k /\ k + (1 + m) = k + 1 + m
    BY <1>1
  <2>4. \A m \in 1 .. Len(ss) - k - 1 : Rest(ss, k)[1 + m] = ss[k + 1 + m]
    BY <1>5, <2>3
  <2>5. Rest(ss, k + 1) = [m \in 1 .. Len(ss) - k - 1 |-> ss[k + 1 + m]]
    BY <2>2 DEF Rest
  <2> QED
    BY <2>1, <2>4, <2>5
<1> QED
  BY <1>4, <1>5, <1>6

LEMMA JoinedFirst ==
    ASSUME NEW S, NEW ss \in Seq(Seq(S)), ss # <<>>
    PROVE  FlattenSeq(ss) = ss[1] \o FlattenSeq(Rest(ss, 1))
<1> DEFINE n == Len(ss)
           rest == Rest(ss, 1)
<1>1. n \in Nat /\ n # 0 /\ 1 \in 0 .. n /\ \A m \in 1 .. n : ss[m] \in Seq(S)
  BY EmptySeq, LenProperties
<1>2. /\ rest \in Seq(Seq(S)) /\ Len(rest) = n - 1
      /\ \A m \in 1 .. n - 1 : rest[m] = ss[1 + m]
  BY <1>1, RestProperties
<1> HIDE DEF rest
<1>3. PICK J \in [1 .. n -> Seq(S)] :
         /\ FlattenSeq(ss) = J[n] /\ J[1] = ss[1]
         /\ \A m \in 1 .. n - 1 : J[m + 1] = J[m] \o ss[m + 1]
  BY Joined
<1>4. CASE n = 1
  <2>1. rest = <<>>
    BY <1>2, <1>4, EmptySeq
  <2>2. FlattenSeq(rest) = <<>>
    BY <2>1 DEF FlattenSeq
  <2>3. ss[1] \in Seq(S)
    BY <1>1, <1>4
  <2>4. ss[1] \o <<>> = ss[1]
    BY <2>3, ConcatEmptySeq
  <2>5. FlattenSeq(ss) = ss[1]
    BY <1>3, <1>4
  <2> HIDE DEF n
  <2> QED
    BY <2>2, <2>4, <2>5 DEF rest
<1>5. CASE n # 1
  <2>1. rest # <<>>
    BY <1>1, <1>2, <1>5, EmptySeq
  <2>2. PICK K \in [1 .. n - 1 -> Seq(S)] :
           /\ FlattenSeq(rest) = K[n - 1] /\ K[1] = rest[1]
           /\ \A m \in 1 .. n - 2 : K[m + 1] = K[m] \o rest[m + 1]
    <3>1. n - 1 - 1 = n - 2
      BY <1>1
    <3> HIDE DEF n
    <3>2. PICK K \in [1 .. Len(rest) -> Seq(S)] :
             /\ FlattenSeq(rest) = K[Len(rest)] /\ K[1] = rest[1]
             /\ \A m \in 1 .. Len(rest) - 1 : K[m + 1] = K[m] \o rest[m + 1]
      <4>1. rest \in Seq(Seq(S))
        BY <1>2
      <4> QED
        BY <2>1, <4>1, Joined, Zenon
    <3> QED
      BY <1>2, <3>1, <3>2
  <2> HIDE DEF n
  <2> DEFINE T == {m \in Nat : m + 2 <= n => J[m + 2] = ss[1] \o K[m + 1]}
  <2>3. 0 \in T
    <3>1. 1 \in 1 .. n - 1 /\ 1 + 1 = 2
      BY <1>1, <1>5
    <3>2. J[2] = ss[1] \o ss[2] /\ K[1] = ss[2]
      BY <1>2, <1>3, <2>2, <3>1
    <3>3. 0 + 2 = 2 /\ 0 + 1 = 1
      OBVIOUS
    <3> QED
      BY <3>2, <3>3
  <2>4. ASSUME NEW m \in T
        PROVE  m + 1 \in T
    <3>1. m \in Nat /\ m + 1 \in Nat /\ m + 1 + 1 = m + 2 /\ m + 1 + 2 = m + 3
      OBVIOUS
    <3> SUFFICES ASSUME m + 3 <= n
                 PROVE  J[m + 3] = ss[1] \o K[m + 2]
      <4> HIDE DEF n
      <4> QED
        BY <3>1
    <3>2. /\ m + 2 \in 1 .. n - 1 /\ m + 2 + 1 = m + 3
          /\ m + 1 \in 1 .. n - 2
          /\ m + 2 \in 1 .. n - 1 /\ 1 + (m + 2) = m + 3
          /\ m + 1 \in 1 .. n - 1 /\ 1 \in 1 .. n /\ m + 3 \in 1 .. n
      BY <1>1, <3>1
    <3>3. J[m + 2] = ss[1] \o K[m + 1]
      <4>1. m + 2 <= n
        BY <1>1, <3>1, <3>2
      <4> QED
        BY <4>1
    <3>4. J[m + 3] = J[m + 2] \o ss[m + 3]
      BY <1>3, <3>2
    <3>5. K[m + 2] = K[m + 1] \o rest[m + 2]
      BY <2>2, <3>1, <3>2
    <3>6. rest[m + 2] = ss[m + 3]
      BY <1>2, <3>2
    <3>7. K[m + 1] \in Seq(S) /\ ss[1] \in Seq(S) /\ ss[m + 3] \in Seq(S)
      BY <1>1, <2>2, <3>2
    <3>8. (ss[1] \o K[m + 1]) \o ss[m + 3] = ss[1] \o (K[m + 1] \o ss[m + 3])
      <4> DEFINE s == ss[1]
                 t == K[m + 1]
                 u == ss[m + 3]
      <4>1. s \in Seq(S) /\ t \in Seq(S) /\ u \in Seq(S)
        BY <3>7
      <4> HIDE DEF s, t, u, T
      <4>2. (s \o t) \o u = s \o (t \o u)
        BY <4>1, ConcatAssociative, SMTT(30)
      <4> QED
        BY <4>2 DEF s, t, u
    <3> QED
      BY <3>3, <3>4, <3>5, <3>6, <3>8
  <2>5. n - 2 \in T
    <3>1. T \in SUBSET Nat
      BY DEF T
    <3>2. n - 2 \in Nat
      BY <1>1, <1>5
    <3> HIDE DEF T
    <3> QED
      BY <2>3, <2>4, <3>1, <3>2, InductiveSet
  <2>6. n - 2 + 2 = n /\ n - 2 + 1 = n - 1 /\ n <= n
    BY <1>1
  <2>7. J[n] = ss[1] \o K[n - 1]
    BY <2>5, <2>6
  <2> QED
    BY <1>3, <2>2, <2>7 DEF rest
<1> QED
  BY <1>4, <1>5

\* One element after another is taken off the front.
LEMMA JoinedRest ==
    ASSUME NEW S, NEW ss \in Seq(Seq(S)), NEW k \in 0 .. Len(ss)
    PROVE  /\ FlattenSeq(Rest(ss, k)) \in Seq(S)
           /\ k < Len(ss) =>
                FlattenSeq(Rest(ss, k)) = ss[k + 1] \o FlattenSeq(Rest(ss, k + 1))
           /\ k = Len(ss) => FlattenSeq(Rest(ss, k)) = <<>>
           /\ Rest(ss, 0) = ss
<1>1. Rest(ss, k) \in Seq(Seq(S)) /\ Len(Rest(ss, k)) = Len(ss) - k
  BY RestProperties
<1>2. FlattenSeq(Rest(ss, k)) \in Seq(S)
  BY <1>1, JoinedIsSeq
<1>3. Len(ss) \in Nat /\ k \in Nat
  BY LenProperties
<1>4. ASSUME k < Len(ss)
      PROVE  FlattenSeq(Rest(ss, k)) = ss[k + 1] \o FlattenSeq(Rest(ss, k + 1))
  <2>1. Rest(ss, k) # <<>> /\ 1 \in 1 .. Len(ss) - k
    BY <1>1, <1>3, <1>4, EmptySeq
  <2>2. Rest(ss, k)[1] = ss[k + 1] /\ Rest(Rest(ss, k), 1) = Rest(ss, k + 1)
    BY <1>4, <2>1, RestProperties
  <2> QED
    BY <1>1, <2>1, <2>2, JoinedFirst
<1>5. ASSUME k = Len(ss)
      PROVE  FlattenSeq(Rest(ss, k)) = <<>>
  <2>1. Rest(ss, k) = <<>>
    BY <1>1, <1>3, <1>5, EmptySeq
  <2> QED
    BY <2>1 DEF FlattenSeq
<1>6. Rest(ss, 0) = ss
  <2>1. 0 \in 0 .. Len(ss) /\ Len(ss) - 0 = Len(ss) /\ \A m \in 1 .. Len(ss) : 0 + m = m
    BY <1>3
  <2>2. Rest(ss, 0) = [m \in 1 .. Len(ss) |-> ss[m]]
    BY <2>1 DEF Rest
  <2>3. ss = [m \in 1 .. Len(ss) |-> ss[m]]
    OBVIOUS
  <2> QED
    BY <2>2, <2>3
<1> QED
  BY <1>2, <1>4, <1>5, <1>6

=============================================================================
