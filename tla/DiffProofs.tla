------------------------------- MODULE DiffProofs -------------------------------
(***************************************************************************)
(* What diff and order_deltas do with any tables and any deltas: the order    *)
(* is one in which every rule is kept, it is found unless the rules form a    *)
(* cycle, and to order twice is to order once; tables and columns that the    *)
(* inspection keeps apart stay apart, and what is the same has no delta.      *)
(***************************************************************************)
EXTENDS Diff, Dependencies, BundleProofs, FiniteSetTheorems

Words == Seq(Range(Alphabet))

-----------------------------------------------------------------------------
\* Names.

\* Two strings of one rank are one string.
LEMMA RankTells ==
    ASSUME NEW a \in Range(Alphabet), NEW b \in Range(Alphabet)
    PROVE  Rank[a] \in Nat /\ (Rank[a] = Rank[b] => a = b)
  <1>1. ASSUME NEW s \in Range(Alphabet) PROVE Rank[s] \in DOMAIN Alphabet /\ Alphabet[Rank[s]] = s
    <2>1. \E i \in DOMAIN Alphabet : Alphabet[i] = s
      BY DEF Range
    <2> QED BY <2>1 DEF Rank
  <1>2. DOMAIN Alphabet \subseteq Nat
    BY AlphabetAssumption
  <1> QED BY <1>1, <1>2

\* The place where two tuples part.
Parts(a, b, i) ==
    /\ i \in 1 .. Len(b)
    /\ \A j \in 1 .. i - 1 : j <= Len(a) /\ a[j] = b[j]
    /\ i > Len(a) \/ (i \in 1 .. Len(a) /\ Rank[a[i]] < Rank[b[i]])

LEMMA BelowParts ==
    ASSUME NEW a \in Words, NEW b \in Words
    PROVE  Below(a, b) <=> \E i \in 1 .. Len(b) : Parts(a, b, i)
  <1>1. Len(a) \in Nat /\ Len(b) \in Nat
    BY DEF Words
  <1>2. ASSUME NEW i \in 1 .. Len(b)
        PROVE  i > Len(a) \/ Rank[a[i]] < Rank[b[i]]
               <=> i > Len(a) \/ (i \in 1 .. Len(a) /\ Rank[a[i]] < Rank[b[i]])
    BY <1>1
  <1> QED BY <1>2 DEF Below, Parts

LEMMA BelowAsymmetric ==
    ASSUME NEW a \in Words, NEW b \in Words, Below(a, b)
    PROVE  ~Below(b, a)
  <1> SUFFICES ASSUME Below(b, a) PROVE FALSE
    OBVIOUS
  <1>1. PICK i \in 1 .. Len(b) : Parts(a, b, i)
    BY BelowParts
  <1>2. PICK k \in 1 .. Len(a) : Parts(b, a, k)
    BY BelowParts
  <1>3. /\ Len(a) \in Nat /\ Len(b) \in Nat
        /\ \A j \in 1 .. Len(a) : Rank[a[j]] \in Nat
        /\ \A j \in 1 .. Len(b) : Rank[b[j]] \in Nat
    BY RankTells DEF Words
  <1>4. CASE i < k
    BY <1>1, <1>2, <1>3, <1>4 DEF Parts
  <1>5. CASE k < i
    BY <1>1, <1>2, <1>3, <1>5 DEF Parts
  <1>6. CASE i = k
    BY <1>1, <1>2, <1>3, <1>6 DEF Parts
  <1> QED BY <1>3, <1>4, <1>5, <1>6

LEMMA BelowTotal ==
    ASSUME NEW a \in Words, NEW b \in Words, a # b
    PROVE  Below(a, b) \/ Below(b, a)
  <1> DEFINE Apart(k) == k > Len(a) \/ k > Len(b) \/ a[k] # b[k]
             S == {k \in 1 .. Len(a) + Len(b) : Apart(k)}
  <1>1. Len(a) \in Nat /\ Len(b) \in Nat
    BY DEF Words
  <1>2. \E k \in 1 .. Len(a) + Len(b) : Apart(k)
    <2>1. CASE Len(a) # Len(b)
      <3>1. CASE Len(a) < Len(b)
        BY <1>1, <3>1
      <3>2. CASE Len(b) < Len(a)
        BY <1>1, <3>2
      <3> QED BY <1>1, <2>1, <3>1, <3>2
    <2>2. CASE Len(a) = Len(b)
      <3>1. PICK k \in 1 .. Len(a) : a[k] # b[k]
        BY <2>2 DEF Words
      <3> QED BY <1>1, <3>1
    <2> QED BY <2>1, <2>2
  <1>3. PICK k \in S : \A l \in S : k <= l
    <2>1. S \in SUBSET Nat /\ S # {}
      BY <1>1, <1>2
    <2> HIDE DEF S
    <2> QED BY <2>1, LeastNat
  <1>4. \A j \in 1 .. k - 1 : j <= Len(a) /\ j <= Len(b) /\ a[j] = b[j]
    BY <1>1, <1>3
  <1>5. k \in Nat /\ k >= 1 /\ k <= Len(a) + Len(b) /\ Apart(k)
    BY <1>1, <1>3
  <1>6. CASE k > Len(a)
    <2>1. k <= Len(b)
      <3>1. CASE k > Len(b)
        <4>1. Len(a) = Len(b)
          BY <1>1, <1>4, <1>5, <1>6, <3>1
        <4>2. a = b
          BY <1>1, <1>4, <1>6, <3>1, <4>1 DEF Words
        <4> QED BY <4>2
      <3> QED BY <1>1, <1>5, <3>1
    <2>2. Parts(a, b, k)
      BY <1>1, <1>4, <1>5, <1>6, <2>1 DEF Parts
    <2> QED BY <1>1, <1>5, <2>1, <2>2, BelowParts
  <1>7. CASE k <= Len(a) /\ k > Len(b)
    <2>1. Parts(b, a, k)
      BY <1>1, <1>4, <1>5, <1>7 DEF Parts
    <2> QED BY <1>1, <1>5, <1>7, <2>1, BelowParts
  <1>8. CASE k <= Len(a) /\ k <= Len(b)
    <2>1. a[k] # b[k] /\ k \in 1 .. Len(a) /\ k \in 1 .. Len(b)
      BY <1>1, <1>5, <1>8
    <2>2. /\ Rank[a[k]] \in Nat /\ Rank[b[k]] \in Nat
          /\ Rank[a[k]] # Rank[b[k]]
      <3>1. a[k] \in Range(Alphabet) /\ b[k] \in Range(Alphabet)
        BY <2>1 DEF Words
      <3> QED BY <2>1, <3>1, RankTells
    <2>3. CASE Rank[a[k]] < Rank[b[k]]
      <3>1. Parts(a, b, k)
        BY <1>4, <2>1, <2>3 DEF Parts
      <3> QED BY <2>1, <3>1, BelowParts
    <2>4. CASE Rank[b[k]] < Rank[a[k]]
      <3>1. Parts(b, a, k)
        BY <1>4, <2>1, <2>4 DEF Parts
      <3> QED BY <2>1, <3>1, BelowParts
    <2> QED BY <2>2, <2>3, <2>4
  <1> QED BY <1>1, <1>5, <1>6, <1>7, <1>8

LEMMA BelowTransitive ==
    ASSUME NEW a \in Words, NEW b \in Words, NEW c \in Words, Below(a, b), Below(b, c)
    PROVE  Below(a, c)
  <1>1. PICK i \in 1 .. Len(b) : Parts(a, b, i)
    BY BelowParts
  <1>2. PICK k \in 1 .. Len(c) : Parts(b, c, k)
    BY BelowParts
  <1>3. /\ Len(a) \in Nat /\ Len(b) \in Nat /\ Len(c) \in Nat
        /\ \A j \in 1 .. Len(a) : Rank[a[j]] \in Nat
        /\ \A j \in 1 .. Len(b) : Rank[b[j]] \in Nat
        /\ \A j \in 1 .. Len(c) : Rank[c[j]] \in Nat
    BY RankTells DEF Words
  <1>4. CASE i < k
    <2>1. Parts(a, c, i)
      BY <1>1, <1>2, <1>3, <1>4 DEF Parts
    <2> QED BY <1>2, <1>3, <1>4, <2>1, BelowParts
  <1>5. CASE k <= i
    <2>1. Parts(a, c, k)
      BY <1>1, <1>2, <1>3, <1>5 DEF Parts
    <2> QED BY <1>2, <2>1, BelowParts
  <1> QED BY <1>3, <1>4, <1>5

-----------------------------------------------------------------------------
\* The queue of topological_sort.

\* sort_key is a total preorder and ties go by place: whatever the deltas, Lower
\* puts what gets ready together into one order.
THEOREM LowerIsTotalOrder ==
    ASSUME NEW ds, NEW I \in SUBSET Int,
           \A i \in I : sort_key(ds[i]) \in Words
    PROVE  /\ \A i, j \in I : Lower(ds, i, j) => ~Lower(ds, j, i)
           /\ \A i, j \in I : i # j => Lower(ds, i, j) \/ Lower(ds, j, i)
           /\ \A i, j, k \in I : Lower(ds, i, j) /\ Lower(ds, j, k) => Lower(ds, i, k)
  <1> DEFINE key(i) == sort_key(ds[i])
  <1>1. \A i \in I : key(i) \in Words
    OBVIOUS
  <1>2. \A i, j : Lower(ds, i, j) <=> Below(key(i), key(j)) \/ (key(i) = key(j) /\ i < j)
    BY DEF Lower
  <1> HIDE DEF key
  <1>3. \A i, j \in I : Below(key(i), key(j)) => ~Below(key(j), key(i))
    BY <1>1, BelowAsymmetric
  <1>4. \A i, j \in I : key(i) # key(j) => Below(key(i), key(j)) \/ Below(key(j), key(i))
    BY <1>1, BelowTotal
  <1>5. \A i, j, k \in I :
            Below(key(i), key(j)) /\ Below(key(j), key(k)) => Below(key(i), key(k))
    BY <1>1, BelowTransitive
  <1>6. \A i, j \in I : Lower(ds, i, j) => ~Lower(ds, j, i)
    BY <1>2, <1>3
  <1>7. \A i, j \in I : i # j => Lower(ds, i, j) \/ Lower(ds, j, i)
    BY <1>2, <1>4
  <1>8. \A i, j, k \in I : Lower(ds, i, j) /\ Lower(ds, j, k) => Lower(ds, i, k)
    BY <1>2, <1>5
  <1> QED BY <1>6, <1>7, <1>8

\* R puts the elements of S into one order.
IsOrder(R, S) ==
    /\ \A x, y \in S : <<x, y>> \in R => <<y, x>> \notin R
    /\ \A x, y \in S : x # y => <<x, y>> \in R \/ <<y, x>> \in R
    /\ \A x, y, z \in S : <<x, y>> \in R /\ <<y, z>> \in R => <<x, z>> \in R

Under(R, S, x) == {y \in S : <<y, x>> \in R}

LEMMA UnderGrows ==
    ASSUME NEW S, IsFiniteSet(S), NEW R, IsOrder(R, S)
    PROVE  /\ \A x \in S : Cardinality(Under(R, S, x)) \in 0 .. Cardinality(S) - 1
           /\ \A x, y \in S : <<x, y>> \in R =>
                Cardinality(Under(R, S, x)) < Cardinality(Under(R, S, y))
  <1>1. ASSUME NEW x \in S
        PROVE  /\ IsFiniteSet(Under(R, S, x))
               /\ Cardinality(Under(R, S, x)) \in 0 .. Cardinality(S) - 1
    <2> DEFINE U == Under(R, S, x)
    <2>1. U \in SUBSET S /\ x \notin U
      BY DEF Under, IsOrder
    <2> HIDE DEF U
    <2>2. IsFiniteSet(U) /\ Cardinality(U) <= Cardinality(S) /\ Cardinality(U) # Cardinality(S)
      BY <2>1, FS_Subset
    <2>3. Cardinality(U) \in Nat /\ Cardinality(S) \in Nat
      BY <2>2, FS_CardinalityType
    <2> QED
      BY <2>2, <2>3 DEF U
  <1>2. ASSUME NEW x \in S, NEW y \in S, <<x, y>> \in R
        PROVE  Cardinality(Under(R, S, x)) < Cardinality(Under(R, S, y))
    <2> DEFINE U == Under(R, S, x)
               V == Under(R, S, y)
    <2>1. U \in SUBSET V /\ x \in V /\ x \notin U
      BY <1>2 DEF Under, IsOrder
    <2>2. IsFiniteSet(U) /\ IsFiniteSet(V) /\ Cardinality(U) \in Int /\ Cardinality(V) \in Int
      BY <1>1
    <2> HIDE DEF U, V
    <2>3. Cardinality(U) <= Cardinality(V) /\ Cardinality(U) # Cardinality(V)
      BY <2>1, <2>2, FS_Subset
    <2> QED
      BY <2>2, <2>3 DEF U, V
  <1> QED
    BY <1>1, <1>2

\* InOrder has every element once, by ascending R.
LEMMA AscendingIs ==
    ASSUME NEW S, IsFiniteSet(S), NEW R, IsOrder(R, S), NEW q,
           DOMAIN q = 1 .. Cardinality(S), q = [i \in DOMAIN q |-> q[i]],
           \A i \in DOMAIN q : (\E x \in S : Cardinality(Under(R, S, x)) = i - 1) =>
                q[i] \in S /\ Cardinality(Under(R, S, q[i])) = i - 1
    PROVE  /\ q \in Seq(S)
           /\ \A x \in S : \E i \in 1 .. Len(q) : q[i] = x
           /\ \A i, j \in 1 .. Len(q) : i < j => <<q[i], q[j]>> \in R
  <1> DEFINE n == Cardinality(S)
             C(x) == Cardinality(Under(R, S, x))
             r == [x \in S |-> C(x) + 1]
  <1>1. n \in Nat
    BY FS_CardinalityType
  <1>2. /\ \A x \in S : C(x) \in 0 .. n - 1
        /\ \A x, y \in S : <<x, y>> \in R => C(x) < C(y)
    BY UnderGrows
  <1>3. \A x, y \in S : C(x) = C(y) => x = y
    <2> SUFFICES ASSUME NEW x \in S, NEW y \in S, C(x) = C(y), x # y PROVE FALSE
      OBVIOUS
    <2>1. <<x, y>> \in R \/ <<y, x>> \in R
      BY DEF IsOrder
    <2>2. C(x) < C(y) \/ C(y) < C(x)
      BY <1>2, <2>1
    <2>3. C(x) \in Int /\ C(y) \in Int
      BY <1>2
    <2> HIDE DEF C
    <2> QED
      BY <2>2, <2>3
  <1>4. /\ DOMAIN q = 1 .. n
        /\ \A i \in 1 .. n : (\E x \in S : C(x) = i - 1) => q[i] \in S /\ C(q[i]) = i - 1
    OBVIOUS
  <1> HIDE DEF C, n
  <1>5. r \in Injection(S, 1 .. n)
    <2>1. r \in [S -> 1 .. n]
      BY <1>1, <1>2
    <2>2. \A x, y \in S : r[x] = r[y] => x = y
      BY <1>2, <1>3
    <2> HIDE DEF r
    <2> QED
      BY <2>1, <2>2 DEF Injection, IsInjective
  <1>6. IsFiniteSet(1 .. n) /\ Cardinality(1 .. n) = n
    <2>1. 1 \in Int /\ n \in Int
      BY <1>1
    <2>2. /\ IsFiniteSet(1 .. n)
          /\ Cardinality(1 .. n) = IF 1 > n THEN 0 ELSE n - 1 + 1
      BY ONLY <2>1, FS_Interval
    <2> QED
      BY <1>1, <2>2
  <1>7. r \in Surjection(S, 1 .. n)
    <2> HIDE DEF r
    <2> QED
      BY <1>5, <1>6, FS_Injection DEF n
  <1>8. ASSUME NEW i \in 1 .. n PROVE q[i] \in S /\ C(q[i]) = i - 1
    <2>1. PICK x \in S : r[x] = i
      BY <1>7 DEF Surjection
    <2>2. C(x) = i - 1
      BY <1>2, <2>1
    <2> QED
      BY <1>4, <2>2
  <1>10. q \in Seq(S) /\ Len(q) = n
    <2>1. q \in [1 .. n -> S]
      BY <1>4, <1>8
    <2>2. q \in Seq(S)
      <3>1. Seq(S) = UNION {[1 .. k -> S] : k \in Nat}
        OBVIOUS
      <3> QED
        BY <1>1, <2>1, <3>1
    <2> QED
      BY <1>1, <1>4, <2>2, LenProperties
  <1>11. ASSUME NEW x \in S PROVE \E i \in 1 .. n : q[i] = x
    <2>1. C(x) + 1 \in 1 .. n /\ (C(x) + 1) - 1 = C(x)
      BY <1>1, <1>2
    <2>2. q[C(x) + 1] \in S /\ C(q[C(x) + 1]) = C(x)
      BY <1>8, <2>1
    <2> QED
      BY <1>3, <2>1, <2>2
  <1>12. ASSUME NEW i \in 1 .. n, NEW j \in 1 .. n, i < j PROVE <<q[i], q[j]>> \in R
    <2>1. q[i] \in S /\ q[j] \in S /\ C(q[i]) = i - 1 /\ C(q[j]) = j - 1
      BY <1>8
    <2>2. i \in Int /\ j \in Int
      BY <1>1
    <2>3. q[i] # q[j]
      BY <1>12, <2>1, <2>2
    <2>4. <<q[j], q[i]>> \in R => C(q[j]) < C(q[i])
      BY <1>2, <2>1
    <2>5. <<q[j], q[i]>> \notin R
      BY <1>12, <2>1, <2>2, <2>4
    <2> QED
      BY <2>1, <2>3, <2>5 DEF IsOrder
  <1> QED
    BY <1>10, <1>11, <1>12

\* The deltas have n places, and names that can be compared.
Keyed(ds, n) == DOMAIN ds = 1 .. n /\ \A i \in 1 .. n : sort_key(ds[i]) \in Words

LEMMA IsKeyed ==
    ASSUME NEW n, NEW ds, DOMAIN ds = 1 .. n, \A i \in 1 .. n : sort_key(ds[i]) \in Words
    PROVE  Keyed(ds, n)
  BY Zenon DEF Keyed

\* q has the places of S, each of them once, the lower ones first.
Ascends(ds, q, S) ==
    /\ IsSeq(q, S)
    /\ \A x \in S : \E i \in 1 .. Len(q) : q[i] = x
    /\ \A i, j \in 1 .. Len(q) : i < j => Lower(ds, q[i], q[j])

LEMMA InLineAscends ==
    ASSUME NEW ds, NEW n \in Nat, Keyed(ds, n), NEW S \in SUBSET (1 .. n)
    PROVE  Ascends(ds, InLine(ds, S), S)
  <1> DEFINE R == {p \in S \X S : Lower(ds, p[1], p[2])}
             q == InLine(ds, S)
  <1>1. \A x, y \in S : <<x, y>> \in R <=> Lower(ds, x, y)
    OBVIOUS
  <1>2. IsFiniteSet(S)
    <2>1. IsFiniteSet(1 .. n)
      BY FS_Interval
    <2> QED
      BY <2>1, FS_Subset
  <1>3. IsOrder(R, S)
    <2>1. S \in SUBSET Int /\ \A i \in S : sort_key(ds[i]) \in Words
      BY DEF Keyed
    <2>2. /\ \A i, j \in S : Lower(ds, i, j) => ~Lower(ds, j, i)
          /\ \A i, j \in S : i # j => Lower(ds, i, j) \/ Lower(ds, j, i)
          /\ \A i, j, k \in S : Lower(ds, i, j) /\ Lower(ds, j, k) => Lower(ds, i, k)
      BY <2>1, LowerIsTotalOrder
    <2> HIDE DEF R
    <2> QED
      BY <1>1, <2>2 DEF IsOrder
  <1>4. /\ DOMAIN q = 1 .. Cardinality(S) /\ q = [i \in DOMAIN q |-> q[i]]
        /\ \A i \in DOMAIN q : (\E x \in S : Cardinality(Under(R, S, x)) = i - 1) =>
                q[i] \in S /\ Cardinality(Under(R, S, q[i])) = i - 1
    <2> DEFINE C(x) == Cardinality({y \in S : Lower(ds, y, x)})
    <2>1. \A x \in S : Cardinality(Under(R, S, x)) = C(x)
      <3>1. \A x \in S : Under(R, S, x) = {y \in S : Lower(ds, y, x)}
        BY <1>1 DEF Under
      <3> HIDE DEF R
      <3> QED
        BY <3>1
    <2>2. q = [i \in 1 .. Cardinality(S) |-> CHOOSE x \in S : C(x) = i - 1]
      BY DEF InLine, InOrder
    <2> HIDE DEF C, q, R
    <2>3. DOMAIN q = 1 .. Cardinality(S)
      BY <2>2
    <2>4. ASSUME NEW i \in DOMAIN q, NEW x \in S, Cardinality(Under(R, S, x)) = i - 1
          PROVE  q[i] \in S /\ Cardinality(Under(R, S, q[i])) = i - 1
      <3>1. C(x) = i - 1
        BY <2>1, <2>4
      <3>2. q[i] = CHOOSE y \in S : C(y) = i - 1
        BY <2>2, <2>3
      <3>3. q[i] \in S /\ C(q[i]) = i - 1
        BY <3>1, <3>2
      <3> QED
        BY <2>1, <3>3
    <2> QED
      BY <2>2, <2>3, <2>4
  <1> HIDE DEF R
  <1> HIDE DEF q
  <1>5. /\ q \in Seq(S)
        /\ \A x \in S : \E i \in 1 .. Len(q) : q[i] = x
        /\ \A i, j \in 1 .. Len(q) : i < j => <<q[i], q[j]>> \in R
    BY <1>2, <1>3, <1>4, AscendingIs
  <1>6. \A i \in 1 .. Len(q) : q[i] \in S
    BY <1>5
  <1> QED
    BY <1>1, <1>5, <1>6 DEF Ascends, IsSeq, q

\* No place comes twice in what ascends.
LEMMA AscendsOnce ==
    ASSUME NEW ds, NEW n \in Nat, Keyed(ds, n), NEW S \in SUBSET (1 .. n), NEW q,
           Ascends(ds, q, S)
    PROVE  /\ Len(q) \in Nat
           /\ \A i \in 1 .. Len(q) : q[i] \in S
           /\ \A i, j \in 1 .. Len(q) : q[i] = q[j] => i = j
  <1>1. Len(q) \in Nat /\ \A i \in 1 .. Len(q) : q[i] \in S
    BY SeqIs DEF Ascends
  <1>2. S \in SUBSET Int /\ \A i \in S : sort_key(ds[i]) \in Words
    BY DEF Keyed
  <1>3. \A i, j \in S : Lower(ds, i, j) => ~Lower(ds, j, i)
    BY <1>2, LowerIsTotalOrder
  <1>4. \A i, j \in 1 .. Len(q) : i < j => Lower(ds, q[i], q[j])
    BY DEF Ascends
  <1>5. ASSUME NEW i \in 1 .. Len(q), NEW j \in 1 .. Len(q), q[i] = q[j] PROVE i = j
    <2>1. ~(i < j)
      BY <1>1, <1>3, <1>4, <1>5
    <2>2. ~(j < i)
      BY <1>1, <1>3, <1>4, <1>5
    <2> QED
      BY <1>1, <2>1, <2>2
  <1> QED
    BY <1>1, <1>5

-----------------------------------------------------------------------------
\* The rounds of topological_sort.

Start(ds, before) ==
    [out |-> <<>>, queue |-> InLine(ds, {j \in DOMAIN ds : before[j] = {}})]

Rounds(ds, before) ==
    CHOOSE f : f = [s \in SUBSET DOMAIN ds |->
        IF s = {} THEN Start(ds, before) ELSE EmitFirst(ds, before, f[s \ {Max(s)}])]

\* What is emitted, and what waits, after k rounds.
After(ds, before, k) == Rounds(ds, before)[1 .. k]

LEMMA SortedIs ==
    ASSUME NEW ds, NEW n \in Nat, DOMAIN ds = 1 .. n, NEW before
    PROVE  Sorted(ds, before) = After(ds, before, n).out
  BY DEF Sorted, FoldLeft, MapThenFoldSet, Rounds, Start, After

Midways(n) == [out : Seq(1 .. n), queue : Seq(1 .. n)]
IsMidway(st, n) == st \in Midways(n)

LEMMA MidwayHas ==
    ASSUME NEW n, NEW st, IsMidway(st, n)
    PROVE  IsSeq(st.out, 1 .. n) /\ IsSeq(st.queue, 1 .. n)
  BY DEF IsMidway, Midways, IsSeq

\* What gets ready when the first of the queue is emitted.
Ready(before, n, st) ==
    {j \in 1 .. n : /\ st.queue[1] \in before[j]
                    /\ before[j] \subseteq Range(Append(st.out, st.queue[1]))}

\* The first of the queue goes out, and a chunk joins the queue.
Moved(st, t, chunk) ==
    /\ Len(st.out) \in Nat /\ Len(st.queue) \in Nat /\ Len(chunk) \in Nat
    /\ Len(st.queue) >= 1
    /\ Len(t.out) = Len(st.out) + 1
    /\ \A i \in 1 .. Len(st.out) : t.out[i] = st.out[i]
    /\ t.out[Len(st.out) + 1] = st.queue[1]
    /\ Len(t.queue) = (Len(st.queue) - 1) + Len(chunk)
    /\ \A i \in 1 .. Len(st.queue) - 1 : t.queue[i] = st.queue[i + 1]
    /\ \A i \in 1 .. Len(chunk) : t.queue[(Len(st.queue) - 1) + i] = chunk[i]

LEMMA QueueMoves ==
    ASSUME NEW S, NEW out, IsSeq(out, S), NEW queue, IsSeq(queue, S), queue # <<>>,
           NEW chunk, IsSeq(chunk, S)
    PROVE  LET st == [out |-> out, queue |-> queue]
               t == [out |-> Append(out, Head(queue)), queue |-> Tail(queue) \o chunk]
           IN  /\ Head(queue) = queue[1] /\ IsSeq(t.out, S) /\ IsSeq(t.queue, S)
               /\ Moved(st, t, chunk)
  <1> DEFINE st == [out |-> out, queue |-> queue]
             x == Head(queue)
             b == Tail(queue)
             o == Append(out, x)
             q == b \o chunk
             t == [out |-> o, queue |-> q]
  <1>1. /\ Len(queue) \in Nat /\ Len(queue) >= 1
        /\ x = queue[1] /\ x \in S
        /\ b \in Seq(S) /\ Len(b) = Len(queue) - 1
        /\ \A i \in 1 .. Len(b) : b[i] = queue[i + 1]
    <2>1. queue \in Seq(S)
      BY DEF IsSeq
    <2>2. Len(queue) \in Nat \ {0}
      BY <2>1, EmptySeq
    <2> QED
      BY <2>1, <2>2, HeadTailProperties
  <1>2. IsSeq(b, S)
    BY <1>1 DEF IsSeq
  <1> HIDE DEF x, b
  <1>3. /\ IsSeq(o, S) /\ Len(out) \in Nat /\ Len(o) = Len(out) + 1
        /\ \A i \in 1 .. Len(out) : o[i] = out[i]
        /\ o[Len(out) + 1] = x
    BY <1>1, Appended
  <1>4. IsSeq(q, S) /\ IsJoin(q, b, chunk)
    BY <1>2, Joins
  <1> HIDE DEF o, q
  <1>5. st.out = out /\ st.queue = queue /\ t.out = o /\ t.queue = q
    OBVIOUS
  <1> HIDE DEF st, t
  <1>6. Moved(st, t, chunk)
    BY <1>1, <1>3, <1>4, <1>5 DEF Moved, IsJoin
  <1> QED
    BY <1>1, <1>3, <1>4, <1>5, <1>6 DEF st, t, x, b, o, q

LEMMA SeqWider == ASSUME NEW S, NEW T, S \subseteq T, NEW q, IsSeq(q, S) PROVE IsSeq(q, T)
  BY SeqMonotonic DEF IsSeq

\* One round.
LEMMA EmitFirstIs ==
    ASSUME NEW ds, NEW n \in Nat, Keyed(ds, n), NEW before,
           NEW st, IsMidway(st, n)
    PROVE  LET t == EmitFirst(ds, before, st)
               chunk == InLine(ds, Ready(before, n, st))
           IN  /\ IsMidway(t, n)
               /\ st.queue = <<>> => t = st
               /\ st.queue # <<>> =>
                    Moved(st, t, chunk) /\ Ascends(ds, chunk, Ready(before, n, st))
  <1> DEFINE t == EmitFirst(ds, before, st)
             chunk == InLine(ds, Ready(before, n, st))
  <1>1. CASE st.queue = <<>>
    <2>1. t = st
      BY <1>1 DEF EmitFirst
    <2> HIDE DEF t
    <2> QED
      BY <1>1, <2>1 DEF t
  <1>2. CASE st.queue # <<>>
    <2>1. IsSeq(st.out, 1 .. n) /\ IsSeq(st.queue, 1 .. n)
      BY MidwayHas
    <2>2. Ready(before, n, st) \in SUBSET (1 .. n)
      BY DEF Ready
    <2>3. Ascends(ds, chunk, Ready(before, n, st))
      BY <2>2, InLineAscends
    <2>4. IsSeq(chunk, 1 .. n)
      BY <2>2, <2>3, SeqWider DEF Ascends
    <2> DEFINE u == [out |-> Append(st.out, Head(st.queue)), queue |-> Tail(st.queue) \o chunk]
               v == [out |-> st.out, queue |-> st.queue]
    <2> HIDE DEF chunk
    <2>5. Head(st.queue) = st.queue[1] /\ IsSeq(u.out, 1 .. n) /\ IsSeq(u.queue, 1 .. n)
          /\ Moved(v, u, chunk)
      BY <1>2, <2>1, <2>4, QueueMoves, Zenon
    <2>6. v = st
      BY DEF IsMidway, Midways
    <2>7. DOMAIN ds = 1 .. n
      BY DEF Keyed
    <2>8. t = u
      <3>1. {j \in DOMAIN ds : /\ Head(st.queue) \in before[j]
                               /\ before[j] \subseteq Range(Append(st.out, Head(st.queue)))}
            = Ready(before, n, st)
        <4>1. Head(st.queue) = st.queue[1]
          BY <2>5
        <4> QED
          BY <2>7, <4>1 DEF Ready
      <3> QED
        BY <1>2, <3>1 DEF EmitFirst, chunk
    <2>9. IsMidway(u, n)
      <3>1. u.out \in Seq(1 .. n) /\ u.queue \in Seq(1 .. n)
        BY <2>5 DEF IsSeq
      <3> QED
        BY <3>1 DEF IsMidway, Midways
    <2> HIDE DEF t, u, v
    <2>10. IsMidway(t, n) /\ Moved(st, t, chunk) /\ Ascends(ds, chunk, Ready(before, n, st))
      BY <2>3, <2>5, <2>6, <2>8, <2>9
    <2> QED
      BY <1>2, <2>10 DEF t, chunk
  <1> QED
    BY <1>1, <1>2

LEMMA StartIs ==
    ASSUME NEW ds, NEW n \in Nat, Keyed(ds, n), NEW before
    PROVE  /\ IsMidway(Start(ds, before), n)
           /\ Start(ds, before).out = <<>>
           /\ Ascends(ds, Start(ds, before).queue, {j \in 1 .. n : before[j] = {}})
  <1> DEFINE S == {j \in 1 .. n : before[j] = {}}
             q == InLine(ds, S)
  <1>1. Ascends(ds, q, S)
    BY InLineAscends
  <1>2. S \subseteq 1 .. n /\ DOMAIN ds = 1 .. n
    BY DEF Keyed
  <1>3. Start(ds, before) = [out |-> <<>>, queue |-> q]
    BY <1>2 DEF Start
  <1> HIDE DEF q, S
  <1>4. IsSeq(q, 1 .. n)
    BY <1>1, <1>2, SeqWider DEF Ascends
  <1>5. [out |-> <<>>, queue |-> q] \in Midways(n)
    BY <1>4 DEF IsSeq, Midways
  <1> QED
    BY <1>1, <1>3, <1>5 DEF IsMidway, S

\* The rounds follow one another.
LEMMA RoundsFollow ==
    ASSUME NEW ds, NEW n \in Nat, Keyed(ds, n), NEW before
    PROVE  /\ After(ds, before, 0) = Start(ds, before)
           /\ \A k \in 1 .. n :
                After(ds, before, k) = EmitFirst(ds, before, After(ds, before, k - 1))
  <1> DEFINE St == Midways(n)
             base == Start(ds, before)
             F == [x \in St \X (1 .. n) |-> EmitFirst(ds, before, x[1])]
             Value(f, s) ==
                IF s = {} THEN base ELSE EmitFirst(ds, before, f[s \ {Max(s)}])
             u == Rounds(ds, before)
  <1>1. \A st \in St : EmitFirst(ds, before, st) \in St
    BY EmitFirstIs DEF IsMidway
  <1>2. base \in St
    BY StartIs DEF IsMidway
  <1> HIDE DEF St, base
  <1>3. F \in [St \X (1 .. n) -> St]
    BY <1>1
  <1>4. PICK f \in [SUBSET (1 .. n) -> St] : Folded(f, F, base, n)
    <2> HIDE DEF F
    <2> QED
      BY <1>2, <1>3, FoldExists
  <1>5. ASSUME NEW s \in SUBSET (1 .. n), s # {}
        PROVE  F[f[s \ {Max(s)}], Max(s)] = EmitFirst(ds, before, f[s \ {Max(s)}])
    <2>1. Max(s) \in 1 .. n
      BY <1>5, MaxIs
    <2>2. f[s \ {Max(s)}] \in St
      OBVIOUS
    <2> QED
      BY <2>1, <2>2
  <1>6. f = [s \in SUBSET (1 .. n) |-> Value(f, s)]
    <2> HIDE DEF F
    <2>1. f = [s \in SUBSET (1 .. n) |-> IF s = {} THEN base ELSE F[f[s \ {Max(s)}], Max(s)]]
      BY <1>4, Zenon DEF Folded
    <2>2. \A s \in SUBSET (1 .. n) :
            (IF s = {} THEN base ELSE F[f[s \ {Max(s)}], Max(s)]) = Value(f, s)
      BY <1>5
    <2> HIDE DEF Value
    <2> QED
      BY <2>1, <2>2
  <1>7. u = [s \in SUBSET (1 .. n) |-> Value(u, s)]
    <2>1. DOMAIN ds = 1 .. n
      BY DEF Keyed
    <2>2. f = [s \in SUBSET DOMAIN ds |-> Value(f, s)]
      BY <1>6, <2>1, Zenon
    <2>3. u = [s \in SUBSET DOMAIN ds |-> Value(u, s)]
      BY <2>2, Zenon DEF Rounds, base
    <2> QED
      BY <2>1, <2>3, Zenon
  <1> HIDE DEF Value
  <1>8. \A s \in SUBSET (1 .. n) : u[s] = Value(u, s)
    BY <1>7
  <1>9. u[1 .. 0] = base
    <2>1. 1 .. 0 = {} /\ {} \in SUBSET (1 .. n)
      OBVIOUS
    <2> QED
      BY <1>8, <2>1 DEF Value
  <1>10. ASSUME NEW k \in 1 .. n
         PROVE  u[1 .. k] = EmitFirst(ds, before, u[1 .. (k - 1)])
    <2>1. k \in Nat /\ k > 0 /\ 1 .. k \in SUBSET (1 .. n)
      OBVIOUS
    <2>2. u[1 .. k] = Value(u, 1 .. k)
      BY <1>8, <2>1
    <2> HIDE DEF u
    <2> QED
      BY <2>1, <2>2, LastOfPrefix DEF Value
  <1> QED
    BY <1>9, <1>10 DEF After, base

-----------------------------------------------------------------------------
\* The line: what went out, and then what waits.

Has(s, x) == \E i \in 1 .. Len(s) : s[i] = x

\* l is what was emitted and then what waits.
Stands(st, l) ==
    /\ Len(st.out) <= Len(l) /\ Len(st.queue) = Len(l) - Len(st.out)
    /\ \A i \in 1 .. Len(st.out) : l[i] = st.out[i]
    /\ \A i \in 1 .. Len(st.queue) : l[Len(st.out) + i] = st.queue[i]

\* Every prerequisite of j is in s.
Met(before, s, j) == \A p \in before[j] : Has(s, p)

Once(s) == \A i, j \in 1 .. Len(s) : s[i] = s[j] => i = j

\* What is emitted came after its prerequisites.
Led(before, s) ==
    \A i \in 1 .. Len(s) : \A p \in before[s[i]] : \E m \in 1 .. i - 1 : s[m] = p

\* Nothing is in the line twice; in the line is what has its prerequisites
\* emitted.
LineInv(before, n, st, l) ==
    /\ IsSeq(l, 1 .. n)
    /\ Once(l)
    /\ \A j \in 1 .. n : Has(l, j) <=> Met(before, st.out, j)
    /\ Led(before, st.out)

LEMMA LineMoves ==
    ASSUME NEW st, NEW t, NEW chunk, Moved(st, t, chunk),
           NEW l, Stands(st, l), NEW l2, IsJoin(l2, l, chunk)
    PROVE  Stands(t, l2)
  <1> DEFINE k == Len(st.out)
             q == Len(st.queue)
             c == Len(chunk)
  <1>1. /\ k \in Nat /\ q \in Nat /\ q >= 1 /\ c \in Nat /\ Len(l) = k + q
        /\ Len(l2) = k + q + c /\ Len(t.out) = k + 1 /\ Len(t.queue) = (q - 1) + c
    BY DEF Moved, Stands, IsJoin
  <1>2. /\ \A i \in 1 .. k : t.out[i] = st.out[i]
        /\ t.out[k + 1] = st.queue[1]
        /\ \A i \in 1 .. q - 1 : t.queue[i] = st.queue[i + 1]
        /\ \A i \in 1 .. c : t.queue[(q - 1) + i] = chunk[i]
    BY DEF Moved
  <1>3. /\ \A i \in 1 .. k : l[i] = st.out[i]
        /\ \A i \in 1 .. q : l[k + i] = st.queue[i]
    BY DEF Stands
  <1>4. /\ \A i \in 1 .. k + q : l2[i] = l[i]
        /\ \A i \in 1 .. c : l2[(k + q) + i] = chunk[i]
    BY <1>1 DEF IsJoin
  <1> HIDE DEF k, q, c
  <1>5. ASSUME NEW i \in 1 .. k + 1 PROVE l2[i] = t.out[i]
    <2>1. i \in 1 .. k + q
      BY <1>1
    <2>2. CASE i \in 1 .. k
      BY <1>2, <1>3, <1>4, <2>1, <2>2
    <2>3. CASE i = k + 1
      <3>1. 1 \in 1 .. q
        BY <1>1
      <3>2. l[k + 1] = st.queue[1]
        BY <1>3, <3>1
      <3> QED
        BY <1>2, <1>4, <2>1, <2>3, <3>2
    <2> QED
      BY <1>1, <2>2, <2>3
  <1>6. ASSUME NEW i \in 1 .. (q - 1) + c PROVE l2[(k + 1) + i] = t.queue[i]
    <2>1. CASE i \in 1 .. q - 1
      <3>1. i + 1 \in 1 .. q /\ (k + 1) + i = k + (i + 1) /\ k + (i + 1) \in 1 .. k + q
        BY <1>1, <2>1
      <3>2. l[k + (i + 1)] = st.queue[i + 1] /\ l2[k + (i + 1)] = l[k + (i + 1)]
        BY <1>3, <1>4, <3>1
      <3> QED
        BY <1>2, <2>1, <3>1, <3>2
    <2>2. CASE i \notin 1 .. q - 1
      <3> DEFINE j == i - (q - 1)
      <3>1. j \in 1 .. c /\ (k + 1) + i = (k + q) + j /\ i = (q - 1) + j
        BY <1>1, <2>2
      <3> HIDE DEF j
      <3>2. l2[(k + q) + j] = chunk[j] /\ t.queue[(q - 1) + j] = chunk[j]
        BY <1>2, <1>4, <3>1
      <3> QED
        BY <3>1, <3>2
    <2> QED
      BY <2>1, <2>2
  <1>7. k + 1 <= Len(l2) /\ Len(t.queue) = Len(l2) - (k + 1)
    BY <1>1
  <1> QED
    BY <1>1, <1>5, <1>6, <1>7 DEF Stands

LEMMA HasJoined ==
    ASSUME NEW u, NEW s, NEW t, IsJoin(u, s, t), NEW x
    PROVE  Has(u, x) <=> Has(s, x) \/ Has(t, x)
  <1>1. /\ Len(s) \in Nat /\ Len(t) \in Nat /\ Len(u) = Len(s) + Len(t)
        /\ \A i \in 1 .. Len(s) : u[i] = s[i] /\ i \in 1 .. Len(u)
        /\ \A i \in 1 .. Len(t) : u[Len(s) + i] = t[i] /\ Len(s) + i \in 1 .. Len(u)
    BY DEF IsJoin
  <1>2. ASSUME Has(s, x) \/ Has(t, x) PROVE Has(u, x)
    BY <1>1, <1>2 DEF Has
  <1>3. ASSUME NEW i \in 1 .. Len(u), u[i] = x PROVE Has(s, x) \/ Has(t, x)
    <2>1. CASE i \in 1 .. Len(s)
      BY <1>1, <1>3, <2>1 DEF Has
    <2>2. CASE i \notin 1 .. Len(s)
      <3> DEFINE j == i - Len(s)
      <3>1. j \in 1 .. Len(t) /\ i = Len(s) + j
        BY <1>1, <2>2
      <3> HIDE DEF j
      <3>2. t[j] = x
        BY <1>1, <1>3, <3>1
      <3> QED
        BY <3>1, <3>2 DEF Has
    <2> QED
      BY <2>1, <2>2
  <1> QED
    BY <1>2, <1>3 DEF Has

LEMMA OnceJoined ==
    ASSUME NEW u, NEW s, NEW t, IsJoin(u, s, t), Once(s), Once(t),
           \A x : ~(Has(s, x) /\ Has(t, x))
    PROVE  Once(u)
  <1>1. /\ Len(s) \in Nat /\ Len(t) \in Nat /\ Len(u) = Len(s) + Len(t)
        /\ \A i \in 1 .. Len(s) : u[i] = s[i]
        /\ \A i \in 1 .. Len(t) : u[Len(s) + i] = t[i]
    BY DEF IsJoin
  <1>2. ASSUME NEW i \in 1 .. Len(u)
        PROVE  \/ i \in 1 .. Len(s) /\ u[i] = s[i] /\ Has(s, u[i])
               \/ \E k \in 1 .. Len(t) : i = Len(s) + k /\ u[i] = t[k] /\ Has(t, u[i])
    <2>1. CASE i \in 1 .. Len(s)
      BY <1>1, <2>1 DEF Has
    <2>2. CASE i \notin 1 .. Len(s)
      <3> DEFINE j == i - Len(s)
      <3>1. j \in 1 .. Len(t) /\ i = Len(s) + j
        BY <1>1, <2>2
      <3> HIDE DEF j
      <3>2. u[i] = t[j]
        BY <1>1, <3>1
      <3> QED
        BY <3>1, <3>2 DEF Has
    <2> QED
      BY <2>1, <2>2
  <1> QED
    BY <1>2 DEF Once

LEMMA LineStep ==
    ASSUME NEW n \in Nat, NEW ds, Keyed(ds, n), NEW before, NEW st, NEW t, NEW chunk,
           IsMidway(st, n), Moved(st, t, chunk), Ascends(ds, chunk, Ready(before, n, st)),
           NEW l, Stands(st, l), LineInv(before, n, st, l)
    PROVE  /\ IsJoin(l \o chunk, l, chunk)
           /\ Stands(t, l \o chunk)
           /\ LineInv(before, n, t, l \o chunk)
  <1> DEFINE R == Ready(before, n, st)
             k == Len(st.out)
             x == st.queue[1]
             l2 == l \o chunk
  <1>1. R \in SUBSET (1 .. n) /\ IsSeq(chunk, R)
    BY DEF Ready, Ascends
  <1>2. IsSeq(l, 1 .. n) /\ IsSeq(chunk, 1 .. n)
    BY <1>1, SeqWider DEF LineInv
  <1>3. IsSeq(l2, 1 .. n) /\ IsJoin(l2, l, chunk)
    BY <1>2, Joins
  <1>4. Stands(t, l2)
    BY <1>3, LineMoves
  <1>5. /\ Len(st.queue) \in Nat /\ Len(st.queue) >= 1 /\ k \in Nat /\ Len(t.out) = k + 1
        /\ \A i \in 1 .. k : t.out[i] = st.out[i]
        /\ t.out[k + 1] = x
    BY DEF Moved
  <1>0. x \in 1 .. n
    <2>1. IsSeq(st.queue, 1 .. n)
      BY MidwayHas
    <2>2. \A i \in 1 .. Len(st.queue) : st.queue[i] \in 1 .. n
      BY <2>1, SeqIs
    <2>3. 1 \in 1 .. Len(st.queue)
      BY <1>5
    <2> QED
      BY <2>2, <2>3
  <1> HIDE DEF k, x
  <1>6. \A y : Has(t.out, y) <=> Has(st.out, y) \/ y = x
    <2>1. \A y : Has(t.out, y) <=> \E i \in 1 .. k + 1 : t.out[i] = y
      BY <1>5 DEF Has
    <2>2. \A y : Has(st.out, y) <=> \E i \in 1 .. k : t.out[i] = y
      BY <1>5 DEF Has, k
    <2>3. \A i : i \in 1 .. k + 1 <=> i \in 1 .. k \/ i = k + 1
      BY <1>5
    <2> QED
      BY <1>5, <2>1, <2>2, <2>3
  <1>7. \A y : y \in Range(Append(st.out, x)) <=> Has(t.out, y)
    <2> DEFINE a == Append(st.out, x)
    <2>1. x \in 1 .. n
      BY <1>0
    <2>2. /\ IsSeq(a, 1 .. n) /\ Len(a) = k + 1
          /\ \A i \in 1 .. k : a[i] = st.out[i]
          /\ a[k + 1] = x
      <3>1. IsSeq(st.out, 1 .. n)
        BY MidwayHas
      <3> QED
        BY <2>1, <3>1, Appended DEF k
    <2> HIDE DEF a
    <2>3. DOMAIN a = 1 .. k + 1
      BY <2>2, SeqIs
    <2>4. \A i \in 1 .. k + 1 : a[i] = t.out[i]
      BY <1>5, <2>2
    <2>5. \A y : y \in Range(a) <=> \E i \in 1 .. k + 1 : a[i] = y
      BY <2>3 DEF Range
    <2>6. \A y : Has(t.out, y) <=> \E i \in 1 .. k + 1 : t.out[i] = y
      BY <1>5 DEF Has
    <2>7. \A y : y \in Range(a) <=> Has(t.out, y)
      BY <2>4, <2>5, <2>6
    <2> QED
      BY <2>7 DEF a
  <1>8. \A j \in 1 .. n : j \in R <=> x \in before[j] /\ Met(before, t.out, j)
    BY <1>7 DEF Ready, Met, x
  <1>9. \A y : Has(chunk, y) <=> y \in R
    BY <1>1, SeqIs DEF Has, Ascends
  <1>10. Has(l, x) /\ ~Has(st.out, x)
    <2>1. /\ k + 1 \in 1 .. Len(l) /\ l[k + 1] = x
          /\ \A i \in 1 .. k : l[i] = st.out[i] /\ i \in 1 .. Len(l) /\ i # k + 1
      <3>1. Len(l) \in Nat
        BY <1>2, SeqIs
      <3>2. 1 \in 1 .. Len(st.queue)
        BY <1>5
      <3>3. /\ k <= Len(l) /\ Len(st.queue) = Len(l) - k
            /\ \A i \in 1 .. k : l[i] = st.out[i]
            /\ \A i \in 1 .. Len(st.queue) : l[k + i] = st.queue[i]
        BY DEF Stands, k
      <3>4. l[k + 1] = x
        BY <3>2, <3>3 DEF x
      <3> QED
        BY <1>5, <3>1, <3>3, <3>4
    <2> QED
      BY <2>1 DEF Has, LineInv, Once, k
  <1>11. \A j \in 1 .. n : Has(l, j) <=> Met(before, st.out, j)
    BY DEF LineInv
  <1>12. \A y : ~(Has(l, y) /\ Has(chunk, y))
    <2> SUFFICES ASSUME NEW y, Has(l, y), Has(chunk, y) PROVE FALSE
      OBVIOUS
    <2>1. y \in 1 .. n /\ x \in before[y]
      BY <1>1, <1>8, <1>9
    <2>2. Met(before, st.out, y)
      BY <1>11, <2>1
    <2> QED
      BY <1>10, <2>1, <2>2 DEF Met
  <1>13. Once(chunk)
    <2>1. Ascends(ds, chunk, R)
      OBVIOUS
    <2> HIDE DEF R
    <2> QED
      BY <1>1, <2>1, AscendsOnce DEF Once
  <1>14. Once(l2)
    <2>1. Once(l)
      BY DEF LineInv
    <2> HIDE DEF l2
    <2> QED
      BY <1>3, <1>12, <1>13, <2>1, OnceJoined
  <1>15. ASSUME NEW j \in 1 .. n PROVE Has(l2, j) <=> Met(before, t.out, j)
    <2> HIDE DEF l2
    <2>1. Has(l2, j) <=> Has(l, j) \/ Has(chunk, j)
      BY <1>3, HasJoined
    <2>2. Has(l, j) => Met(before, t.out, j)
      BY <1>6, <1>11 DEF Met
    <2>3. Met(before, t.out, j) => Has(l, j) \/ j \in R
      <3>1. CASE x \in before[j]
        BY <1>8, <3>1
      <3>2. CASE x \notin before[j]
        BY <1>6, <1>11, <3>2 DEF Met
      <3> QED
        BY <3>1, <3>2
    <2> QED
      BY <1>8, <1>9, <2>1, <2>2, <2>3
  <1>16. Led(before, t.out)
    <2>1. Led(before, st.out)
      BY DEF LineInv
    <2>2. ASSUME NEW i \in 1 .. k + 1, NEW p \in before[t.out[i]]
          PROVE  \E m \in 1 .. i - 1 : t.out[m] = p
      <3>1. CASE i \in 1 .. k
        <4>1. PICK m \in 1 .. i - 1 : st.out[m] = p
          BY <1>5, <2>1, <2>2, <3>1 DEF Led, k
        <4>2. m \in 1 .. k
          BY <1>5, <3>1
        <4> QED
          BY <1>5, <4>1, <4>2
      <3>2. CASE i = k + 1
        <4>1. x \in 1 .. n
          BY <1>0
        <4>2. Has(st.out, p)
          BY <1>5, <1>10, <1>11, <2>2, <3>2, <4>1 DEF Met
        <4>3. PICK m \in 1 .. k : st.out[m] = p
          BY <4>2 DEF Has, k
        <4>4. m \in 1 .. i - 1
          BY <1>5, <3>2
        <4> QED
          BY <1>5, <4>3, <4>4
      <3> QED
        BY <1>5, <3>1, <3>2
    <2> QED
      BY <1>5, <2>2 DEF Led
  <1> HIDE DEF l2
  <1>17. LineInv(before, n, t, l2)
    BY <1>3, <1>14, <1>15, <1>16 DEF LineInv
  <1> QED
    BY <1>3, <1>4, <1>17 DEF l2

LEMMA LineStarts ==
    ASSUME NEW n \in Nat, NEW ds, Keyed(ds, n), NEW before
    PROVE  LET st == Start(ds, before)
           IN  Stands(st, st.queue) /\ LineInv(before, n, st, st.queue)
  <1> DEFINE st == Start(ds, before)
             S == {j \in 1 .. n : before[j] = {}}
             l == st.queue
  <1>1. IsMidway(st, n) /\ st.out = <<>> /\ Ascends(ds, l, S)
    BY StartIs
  <1> HIDE DEF st
  <1>2. S \in SUBSET (1 .. n) /\ IsSeq(l, 1 .. n)
    BY <1>1, MidwayHas
  <1>3. Len(st.out) = 0 /\ Len(l) \in Nat
    BY <1>1, <1>2, SeqIs
  <1>4. Stands(st, l)
    BY <1>3 DEF Stands
  <1>5. Once(l) /\ \A y : Has(l, y) <=> y \in S
    <2> HIDE DEF S, l
    <2>1. /\ \A i \in 1 .. Len(l) : l[i] \in S
          /\ \A i, j \in 1 .. Len(l) : l[i] = l[j] => i = j
      <3>1. Ascends(ds, l, S)
        BY <1>1
      <3> QED
        BY <1>2, <3>1, AscendsOnce
    <2>2. \A x \in S : \E i \in 1 .. Len(l) : l[i] = x
      BY <1>1 DEF Ascends
    <2> QED
      BY <2>1, <2>2 DEF Once, Has
  <1>6. \A y : ~Has(st.out, y)
    BY <1>3 DEF Has
  <1>7. \A j \in 1 .. n : j \in S <=> Met(before, st.out, j)
    BY <1>6 DEF Met
  <1>8. Led(before, st.out)
    BY <1>3 DEF Led
  <1> QED
    BY <1>2, <1>4, <1>5, <1>7, <1>8 DEF LineInv, st

\* l is the line after k rounds.
IsLine(ds, before, n, k, l) ==
    Stands(After(ds, before, k), l) /\ LineInv(before, n, After(ds, before, k), l)

\* What is so after k rounds: each emits one, until nothing is ready.
Rolling(ds, before, n, k) ==
    LET st == After(ds, before, k)
    IN  /\ IsMidway(st, n)
        /\ Len(st.out) <= k
        /\ Len(st.out) = k \/ st.queue = <<>>
        /\ \E l : IsLine(ds, before, n, k, l)

\* The next round, when something is ready.
LEMMA NextRound ==
    ASSUME NEW n \in Nat, NEW ds, Keyed(ds, n), NEW before, NEW k \in 0 .. n - 1,
           IsMidway(After(ds, before, k), n), After(ds, before, k).queue # <<>>,
           NEW l, IsLine(ds, before, n, k, l)
    PROVE  LET st == After(ds, before, k)
               t == After(ds, before, k + 1)
               chunk == InLine(ds, Ready(before, n, st))
           IN  /\ IsMidway(t, n) /\ Moved(st, t, chunk)
               /\ Ascends(ds, chunk, Ready(before, n, st))
               /\ IsJoin(l \o chunk, l, chunk)
               /\ IsLine(ds, before, n, k + 1, l \o chunk)
  <1> DEFINE st == After(ds, before, k)
             t == After(ds, before, k + 1)
             chunk == InLine(ds, Ready(before, n, st))
  <1>1. t = EmitFirst(ds, before, st)
    <2>1. k + 1 \in 1 .. n /\ (k + 1) - 1 = k
      OBVIOUS
    <2> QED
      BY <2>1, RoundsFollow
  <1>2. Stands(st, l) /\ LineInv(before, n, st, l)
    BY DEF IsLine
  <1>3. IsMidway(st, n) /\ st.queue # <<>>
    OBVIOUS
  <1> HIDE DEF st, t
  <1>4. /\ IsMidway(t, n) /\ Moved(st, t, chunk)
        /\ Ascends(ds, chunk, Ready(before, n, st))
    BY <1>1, <1>3, EmitFirstIs
  <1> HIDE DEF chunk
  <1>5. /\ IsJoin(l \o chunk, l, chunk)
        /\ Stands(t, l \o chunk)
        /\ LineInv(before, n, t, l \o chunk)
    BY <1>2, <1>3, <1>4, LineStep
  <1> QED
    BY <1>4, <1>5 DEF IsLine, st, t, chunk

LEMMA RollsOn ==
    ASSUME NEW n \in Nat, NEW ds, Keyed(ds, n), NEW before
    PROVE  \A k \in 0 .. n : Rolling(ds, before, n, k)
  <1> DEFINE T == {k \in Nat : k <= n => Rolling(ds, before, n, k)}
  <1>1. 0 \in T
    <2> DEFINE st == After(ds, before, 0)
    <2>1. st = Start(ds, before)
      BY RoundsFollow
    <2>2. /\ IsMidway(st, n) /\ st.out = <<>>
          /\ Stands(st, st.queue) /\ LineInv(before, n, st, st.queue)
      BY <2>1, StartIs, LineStarts
    <2>3. Len(st.out) = 0
      BY <2>2
    <2>4. IsLine(ds, before, n, 0, st.queue)
      BY <2>2 DEF IsLine
    <2> HIDE DEF st
    <2>5. Rolling(ds, before, n, 0)
      BY <2>2, <2>3, <2>4 DEF Rolling, st
    <2> QED
      BY <2>5
  <1>2. ASSUME NEW k \in Nat, k \in T PROVE k + 1 \in T
    <2> SUFFICES ASSUME k + 1 <= n PROVE Rolling(ds, before, n, k + 1)
      OBVIOUS
    <2> DEFINE st == After(ds, before, k)
               t == After(ds, before, k + 1)
    <2>1. k \in 0 .. n - 1 /\ k + 1 \in 1 .. n /\ (k + 1) - 1 = k
      OBVIOUS
    <2>2. /\ IsMidway(st, n) /\ Len(st.out) <= k
          /\ Len(st.out) = k \/ st.queue = <<>>
          /\ \E l : IsLine(ds, before, n, k, l)
      BY <1>2 DEF Rolling
    <2>3. PICK l : IsLine(ds, before, n, k, l)
      BY <2>2
    <2>4. t = EmitFirst(ds, before, st)
      BY <2>1, RoundsFollow
    <2>5. Len(st.out) \in Nat
      BY <2>2, MidwayHas, SeqIs
    <2>6. CASE st.queue = <<>>
      <3>1. t = st
        BY <2>2, <2>4, <2>6, EmitFirstIs
      <3>2. IsLine(ds, before, n, k + 1, l)
        BY <2>3, <3>1 DEF IsLine
      <3> HIDE DEF st, t
      <3>3. IsMidway(t, n) /\ Len(t.out) <= k + 1 /\ t.queue = <<>>
        BY <2>2, <2>5, <2>6, <3>1
      <3> QED
        BY <3>2, <3>3 DEF Rolling, t
    <2>7. CASE st.queue # <<>>
      <3> DEFINE chunk == InLine(ds, Ready(before, n, st))
      <3>1. IsMidway(t, n) /\ Moved(st, t, chunk) /\ IsLine(ds, before, n, k + 1, l \o chunk)
        BY <2>1, <2>2, <2>3, <2>7, NextRound
      <3> HIDE DEF chunk, st, t
      <3>2. Len(t.out) = k + 1
        BY <2>2, <2>7, <3>1 DEF Moved
      <3> QED
        BY <3>1, <3>2 DEF Rolling, t
    <2> QED
      BY <2>6, <2>7
  <1> HIDE DEF T
  <1>3. \A k \in Nat : k \in T
    BY <1>1, <1>2, ByInduction
  <1> QED
    BY <1>3 DEF T

\* A sequence that has nothing twice, of as many places as there are, has all.
LEMMA HasAll ==
    ASSUME NEW n \in Nat, NEW s, IsSeq(s, 1 .. n), Once(s)
    PROVE  Len(s) <= n /\ (Len(s) = n => \A j \in 1 .. n : Has(s, j))
  <1> DEFINE m == Len(s)
  <1>1. m \in Nat /\ DOMAIN s = 1 .. m /\ s \in Seq(1 .. n) /\ \A i \in 1 .. m : s[i] \in 1 .. n
    BY SeqIs DEF IsSeq
  <1>2. s \in Injection(1 .. m, 1 .. n)
    <2>1. s \in [1 .. m -> 1 .. n]
      BY <1>1
    <2>2. \A i, j \in DOMAIN s : s[i] = s[j] => i = j
      BY <1>1 DEF Once
    <2> QED
      BY <2>1, <2>2 DEF Injection, IsInjective
  <1>3. 1 \in Int /\ m \in Int /\ n \in Int
    BY <1>1
  <1>4. /\ IsFiniteSet(1 .. m) /\ Cardinality(1 .. m) = IF 1 > m THEN 0 ELSE m - 1 + 1
    BY ONLY <1>3, FS_Interval
  <1>5. /\ IsFiniteSet(1 .. n) /\ Cardinality(1 .. n) = IF 1 > n THEN 0 ELSE n - 1 + 1
    BY ONLY <1>3, FS_Interval
  <1>6. Cardinality(1 .. m) = m /\ Cardinality(1 .. n) = n
    BY <1>1, <1>4, <1>5
  <1> HIDE DEF m
  <1>7. /\ Cardinality(1 .. m) <= Cardinality(1 .. n)
        /\ Cardinality(1 .. m) = Cardinality(1 .. n) <=> s \in Surjection(1 .. m, 1 .. n)
    BY <1>2, <1>5, FS_Injection
  <1>8. ASSUME m = n, NEW j \in 1 .. n PROVE Has(s, j)
    BY <1>6, <1>7, <1>8 DEF Surjection, Has, m
  <1> QED
    BY <1>6, <1>7, <1>8 DEF m

\* What topological_sort returns, or has emitted when it raises.
LEMMA SortedHas ==
    ASSUME NEW n \in Nat, NEW ds, Keyed(ds, n), NEW before
    PROVE  LET out == Sorted(ds, before)
           IN  /\ IsSeq(out, 1 .. n) /\ Once(out) /\ Led(before, out)
               /\ Len(out) \in 0 .. n
               /\ Len(out) = n => \A j \in 1 .. n : Has(out, j)
               /\ Len(out) < n => \A j \in 1 .. n : Has(out, j) <=> Met(before, out, j)
  <1> DEFINE st == After(ds, before, n)
  <1>1. Sorted(ds, before) = st.out
    BY SortedIs DEF Keyed
  <1>2. Rolling(ds, before, n, n)
    BY RollsOn
  <1>3. PICK l : Stands(st, l) /\ LineInv(before, n, st, l)
    BY <1>2 DEF Rolling, IsLine
  <1>4. IsMidway(st, n) /\ (Len(st.out) = n \/ st.queue = <<>>)
    BY <1>2 DEF Rolling
  <1> HIDE DEF st
  <1>5. /\ IsSeq(st.out, 1 .. n) /\ Len(st.out) \in Nat
        /\ IsSeq(l, 1 .. n) /\ Len(l) \in Nat
    BY <1>3, <1>4, MidwayHas, SeqIs DEF LineInv
  <1> DEFINE o == Len(st.out)
             m == Len(l)
  <1>10. /\ o <= m /\ Len(st.queue) = m - o
         /\ \A i \in 1 .. o : l[i] = st.out[i]
    BY <1>3 DEF Stands
  <1>11. o \in Nat /\ m \in Nat
    BY <1>5
  <1> HIDE DEF o, m
  <1>6. Once(st.out)
    <2>1. \A i \in 1 .. o : i \in 1 .. m /\ l[i] = st.out[i]
      <3> TAKE i \in 1 .. o
      <3>1. i \in 1 .. m
        BY <1>10, <1>11
      <3> QED
        BY <1>10, <3>1
    <2>2. Once(l)
      BY <1>3 DEF LineInv
    <2> QED
      BY <2>1, <2>2 DEF Once, o, m
  <1>7. Len(st.out) <= n /\ (Len(st.out) = n => \A j \in 1 .. n : Has(st.out, j))
    BY <1>5, <1>6, HasAll
  <1>8. ASSUME Len(st.out) < n
        PROVE  \A j \in 1 .. n : Has(st.out, j) <=> Met(before, st.out, j)
    <2>1. st.queue = <<>>
      <3>1. o # n
        BY <1>8, <1>11 DEF o
      <3> QED
        BY <1>4, <3>1 DEF o
    <2>4. Len(st.queue) = 0
      BY <2>1
    <2>5. o = m
      BY <1>10, <1>11, <2>4
    <2>2. Len(l) = Len(st.out) /\ \A i \in 1 .. Len(l) : l[i] = st.out[i]
      BY <1>10, <2>5 DEF o, m
    <2>3. \A j : Has(l, j) <=> Has(st.out, j)
      BY <2>2 DEF Has
    <2> QED
      BY <1>3, <2>3 DEF LineInv
  <1>9. Led(before, st.out)
    BY <1>3 DEF LineInv
  <1> QED
    BY <1>1, <1>5, <1>6, <1>7, <1>8, <1>9

\* When all are emitted, each round emits one, and what stands in the line at
\* any time is the beginning of the order.
LEMMA AllEmitted ==
    ASSUME NEW n \in Nat, NEW ds, Keyed(ds, n), NEW before, Len(Sorted(ds, before)) = n
    PROVE  \A k \in 0 .. n :
               /\ Len(After(ds, before, k).out) = k
               /\ \A l : IsLine(ds, before, n, k, l) => Begins(l, Sorted(ds, before))
  <1> DEFINE o == Sorted(ds, before)
             st(k) == After(ds, before, k)
             Good(k) == /\ Len(st(k).out) = k
                        /\ \A l : IsLine(ds, before, n, k, l) => Begins(l, o)
             T == {j \in Nat : j <= n => Good(n - j)}
  <1>1. \A k \in 0 .. n : Rolling(ds, before, n, k)
    BY RollsOn
  <1>2. o = st(n).out
    BY SortedIs DEF Keyed
  <1> HIDE DEF o
  <1>3. 0 \in T
    <2>1. Len(st(n).out) = n
      BY <1>2 DEF o
    <2>2. ASSUME NEW l, IsLine(ds, before, n, n, l) PROVE Begins(l, o)
      <3>1. IsSeq(l, 1 .. n) /\ Once(l) /\ Stands(st(n), l)
        BY <2>2 DEF IsLine, LineInv
      <3> DEFINE x == st(n)
      <3> HIDE DEF st
      <3>2. Len(l) \in Nat /\ Len(l) <= n
        BY <3>1, HasAll, SeqIs
      <3>3. n <= Len(l) /\ \A i \in 1 .. n : l[i] = o[i]
        BY <1>2, <2>1, <3>1 DEF Stands
      <3>4. Len(l) = n /\ Len(o) = n
        BY <1>2, <2>1, <3>2, <3>3
      <3> QED
        BY <3>3, <3>4 DEF Begins
    <2>3. n - 0 = n /\ 0 \in Nat
      OBVIOUS
    <2> HIDE DEF st
    <2> QED
      BY <2>1, <2>2, <2>3
  <1>4. ASSUME NEW j \in Nat, j \in T PROVE j + 1 \in T
    <2> SUFFICES ASSUME j + 1 <= n PROVE Good(n - (j + 1))
      OBVIOUS
    <2> DEFINE k == n - (j + 1)
    <2>1. k \in 0 .. n - 1 /\ k \in 0 .. n /\ k + 1 = n - j /\ k + 1 \in 1 .. n /\ (k + 1) - 1 = k
      OBVIOUS
    <2> HIDE DEF k
    <2>2. Good(k + 1)
      BY <1>4, <2>1
    <2>3. st(k + 1) = EmitFirst(ds, before, st(k))
      BY <2>1, RoundsFollow
    <2>4. IsMidway(st(k), n) /\ Len(st(k).out) <= k
      BY <1>1, <2>1 DEF Rolling
    <2>5. Len(st(k).out) \in Nat
      BY <2>4, MidwayHas, SeqIs
    <2>6. st(k).queue # <<>>
      <3> SUFFICES ASSUME st(k).queue = <<>> PROVE FALSE
        OBVIOUS
      <3>1. st(k + 1) = st(k)
        BY <2>3, <2>4, EmitFirstIs
      <3> HIDE DEF st
      <3> QED
        BY <2>1, <2>2, <2>4, <2>5, <3>1
    <2> DEFINE chunk == InLine(ds, Ready(before, n, st(k)))
    <2>7. ASSUME NEW l, IsLine(ds, before, n, k, l)
          PROVE  /\ Moved(st(k), st(k + 1), chunk)
                 /\ IsJoin(l \o chunk, l, chunk)
                 /\ IsLine(ds, before, n, k + 1, l \o chunk)
      BY <2>1, <2>4, <2>6, <2>7, NextRound
    <2> HIDE DEF chunk, st
    <2>8. PICK l : IsLine(ds, before, n, k, l)
      BY <1>1, <2>1 DEF Rolling
    <2>9. Len(st(k).out) = k
      <3>1. Moved(st(k), st(k + 1), chunk)
        BY <2>7, <2>8
      <3>2. Len(st(k + 1).out) = Len(st(k).out) + 1
        BY <3>1 DEF Moved
      <3> QED
        BY <2>1, <2>2, <2>5, <3>2
    <2>10. ASSUME NEW m, IsLine(ds, before, n, k, m) PROVE Begins(m, o)
      <3>1. IsJoin(m \o chunk, m, chunk) /\ Begins(m \o chunk, o)
        BY <2>2, <2>7, <2>10
      <3> DEFINE u == m \o chunk
      <3> HIDE DEF u
      <3>2. /\ Len(m) \in Nat /\ Len(chunk) \in Nat /\ Len(u) = Len(m) + Len(chunk)
            /\ \A i \in 1 .. Len(m) : u[i] = m[i]
            /\ Len(u) <= Len(o) /\ \A i \in 1 .. Len(u) : o[i] = u[i]
        BY <3>1 DEF u, IsJoin, Begins
      <3>3. Len(o) \in Nat
        BY DEF o
      <3> QED
        BY <3>2, <3>3 DEF Begins
    <2> QED
      BY <2>9, <2>10 DEF k
  <1> HIDE DEF T
  <1>5. \A j \in Nat : j \in T
    BY <1>3, <1>4, ByInduction
  <1>6. ASSUME NEW k \in 0 .. n PROVE Good(k)
    <2> DEFINE j == n - k
    <2>1. j \in Nat /\ j <= n /\ n - j = k
      OBVIOUS
    <2> HIDE DEF j, Good
    <2>2. Good(n - j)
      BY <1>5, <2>1 DEF T
    <2> QED
      BY <2>1, <2>2
  <1> QED
    BY <1>6 DEF o

-----------------------------------------------------------------------------
\* A second run, over the deltas in order.

\* What grows and has the places from a + 1 to b has them one after the other.
LEMMA Straight ==
    ASSUME NEW a \in Nat, NEW b \in Nat, a <= b, NEW q, Len(q) \in Nat,
           \A i, j \in 1 .. Len(q) : i < j => q[i] < q[j],
           \A i \in 1 .. Len(q) : q[i] \in a + 1 .. b,
           \A x \in a + 1 .. b : Has(q, x)
    PROVE  Len(q) = b - a /\ \A i \in 1 .. b - a : q[i] = a + i
  <1> DEFINE m == Len(q)
             T == {i \in Nat : i <= b - a => i <= m /\ (i > 0 => q[i] = a + i)}
  <1>0. /\ m \in Nat
        /\ \A i, j \in 1 .. m : i < j => q[i] < q[j]
        /\ \A i \in 1 .. m : q[i] \in a + 1 .. b
        /\ \A x \in a + 1 .. b : \E i \in 1 .. m : q[i] = x
    BY DEF Has
  <1> HIDE DEF m
  <1>1. 0 \in T
    BY <1>0
  <1>2. ASSUME NEW i \in Nat, i \in T PROVE i + 1 \in T
    <2> SUFFICES ASSUME i + 1 <= b - a PROVE i + 1 <= m /\ q[i + 1] = a + (i + 1)
      OBVIOUS
    <2>1. i <= m /\ (i > 0 => q[i] = a + i)
      BY <1>2
    <2>2. a + (i + 1) \in a + 1 .. b
      OBVIOUS
    <2>3. PICK j \in 1 .. m : q[j] = a + (i + 1)
      BY <1>0, <2>2
    <2>4. j > i
      <3> SUFFICES ASSUME j <= i PROVE FALSE
        BY <1>0
      <3>1. i \in 1 .. m /\ i > 0
        BY <1>0, <2>1
      <3>2. q[i] = a + i
        BY <2>1, <3>1
      <3>3. j = i \/ j < i
        BY <1>0
      <3>4. j < i => q[j] < q[i]
        BY <1>0, <3>1
      <3> QED
        BY <2>3, <3>2, <3>3, <3>4
    <2>5. i + 1 \in 1 .. m
      BY <1>0, <2>4
    <2>6. q[i + 1] \in Int
      BY <1>0, <2>5
    <2>7. q[i + 1] <= a + (i + 1)
      <3>1. j = i + 1 \/ i + 1 < j
        BY <1>0, <2>4
      <3>2. i + 1 < j => q[i + 1] < q[j]
        BY <1>0, <2>5
      <3> QED
        BY <2>3, <2>6, <3>1, <3>2
    <2>8. q[i + 1] >= a + (i + 1)
      <3>1. CASE i = 0
        <4>1. q[i + 1] \in a + 1 .. b
          BY <1>0, <2>5
        <4> QED
          BY <3>1, <4>1
      <3>2. CASE i > 0
        <4>1. i \in 1 .. m /\ q[i] = a + i /\ i < i + 1
          BY <1>0, <2>1, <3>2
        <4>2. q[i] < q[i + 1]
          BY <1>0, <2>5, <4>1
        <4> QED
          BY <2>6, <4>1, <4>2
      <3> QED
        BY <3>1, <3>2
    <2> QED
      BY <2>5, <2>6, <2>7, <2>8
  <1>3. \A i \in Nat : i \in T
    <2> HIDE DEF T
    <2> QED
      BY <1>1, <1>2, ByInduction
  <1>4. b - a \in Nat /\ b - a <= m
    <2>1. b - a \in Nat
      OBVIOUS
    <2> QED
      BY <1>3, <2>1
  <1>5. \A i \in 1 .. b - a : q[i] = a + i
    <2> TAKE i \in 1 .. b - a
    <2>1. i \in Nat /\ i > 0 /\ i <= b - a
      OBVIOUS
    <2> QED
      BY <1>3, <2>1
  <1>6. ~(m > b - a)
    <2> SUFFICES ASSUME m > b - a PROVE FALSE
      OBVIOUS
    <2> DEFINE c == b - a
    <2>0. c \in Nat /\ b = a + c
      OBVIOUS
    <2> HIDE DEF c
    <2>1. c + 1 \in 1 .. m
      BY <1>0, <2>0 DEF c
    <2>2. q[c + 1] \in a + 1 .. b
      BY <1>0, <2>1
    <2>3. CASE c = 0
      BY <2>0, <2>2, <2>3
    <2>4. CASE c > 0
      <3>1. c \in 1 .. m /\ c \in 1 .. b - a /\ c < c + 1
        BY <1>0, <2>0, <2>1, <2>4
      <3>2. q[c] = a + c /\ q[c] < q[c + 1]
        BY <1>0, <1>5, <2>1, <3>1
      <3> QED
        BY <2>0, <2>2, <3>2
    <2> QED
      BY <2>0, <2>3, <2>4
  <1>7. m = b - a
    BY <1>0, <1>4, <1>6
  <1> QED
    BY <1>5, <1>7 DEF m

\* The deltas ds, put in the order o.
Reordered(ds, o, n, ds2) == Keyed(ds2, n) /\ \A i \in 1 .. n : ds2[i] = ds[o[i]]

\* o has each of the n places once.
IsPlacing(o, n) == IsSeq(o, 1 .. n) /\ Len(o) = n /\ Once(o) /\ \A j \in 1 .. n : Has(o, j)

\* The prerequisites move along with the deltas.
Carried(before, o, n, before2) ==
    \A j \in 1 .. n :
        /\ before[j] \subseteq 1 .. n /\ before2[j] \subseteq 1 .. n
        /\ \A i \in 1 .. n : i \in before2[j] <=> o[i] \in before[o[j]]

\* c is what stands in the order from a + 1 to b, the lower ones first.
StoodAt(ds, o, a, b, c) ==
    /\ Len(c) = b - a
    /\ \A i \in 1 .. b - a : c[i] = o[a + i]
    /\ \A i, j \in 1 .. b - a : i < j => Lower(ds, c[i], c[j])

\* What got ready together stood in the order by its names and, where they tie,
\* by its places: ordered once more it stands as it stood.
LEMMA StandsAsItStood ==
    ASSUME NEW n \in Nat, NEW ds, Keyed(ds, n), NEW o, IsPlacing(o, n),
           NEW ds2, Reordered(ds, o, n, ds2),
           NEW a \in Nat, NEW b \in Nat, a <= b, b <= n,
           NEW c, StoodAt(ds, o, a, b, c), NEW q, Ascends(ds2, q, a + 1 .. b)
    PROVE  Len(q) = b - a /\ \A i \in 1 .. b - a : q[i] = a + i
  <1> DEFINE S == a + 1 .. b
  <1>1. S \in SUBSET (1 .. n) /\ S \in SUBSET Int
    OBVIOUS
  <1>2. Keyed(ds2, n)
    BY DEF Reordered
  <1>3. ASSUME NEW i \in S, NEW j \in S, i < j PROVE Lower(ds2, i, j)
    <2> DEFINE k == i - a
               l == j - a
    <2>1. k \in 1 .. b - a /\ l \in 1 .. b - a /\ k < l /\ i = a + k /\ j = a + l
      BY <1>3
    <2> HIDE DEF k, l
    <2>2. Lower(ds, o[i], o[j])
      BY <2>1 DEF StoodAt
    <2>3. sort_key(ds2[i]) = sort_key(ds[o[i]]) /\ sort_key(ds2[j]) = sort_key(ds[o[j]])
      BY <1>1 DEF Reordered
    <2>4. \/ Below(sort_key(ds[o[i]]), sort_key(ds[o[j]]))
          \/ sort_key(ds[o[i]]) = sort_key(ds[o[j]])
      BY <2>2, Zenon DEF Lower
    <2>5. \/ Below(sort_key(ds2[i]), sort_key(ds2[j]))
          \/ sort_key(ds2[i]) = sort_key(ds2[j]) /\ i < j
      BY <1>3, <2>3, <2>4
    <2> QED
      BY <2>5, Zenon DEF Lower
  <1> HIDE DEF S
  <1>4. /\ Len(q) \in Nat
        /\ \A i \in 1 .. Len(q) : q[i] \in S
    <2>1. Ascends(ds2, q, S)
      BY DEF S
    <2> QED
      BY <1>1, <1>2, <2>1, AscendsOnce
  <1>5. /\ \A x \in S : Has(q, x)
        /\ \A i, j \in 1 .. Len(q) : i < j => Lower(ds2, q[i], q[j])
    BY DEF Ascends, Has, S
  <1>6. \A i, j \in S : Lower(ds2, i, j) => ~Lower(ds2, j, i)
    <2>1. \A i \in S : sort_key(ds2[i]) \in Words
      BY <1>1, <1>2 DEF Keyed
    <2> QED
      BY <1>1, <2>1, LowerIsTotalOrder
  <1>7. ASSUME NEW i \in 1 .. Len(q), NEW j \in 1 .. Len(q), i < j PROVE q[i] < q[j]
    <2>1. q[i] \in S /\ q[j] \in S
      BY <1>4
    <2>2. Lower(ds2, q[i], q[j])
      BY <1>5, <1>7
    <2>3. q[i] # q[j] /\ ~(q[j] < q[i])
      BY <1>3, <1>6, <2>1, <2>2
    <2>4. q[i] \in Int /\ q[j] \in Int
      BY <1>1, <2>1
    <2> QED
      BY <2>3, <2>4
  <1> QED
    BY <1>4, <1>5, <1>7, Straight DEF S

\* What a sequence is a beginning of the order has.
LEMMA BeginsPlacing ==
    ASSUME NEW n \in Nat, NEW o, IsPlacing(o, n), NEW l, IsSeq(l, 1 .. n), Begins(l, o)
    PROVE  /\ Len(l) \in 0 .. n
           /\ \A i \in 1 .. Len(l) : l[i] = o[i]
           /\ \A i \in 1 .. n : Has(l, o[i]) <=> i <= Len(l)
  <1>1. Len(l) \in Nat /\ Len(l) <= n /\ \A i \in 1 .. Len(l) : l[i] = o[i]
    BY SeqIs DEF Begins, IsPlacing
  <1>2. \A i, j \in 1 .. n : o[i] = o[j] => i = j
    BY DEF IsPlacing, Once
  <1> DEFINE m == Len(l)
  <1>3. \A x : Has(l, x) <=> \E i \in 1 .. m : l[i] = x
    BY DEF Has
  <1>4. m \in Nat /\ m <= n /\ \A i \in 1 .. m : l[i] = o[i] /\ i \in 1 .. n
    BY <1>1
  <1> HIDE DEF m
  <1>5. \A i \in 1 .. n : Has(l, o[i]) <=> i <= m
    <2> TAKE i \in 1 .. n
    <2>1. i <= m => i \in 1 .. m
      BY <1>4
    <2>2. i <= m => Has(l, o[i])
      BY <1>3, <1>4, <2>1
    <2>3. ASSUME Has(l, o[i]) PROVE i <= m
      <3>1. PICK j \in 1 .. m : l[j] = o[i]
        BY <1>3, <2>3
      <3>2. j = i
        BY <1>2, <1>4, <3>1
      <3> QED
        BY <1>4, <3>2
    <2> QED
      BY <2>2, <2>3
  <1> QED
    BY <1>1, <1>5 DEF m

LEMMA EmittedIs ==
    ASSUME NEW S, NEW s, IsSeq(s, S), NEW x \in S
    PROVE  \A y : y \in Range(Append(s, x)) <=> Has(s, y) \/ y = x
  <1> DEFINE a == Append(s, x)
             k == Len(s)
  <1>1. /\ IsSeq(a, S) /\ k \in Nat /\ Len(a) = k + 1
        /\ \A i \in 1 .. k : a[i] = s[i]
        /\ a[k + 1] = x
    BY Appended
  <1>2. DOMAIN a = 1 .. k + 1
    <2> HIDE DEF a
    <2> QED
      BY <1>1, SeqIs
  <1> HIDE DEF a
  <1>3. \A y : Has(s, y) <=> \E i \in 1 .. k : s[i] = y
    BY DEF Has
  <1> HIDE DEF k
  <1>4. \A y : y \in Range(a) <=> \E i \in 1 .. k + 1 : a[i] = y
    BY <1>2 DEF Range
  <1>5. \A i : i \in 1 .. k + 1 <=> i \in 1 .. k \/ i = k + 1
    BY <1>1
  <1>6. \A y : y \in Range(a) <=> Has(s, y) \/ y = x
    BY <1>1, <1>3, <1>4, <1>5
  <1> QED
    BY <1>6 DEF a

\* The second run after k rounds: the first k places went out in their order,
\* and those wait that waited in the first run.
Resumed(ds, before, ds2, before2, n, k) ==
    \E l, l2 :
        /\ IsLine(ds, before, n, k, l) /\ IsLine(ds2, before2, n, k, l2)
        /\ IsMidway(After(ds2, before2, k), n)
        /\ Len(After(ds2, before2, k).out) = k
        /\ Len(l2) = Len(l)
        /\ \A i \in 1 .. Len(l) : l2[i] = i

LEMMA FirstResumed ==
    ASSUME NEW n \in Nat, NEW ds, Keyed(ds, n), NEW before, NEW ds2, NEW before2,
           NEW o, o = Sorted(ds, before), IsPlacing(o, n),
           Reordered(ds, o, n, ds2), Carried(before, o, n, before2)
    PROVE  Resumed(ds, before, ds2, before2, n, 0)
  <1> DEFINE s == Start(ds, before)
             t == Start(ds2, before2)
             l == s.queue
             l2 == t.queue
             S == {j \in 1 .. n : before[j] = {}}
             S2 == {j \in 1 .. n : before2[j] = {}}
  <1>1. Keyed(ds2, n)
    BY DEF Reordered
  <1>2. Ascends(ds, l, S) /\ Ascends(ds2, l2, S2)
    <2>1. Ascends(ds, l, S)
      BY StartIs
    <2>2. Ascends(ds2, l2, S2)
      BY <1>1, StartIs
    <2> QED
      BY <2>1, <2>2
  <1>3. IsMidway(s, n) /\ IsMidway(t, n) /\ t.out = <<>>
    BY <1>1, StartIs
  <1>4. s = After(ds, before, 0) /\ t = After(ds2, before2, 0)
    BY <1>1, RoundsFollow
  <1>5. IsLine(ds, before, n, 0, l) /\ IsLine(ds2, before2, n, 0, l2)
    BY <1>1, <1>4, LineStarts DEF IsLine
  <1>6. Begins(l, o) /\ IsSeq(l, 1 .. n)
    <2>1. Len(Sorted(ds, before)) = n /\ 0 \in 0 .. n
      BY DEF IsPlacing
    <2>2. Begins(l, o)
      BY <1>5, <2>1, AllEmitted
    <2> QED
      BY <1>5, <2>2 DEF IsLine, LineInv
  <1> DEFINE m == Len(l)
  <1>7. /\ m \in 0 .. n
        /\ \A i \in 1 .. m : l[i] = o[i]
        /\ \A i \in 1 .. n : Has(l, o[i]) <=> i <= m
    <2> HIDE DEF l
    <2> QED
      BY <1>6, BeginsPlacing
  <1>8. S2 = 0 + 1 .. m
    <2>1. \A j \in 1 .. n : before2[j] = {} <=> before[o[j]] = {}
      <3> TAKE j \in 1 .. n
      <3>1. o[j] \in 1 .. n
        BY SeqIs DEF IsPlacing
      <3>2. \A x \in 1 .. n : \E i \in 1 .. n : o[i] = x
        BY DEF IsPlacing, Has
      <3> QED
        BY <3>1, <3>2 DEF Carried
    <2>2. \A x \in 1 .. n : Has(l, x) <=> before[x] = {}
      <3>1. S \in SUBSET (1 .. n)
        OBVIOUS
      <3> HIDE DEF l, S
      <3>2. /\ \A i \in 1 .. Len(l) : l[i] \in S
            /\ \A x \in S : \E i \in 1 .. Len(l) : l[i] = x
        BY <1>2, <3>1, AscendsOnce DEF Ascends
      <3>3. \A x : Has(l, x) <=> x \in S
        BY <3>2 DEF Has
      <3> QED
        BY <3>3 DEF S
    <2>3. \A j \in 1 .. n : o[j] \in 1 .. n
      BY SeqIs DEF IsPlacing
    <2> HIDE DEF l
    <2>4. \A j \in 1 .. n : before2[j] = {} <=> j <= m
      BY <1>7, <2>1, <2>2, <2>3
    <2> HIDE DEF m
    <2>5. S2 = {j \in 1 .. n : j <= m}
      BY <2>4
    <2>6. {j \in 1 .. n : j <= m} = 0 + 1 .. m
      BY <1>7
    <2> QED
      BY <2>5, <2>6
  <1>9. \A i, j \in 1 .. m : i < j => Lower(ds, l[i], l[j])
    BY <1>2 DEF Ascends
  <1>10. Len(l2) = m /\ \A i \in 1 .. m : l2[i] = i
    <2> DEFINE z == 0
    <2>1. Ascends(ds2, l2, z + 1 .. m)
      BY <1>2, <1>8
    <2> HIDE DEF l, l2, S, S2
    <2>2. z \in Nat /\ z <= m /\ m <= n /\ m \in Nat /\ m - z = m /\ Len(l) = m - z
      BY <1>7
    <2>3. /\ \A i \in 1 .. m - z : l[i] = o[z + i]
          /\ \A i, j \in 1 .. m - z : i < j => Lower(ds, l[i], l[j])
      BY <1>7, <1>9, <2>2
    <2>4. \A i \in 1 .. m : z + i = i
      OBVIOUS
    <2> HIDE DEF m, z
    <2>6. StoodAt(ds, o, z, m, l)
      BY <2>2, <2>3 DEF StoodAt
    <2>5. Len(l2) = m - z /\ \A i \in 1 .. m - z : l2[i] = z + i
      BY <2>1, <2>2, <2>6, StandsAsItStood
    <2> QED
      BY <2>2, <2>4, <2>5
  <1>11. Len(t.out) = 0
    BY <1>3
  <1> HIDE DEF l, l2, s, t
  <1> QED
    BY <1>3, <1>4, <1>5, <1>10, <1>11 DEF Resumed

LEMMA NextResumed ==
    ASSUME NEW n \in Nat, NEW ds, Keyed(ds, n), NEW before, NEW ds2, NEW before2,
           NEW o, o = Sorted(ds, before), IsPlacing(o, n),
           Reordered(ds, o, n, ds2), Carried(before, o, n, before2),
           NEW k \in 0 .. n - 1, Resumed(ds, before, ds2, before2, n, k)
    PROVE  Resumed(ds, before, ds2, before2, n, k + 1)
  <1> DEFINE st == After(ds, before, k)
             t == After(ds2, before2, k)
             t9 == After(ds2, before2, k + 1)
             R == Ready(before, n, st)
             R2 == Ready(before2, n, t)
             c == InLine(ds, R)
             c2 == InLine(ds2, R2)
  <1>1. Keyed(ds2, n)
    BY DEF Reordered
  <1>2. PICK l, l2 :
            /\ IsLine(ds, before, n, k, l) /\ IsLine(ds2, before2, n, k, l2)
            /\ IsMidway(t, n) /\ Len(t.out) = k /\ Len(l2) = Len(l)
            /\ \A i \in 1 .. Len(l) : l2[i] = i
    BY DEF Resumed
  <1>3. /\ k \in 0 .. n /\ k + 1 \in 0 .. n /\ k + 1 \in 1 .. n /\ (k + 1) - 1 = k
        /\ Len(Sorted(ds, before)) = n
    BY DEF IsPlacing
  <1>4. Len(st.out) = k /\ Begins(l, o)
    BY <1>2, <1>3, AllEmitted
  <1>5. IsMidway(st, n)
    BY <1>3, RollsOn DEF Rolling
  <1>6. st.queue # <<>>
    <2> SUFFICES ASSUME st.queue = <<>> PROVE FALSE
      OBVIOUS
    <2>3. After(ds, before, k + 1) = EmitFirst(ds, before, st)
      BY <1>3, RoundsFollow
    <2>1. After(ds, before, k + 1) = st
      <3> HIDE DEF st
      <3> QED
        BY <1>5, <2>3, EmitFirstIs
    <2>2. Len(After(ds, before, k + 1).out) = k + 1
      BY <1>3, AllEmitted
    <2> HIDE DEF st
    <2> QED
      BY <1>4, <2>1, <2>2
  <1>7. /\ Stands(st, l) /\ IsSeq(l, 1 .. n) /\ Stands(t, l2) /\ IsSeq(l2, 1 .. n)
    BY <1>2 DEF IsLine, LineInv
  <1>8. /\ IsSeq(st.out, 1 .. n) /\ IsSeq(st.queue, 1 .. n)
        /\ IsSeq(t.out, 1 .. n) /\ IsSeq(t.queue, 1 .. n)
    BY <1>2, <1>5, MidwayHas
  <1> DEFINE m == Len(l)
             l9 == l \o c
             m9 == Len(l9)
             l29 == l2 \o c2
  <1>9. /\ m \in 0 .. n /\ \A i \in 1 .. m : l[i] = o[i]
    BY <1>4, <1>7, BeginsPlacing
  <1>10. m >= k + 1
    <2>1. Len(st.queue) \in Nat /\ Len(st.queue) # 0
      BY <1>6, <1>8, SeqIs, EmptySeq DEF IsSeq
    <2>2. Len(st.queue) = m - k
      BY <1>4, <1>7 DEF Stands
    <2> HIDE DEF m, st
    <2> QED
      BY <1>9, <2>1, <2>2
  <1>11. t.queue # <<>>
    <2> SUFFICES ASSUME t.queue = <<>> PROVE FALSE
      OBVIOUS
    <2>1. Len(t.queue) = m - k
      BY <1>2, <1>7 DEF Stands
    <2>2. Len(t.queue) = 0
      OBVIOUS
    <2> HIDE DEF m, t
    <2> QED
      BY <1>9, <1>10, <2>1, <2>2
  <1>12. /\ Ascends(ds, c, R)
         /\ IsJoin(l9, l, c)
         /\ IsLine(ds, before, n, k + 1, l9)
    BY <1>2, <1>5, <1>6, NextRound
  <1>13. /\ IsMidway(t9, n) /\ Moved(t, t9, c2)
         /\ Ascends(ds2, c2, R2)
         /\ IsJoin(l29, l2, c2)
         /\ IsLine(ds2, before2, n, k + 1, l29)
    BY <1>1, <1>2, <1>11, NextRound
  <1> HIDE DEF l9, l29
  <1>14. IsSeq(l9, 1 .. n) /\ Begins(l9, o)
    BY <1>3, <1>12, AllEmitted DEF IsLine, LineInv
  <1>15. m9 \in 0 .. n /\ \A i \in 1 .. m9 : l9[i] = o[i]
    BY <1>14, BeginsPlacing
  <1> HIDE DEF c, c2
  <1>16. /\ Len(c) = m9 - m /\ m <= m9
         /\ \A i \in 1 .. m9 - m : c[i] = o[m + i]
    <2>1. /\ Len(c) \in Nat /\ m9 = m + Len(c)
          /\ \A i \in 1 .. Len(c) : l9[m + i] = c[i]
      BY <1>12 DEF IsJoin
    <2> HIDE DEF m, m9
    <2> QED
      BY <1>9, <1>15, <2>1
  <1>17. StoodAt(ds, o, m, m9, c)
    BY <1>12, <1>16 DEF StoodAt, Ascends
  <1>18. \A x \in 1 .. n : x \in R <=> \E i \in 1 .. m9 - m : o[m + i] = x
    <2>1. R \in SUBSET (1 .. n)
      BY DEF Ready
    <2> HIDE DEF R
    <2>2. /\ \A i \in 1 .. Len(c) : c[i] \in R
          /\ \A x \in R : \E i \in 1 .. Len(c) : c[i] = x
      BY <1>12, <2>1, AscendsOnce DEF Ascends
    <2> HIDE DEF m, m9
    <2> QED
      BY <1>16, <2>2
  <1>19. st.queue[1] = o[k + 1] /\ t.queue[1] = k + 1
    <2>1. /\ Len(st.queue) = m - k /\ \A i \in 1 .. m - k : l[k + i] = st.queue[i]
      BY <1>4, <1>7 DEF Stands
    <2>2. /\ \A i \in 1 .. m - k : l2[k + i] = t.queue[i]
      BY <1>2, <1>7 DEF Stands
    <2>3. 1 \in 1 .. m - k /\ k + 1 \in 1 .. m
      BY <1>9, <1>10
    <2>4. l[k + 1] = o[k + 1] /\ l2[k + 1] = k + 1
      BY <1>2, <1>9, <2>3
    <2> HIDE DEF m, st, t
    <2> QED
      BY <2>1, <2>2, <2>3, <2>4
  <1>20. \A i \in 1 .. n : Has(st.out, o[i]) <=> i <= k
    <2>1. Begins(st.out, o)
      <3>1. k <= m /\ \A i \in 1 .. k : l[i] = st.out[i]
        BY <1>4, <1>7 DEF Stands
      <3>2. Len(o) = n
        BY DEF IsPlacing
      <3> HIDE DEF m, st
      <3>3. \A i \in 1 .. k : o[i] = st.out[i]
        BY <1>9, <3>1
      <3> QED
        BY <1>3, <1>4, <3>2, <3>3 DEF Begins
    <2> HIDE DEF st
    <2> QED
      BY <1>4, <1>8, <2>1, BeginsPlacing
  <1>21. \A i \in 1 .. n : Has(t.out, i) <=> i <= k
    <2>1. \A i \in 1 .. k : l2[i] = t.out[i]
      BY <1>2, <1>7 DEF Stands
    <2> HIDE DEF t
    <2>2. \A i \in 1 .. k : i \in 1 .. m /\ t.out[i] = i
      BY <1>2, <1>9, <1>10, <2>1
    <2> QED
      BY <1>2, <2>2 DEF Has
  <1>22. \A i \in 1 .. n : o[i] \in 1 .. n
    BY SeqIs DEF IsPlacing
  <1>23. \A x \in 1 .. n : \E i \in 1 .. n : o[i] = x
    BY DEF IsPlacing, Has
  <1>24. \A i, j \in 1 .. n : o[i] = o[j] => i = j
    BY DEF IsPlacing, Once
  <1>25. \A i \in 1 .. n : o[i] \in Range(Append(st.out, st.queue[1])) <=> i <= k + 1
    <2>1. \A y : y \in Range(Append(st.out, o[k + 1])) <=> Has(st.out, y) \/ y = o[k + 1]
      BY <1>3, <1>8, <1>22, EmittedIs
    <2> HIDE DEF st
    <2>2. \A i \in 1 .. n : o[i] = o[k + 1] <=> i = k + 1
      BY <1>3, <1>24
    <2>3. \A i \in 1 .. n : i <= k + 1 <=> i <= k \/ i = k + 1
      OBVIOUS
    <2> QED
      BY <1>19, <1>20, <2>1, <2>2, <2>3
  <1>26. \A i \in 1 .. n : i \in Range(Append(t.out, t.queue[1])) <=> i <= k + 1
    <2>1. \A y : y \in Range(Append(t.out, k + 1)) <=> Has(t.out, y) \/ y = k + 1
      BY <1>3, <1>8, EmittedIs
    <2> HIDE DEF t
    <2>3. \A i \in 1 .. n : i <= k + 1 <=> i <= k \/ i = k + 1
      OBVIOUS
    <2> QED
      BY <1>19, <1>21, <2>1, <2>3
  <1>27. ASSUME NEW j \in 1 .. n PROVE j \in R2 <=> o[j] \in R
    <2>1. j \in R2 <=> /\ k + 1 \in before2[j]
                       /\ \A i \in before2[j] : i \in Range(Append(t.out, t.queue[1]))
      BY <1>19 DEF Ready
    <2>2. o[j] \in R <=> /\ o[k + 1] \in before[o[j]]
                         /\ \A p \in before[o[j]] : p \in Range(Append(st.out, st.queue[1]))
      BY <1>19, <1>22 DEF Ready
    <2>3. /\ before2[j] \subseteq 1 .. n /\ before[o[j]] \subseteq 1 .. n
          /\ \A i \in 1 .. n : i \in before2[j] <=> o[i] \in before[o[j]]
      BY <1>22 DEF Carried
    <2> HIDE DEF R, R2, st, t
    <2>4. (\A i \in before2[j] : i \in Range(Append(t.out, t.queue[1])))
          <=> \A i \in 1 .. n : i \in before2[j] => i <= k + 1
      BY <1>26, <2>3
    <2>5. (\A p \in before[o[j]] : p \in Range(Append(st.out, st.queue[1])))
          <=> \A i \in 1 .. n : o[i] \in before[o[j]] => i <= k + 1
      BY <1>22, <1>23, <1>25, <2>3
    <2> QED
      BY <1>3, <2>1, <2>2, <2>3, <2>4, <2>5
  <1>28. R2 = m + 1 .. m9
    <2>1. R2 \subseteq 1 .. n
      BY DEF Ready
    <2> HIDE DEF R, R2, m, m9
    <2>2. ASSUME NEW j \in 1 .. n PROVE j \in R2 <=> j \in m + 1 .. m9
      <3>1. j \in R2 <=> \E i \in 1 .. m9 - m : o[m + i] = o[j]
        BY <1>18, <1>22, <1>27
      <3>2. \A i \in 1 .. m9 - m : m + i \in 1 .. n
        BY <1>9, <1>15
      <3>3. j \in R2 <=> \E i \in 1 .. m9 - m : m + i = j
        BY <1>24, <3>1, <3>2
      <3>4. j \in m + 1 .. m9 => j - m \in 1 .. m9 - m /\ m + (j - m) = j
        BY <1>9, <1>15
      <3>5. \A i \in 1 .. m9 - m : m + i \in m + 1 .. m9
        BY <1>9, <1>15
      <3> QED
        BY <3>3, <3>4, <3>5
    <2>3. m + 1 .. m9 \subseteq 1 .. n
      BY <1>9, <1>15
    <2> QED
      BY <2>1, <2>2, <2>3
  <1>29. Len(c2) = m9 - m /\ \A i \in 1 .. m9 - m : c2[i] = m + i
    <2>1. Ascends(ds2, c2, m + 1 .. m9)
      BY <1>13, <1>28
    <2>2. m \in Nat /\ m9 \in Nat /\ m <= m9 /\ m9 <= n
      BY <1>9, <1>15, <1>16
    <2> HIDE DEF m, m9
    <2> QED
      BY <1>17, <2>1, <2>2, StandsAsItStood
  <1>30. Len(l29) = m9 /\ \A i \in 1 .. m9 : l29[i] = i
    <2>1. /\ Len(l2) = m /\ Len(l29) = m + Len(c2)
          /\ \A i \in 1 .. m : l29[i] = l2[i]
          /\ \A i \in 1 .. Len(c2) : l29[m + i] = c2[i]
      BY <1>2, <1>13 DEF IsJoin
    <2>2. \A i \in 1 .. m : l2[i] = i
      BY <1>2
    <2> HIDE DEF m, m9
    <2>3. Len(l29) = m9
      BY <1>9, <1>15, <1>29, <2>1
    <2>4. ASSUME NEW i \in 1 .. m9 PROVE l29[i] = i
      <3>1. CASE i <= m
        BY <1>9, <2>1, <2>2, <3>1
      <3>2. CASE i > m
        <4> DEFINE j == i - m
        <4>1. j \in 1 .. m9 - m /\ i = m + j
          BY <1>9, <1>15, <3>2
        <4> HIDE DEF j
        <4> QED
          BY <1>29, <2>1, <4>1
      <3> QED
        BY <1>9, <1>15, <3>1, <3>2
    <2> QED
      BY <2>3, <2>4
  <1>31. Len(t9.out) = k + 1
    BY <1>2, <1>13 DEF Moved
  <1> HIDE DEF t9
  <1> QED
    BY <1>12, <1>13, <1>30, <1>31 DEF Resumed, t9

\* Ordered once more, what is in order stays as it is.
LEMMA SortedAgain ==
    ASSUME NEW n \in Nat, NEW ds, Keyed(ds, n), NEW before, NEW ds2, NEW before2,
           NEW o, o = Sorted(ds, before), IsPlacing(o, n),
           Reordered(ds, o, n, ds2), Carried(before, o, n, before2)
    PROVE  /\ Len(Sorted(ds2, before2)) = n
           /\ \A i \in 1 .. n : Sorted(ds2, before2)[i] = i
  <1> DEFINE T == {k \in Nat : k <= n => Resumed(ds, before, ds2, before2, n, k)}
  <1>1. 0 \in T
    BY FirstResumed
  <1>2. ASSUME NEW k \in Nat, k \in T PROVE k + 1 \in T
    <2> SUFFICES ASSUME k + 1 <= n PROVE Resumed(ds, before, ds2, before2, n, k + 1)
      OBVIOUS
    <2>1. k \in 0 .. n - 1 /\ Resumed(ds, before, ds2, before2, n, k)
      BY <1>2
    <2> QED
      BY <2>1, NextResumed
  <1>3. n \in T
    <2> HIDE DEF T
    <2> QED
      BY <1>1, <1>2, ByInduction
  <1> DEFINE t == After(ds2, before2, n)
  <1>4. PICK l, l2 :
            /\ IsLine(ds, before, n, n, l) /\ IsLine(ds2, before2, n, n, l2)
            /\ Len(t.out) = n /\ Len(l2) = Len(l)
            /\ \A i \in 1 .. Len(l) : l2[i] = i
    BY <1>3 DEF Resumed
  <1>5. Stands(t, l2)
    BY <1>4 DEF IsLine
  <1>6. Sorted(ds2, before2) = t.out
    BY SortedIs DEF Reordered, Keyed
  <1> HIDE DEF t
  <1> DEFINE m == Len(l2)
  <1>7. IsSeq(l2, 1 .. n) /\ m \in Nat
    <2>1. IsSeq(l2, 1 .. n)
      BY <1>4 DEF IsLine, LineInv
    <2> QED
      BY <2>1, SeqIs
  <1>8. n <= m /\ \A i \in 1 .. n : l2[i] = t.out[i]
    BY <1>4, <1>5 DEF Stands
  <1>9. \A i \in 1 .. m : l2[i] = i
    BY <1>4
  <1> HIDE DEF m
  <1>10. \A i \in 1 .. n : t.out[i] = i
    <2> TAKE i \in 1 .. n
    <2>1. i \in 1 .. m
      BY <1>7, <1>8
    <2> QED
      BY <1>8, <1>9, <2>1
  <1> QED
    BY <1>4, <1>6, <1>10

-----------------------------------------------------------------------------
\* The rules, over the deltas in order.

\* Two additions to one enum.
Alike(ds, i, j) ==
    /\ ds[i].kind = "AddEnumValue" /\ ds[j].kind = "AddEnumValue"
    /\ ds[i].target = ds[j].target

\* The i-th is the last addition to its enum before the j-th.
LastBefore(ds, i, j) ==
    i < j /\ Alike(ds, i, j) /\ \A k \in i + 1 .. j - 1 : ~Alike(ds, i, k)

LEMMA PrerequisitesAre ==
    ASSUME NEW n \in Nat, NEW ds, DOMAIN ds = 1 .. n, NEW j \in 1 .. n
    PROVE  /\ Prerequisites(ds)[j] \subseteq 1 .. n
           /\ \A i \in 1 .. n :
                i \in Prerequisites(ds)[j] <=>
                    i # j /\ (LastBefore(ds, i, j) \/ Precedes(ds[i], ds[j], Range(ds)))
  <1> DEFINE Addition(i) == ds[i].kind = "AddEnumValue"
             Follows1(i, k) ==
                /\ i < k /\ Addition(i) /\ Addition(k) /\ ds[i].target = ds[k].target
                /\ \A l \in i + 1 .. k - 1 : ~(Addition(l) /\ ds[l].target = ds[i].target)
             P(i, k) == Precedes(ds[i], ds[k], Range(ds))
  <1>1. ASSUME NEW i \in 1 .. n PROVE Follows1(i, j) <=> LastBefore(ds, i, j)
    BY DEF LastBefore, Alike
  <1>2. Prerequisites(ds) = [k \in DOMAIN ds |-> {i \in DOMAIN ds \ {k} : Follows1(i, k) \/ P(i, k)}]
    BY DEF Prerequisites
  <1> HIDE DEF Follows1, P
  <1>3. Prerequisites(ds)[j] = {i \in (1 .. n) \ {j} : Follows1(i, j) \/ P(i, j)}
    BY <1>2
  <1>4. /\ Prerequisites(ds)[j] \subseteq 1 .. n
        /\ \A i \in 1 .. n : i \in Prerequisites(ds)[j] <=> i # j /\ (LastBefore(ds, i, j) \/ P(i, j))
    BY <1>1, <1>3
  <1> QED
    BY <1>4 DEF P

\* The additions to one enum keep their order.
LEMMA AlikeKeepOrder ==
    ASSUME NEW n \in Nat, NEW ds, DOMAIN ds = 1 .. n,
           NEW o, IsPlacing(o, n), Led(Prerequisites(ds), o)
    PROVE  \A i, j \in 1 .. n : o[i] < o[j] /\ Alike(ds, o[i], o[j]) => i < j
  <1> DEFINE Bad(d, i, j) == /\ o[i] < o[j] /\ o[j] - o[i] = d /\ Alike(ds, o[i], o[j])
                             /\ ~(i < j)
             E == {d \in Nat : \E i, j \in 1 .. n : Bad(d, i, j)}
  <1>1. /\ \A i \in 1 .. n : o[i] \in 1 .. n
        /\ \A x \in 1 .. n : \E i \in 1 .. n : o[i] = x
        /\ \A i, j \in 1 .. n : o[i] = o[j] => i = j
    BY SeqIs DEF IsPlacing, Has, Once
  <1>2. E = {}
    <2> SUFFICES ASSUME E # {} PROVE FALSE
      OBVIOUS
    <2>1. PICK d \in E : \A e \in E : d <= e
      <3>1. E \in SUBSET Nat
        OBVIOUS
      <3> HIDE DEF E
      <3> QED
        BY <3>1, LeastNat
    <2>2. PICK i \in 1 .. n, j \in 1 .. n : Bad(d, i, j)
      BY <2>1
    <2> DEFINE p == o[i]
               q == o[j]
    <2>3. p \in 1 .. n /\ q \in 1 .. n /\ p < q /\ q - p = d /\ Alike(ds, p, q) /\ ~(i < j)
      BY <1>1, <2>2
    <2>4. CASE LastBefore(ds, p, q)
      <3>1. p \in Prerequisites(ds)[q]
        BY <2>3, <2>4, PrerequisitesAre
      <3>2. PICK m \in 1 .. j - 1 : o[m] = p
        <4>1. j \in 1 .. Len(o)
          BY DEF IsPlacing
        <4> QED
          BY <3>1, <4>1 DEF Led
      <3>3. m \in 1 .. n /\ m < j
        BY <3>2
      <3>4. m = i
        BY <1>1, <3>2, <3>3
      <3> QED
        BY <2>3, <3>3, <3>4
    <2>5. CASE ~LastBefore(ds, p, q)
      <3>1. PICK r \in p + 1 .. q - 1 : Alike(ds, p, r)
        BY <2>3, <2>5 DEF LastBefore
      <3>7. p \in 1 .. n /\ q \in 1 .. n /\ p < q /\ q - p = d
        BY <2>3
      <3>8. Alike(ds, r, q)
        BY <2>3, <3>1 DEF Alike
      <3>10. d \in Nat
        BY <2>1
      <3> HIDE DEF p, q, E
      <3>9. r \in 1 .. n /\ p < r /\ r < q
        BY <3>1, <3>7
      <3>2. r \in 1 .. n /\ p < r /\ r < q /\ Alike(ds, r, q)
        BY <3>8, <3>9
      <3>3. PICK k \in 1 .. n : o[k] = r
        BY <1>1, <3>2
      <3>4. r - p \in Nat /\ q - r \in Nat /\ r - p < d /\ q - r < d
        BY <3>7, <3>9
      <3>5. i < k
        <4> SUFFICES ASSUME ~(i < k) PROVE FALSE
          OBVIOUS
        <4>1. Bad(r - p, i, k)
          BY <3>1, <3>2, <3>3 DEF p
        <4> HIDE DEF Bad
        <4>2. r - p \in E
          BY <3>4, <4>1 DEF E
        <4>3. d <= r - p
          BY <2>1, <4>2
        <4> QED
          BY <3>4, <3>10, <4>3
      <3>6. k < j
        <4> SUFFICES ASSUME ~(k < j) PROVE FALSE
          OBVIOUS
        <4>1. Bad(q - r, k, j)
          BY <3>2, <3>3 DEF q
        <4> HIDE DEF Bad
        <4>2. q - r \in E
          BY <3>4, <4>1 DEF E
        <4>3. d <= q - r
          BY <2>1, <4>2
        <4> QED
          BY <3>4, <3>10, <4>3
      <3> QED
        BY <2>3, <3>5, <3>6
    <2> QED
      BY <2>4, <2>5
  <1> SUFFICES ASSUME NEW i \in 1 .. n, NEW j \in 1 .. n, o[i] < o[j], Alike(ds, o[i], o[j]), ~(i < j)
               PROVE  FALSE
    OBVIOUS
  <1> DEFINE d == o[j] - o[i]
  <1>6. o[i] \in 1 .. n /\ o[j] \in 1 .. n
    BY <1>1
  <1>3. d \in Nat /\ o[j] - o[i] = d
    BY <1>6
  <1> HIDE DEF d
  <1>4. Bad(d, i, j)
    BY <1>3
  <1> HIDE DEF Bad
  <1>5. d \in E
    BY <1>3, <1>4
  <1> HIDE DEF E
  <1> QED
    BY <1>2, <1>5

\* The prerequisites of the deltas in order are those they had, in order.
LEMMA PrerequisitesCarried ==
    ASSUME NEW n \in Nat, NEW ds, DOMAIN ds = 1 .. n,
           NEW o, IsPlacing(o, n), Led(Prerequisites(ds), o),
           NEW ds2, Reordered(ds, o, n, ds2)
    PROVE  /\ Range(ds2) = Range(ds)
           /\ Carried(Prerequisites(ds), o, n, Prerequisites(ds2))
  <1>1. /\ \A i \in 1 .. n : o[i] \in 1 .. n
        /\ \A x \in 1 .. n : \E i \in 1 .. n : o[i] = x
        /\ \A i, j \in 1 .. n : o[i] = o[j] => i = j
    BY SeqIs DEF IsPlacing, Has, Once
  <1>2. DOMAIN ds2 = 1 .. n /\ \A i \in 1 .. n : ds2[i] = ds[o[i]]
    BY DEF Reordered, Keyed
  <1>3. Range(ds2) = Range(ds)
    <2>1. \A x : x \in Range(ds2) <=> \E i \in 1 .. n : ds2[i] = x
      BY <1>2 DEF Range
    <2>2. \A x : x \in Range(ds) <=> \E i \in 1 .. n : ds[i] = x
      BY DEF Range
    <2>3. ASSUME NEW x \in Range(ds2) PROVE x \in Range(ds)
      <3>1. PICK i \in 1 .. n : ds2[i] = x
        BY <2>1
      <3>2. o[i] \in 1 .. n /\ ds[o[i]] = x
        BY <1>1, <1>2, <3>1
      <3> QED
        BY <2>2, <3>2
    <2>4. ASSUME NEW x \in Range(ds) PROVE x \in Range(ds2)
      <3>1. PICK p \in 1 .. n : ds[p] = x
        BY <2>2
      <3>2. PICK i \in 1 .. n : o[i] = p
        BY <1>1
      <3>3. ds2[i] = x
        BY <1>2, <3>1, <3>2
      <3> QED
        BY <2>1, <3>3
    <2> QED
      BY <2>3, <2>4
  <1>4. \A i, j \in 1 .. n : Alike(ds2, i, j) <=> Alike(ds, o[i], o[j])
    BY <1>2 DEF Alike
  <1>5. ASSUME NEW i \in 1 .. n, NEW j \in 1 .. n, Alike(ds, o[i], o[j])
        PROVE  i < j <=> o[i] < o[j]
    <2>1. o[i] < o[j] => i < j
      BY <1>5, AlikeKeepOrder
    <2>2. Alike(ds, o[j], o[i])
      BY <1>5 DEF Alike
    <2>3. o[j] < o[i] => j < i
      BY <2>2, AlikeKeepOrder
    <2>4. o[i] \in 1 .. n /\ o[j] \in 1 .. n /\ (o[i] = o[j] => i = j)
      BY <1>1
    <2> QED
      BY <2>1, <2>3, <2>4
  <1>6. ASSUME NEW i \in 1 .. n, NEW j \in 1 .. n
        PROVE  LastBefore(ds2, i, j) <=> LastBefore(ds, o[i], o[j])
    <2>1. CASE ~Alike(ds, o[i], o[j])
      BY <1>4, <2>1 DEF LastBefore
    <2>2. CASE Alike(ds, o[i], o[j])
      <3>1. Alike(ds2, i, j) /\ (i < j <=> o[i] < o[j])
        BY <1>4, <1>5, <2>2
      <3>2. ASSUME i < j, NEW k \in i + 1 .. j - 1, Alike(ds2, i, k)
            PROVE  \E r \in o[i] + 1 .. o[j] - 1 : Alike(ds, o[i], r)
        <4>1. k \in 1 .. n /\ i < k /\ k < j
          BY <3>2
        <4>2. Alike(ds, o[i], o[k])
          BY <1>4, <3>2, <4>1
        <4>3. Alike(ds, o[k], o[j])
          BY <2>2, <4>2 DEF Alike
        <4>4. o[i] < o[k] /\ o[k] < o[j]
          BY <1>5, <4>1, <4>2, <4>3
        <4>5. o[i] \in 1 .. n /\ o[k] \in 1 .. n /\ o[j] \in 1 .. n
          BY <1>1, <4>1
        <4>6. o[k] \in o[i] + 1 .. o[j] - 1
          BY <4>4, <4>5
        <4> QED
          BY <4>2, <4>6
      <3>3. ASSUME o[i] < o[j], NEW r \in o[i] + 1 .. o[j] - 1, Alike(ds, o[i], r)
            PROVE  \E k \in i + 1 .. j - 1 : Alike(ds2, i, k)
        <4>1. o[i] \in 1 .. n /\ o[j] \in 1 .. n
          BY <1>1
        <4>2. r \in 1 .. n /\ o[i] < r /\ r < o[j]
          BY <3>3, <4>1
        <4>3. PICK k \in 1 .. n : o[k] = r
          BY <1>1, <4>2
        <4>4. Alike(ds, o[i], o[k])
          BY <3>3, <4>3
        <4>5. Alike(ds, o[k], o[j])
          BY <2>2, <4>4 DEF Alike
        <4>6. i < k /\ k < j
          BY <1>5, <4>2, <4>3, <4>4, <4>5
        <4>7. k \in i + 1 .. j - 1
          BY <4>6
        <4>8. Alike(ds2, i, k)
          BY <1>4, <4>4
        <4> QED
          BY <4>7, <4>8
      <3>4. LastBefore(ds2, i, j) <=> i < j /\ ~\E k \in i + 1 .. j - 1 : Alike(ds2, i, k)
        BY <3>1 DEF LastBefore
      <3>5. LastBefore(ds, o[i], o[j]) <=>
                o[i] < o[j] /\ ~\E r \in o[i] + 1 .. o[j] - 1 : Alike(ds, o[i], r)
        BY <2>2 DEF LastBefore
      <3> QED
        BY <3>1, <3>2, <3>3, <3>4, <3>5
    <2> QED
      BY <2>1, <2>2
  <1> DEFINE B == Prerequisites(ds)
             B2 == Prerequisites(ds2)
             P(x, y) == Precedes(x, y, Range(ds))
  <1>7. \A j \in 1 .. n :
            /\ B[j] \subseteq 1 .. n
            /\ \A i \in 1 .. n :
                i \in B[j] <=> i # j /\ (LastBefore(ds, i, j) \/ P(ds[i], ds[j]))
    BY PrerequisitesAre
  <1>8. \A j \in 1 .. n :
            /\ B2[j] \subseteq 1 .. n
            /\ \A i \in 1 .. n :
                i \in B2[j] <=> i # j /\ (LastBefore(ds2, i, j) \/ P(ds2[i], ds2[j]))
    BY <1>2, <1>3, PrerequisitesAre
  <1> HIDE DEF B, B2, P
  <1>9. ASSUME NEW i \in 1 .. n, NEW j \in 1 .. n
        PROVE  i \in B2[j] <=> o[i] \in B[o[j]]
    <2>1. o[i] \in 1 .. n /\ o[j] \in 1 .. n /\ (o[i] = o[j] <=> i = j)
      BY <1>1
    <2>2. i \in B2[j] <=> i # j /\ (LastBefore(ds2, i, j) \/ P(ds2[i], ds2[j]))
      BY <1>8
    <2>3. o[i] \in B[o[j]] <=> o[i] # o[j] /\ (LastBefore(ds, o[i], o[j]) \/ P(ds[o[i]], ds[o[j]]))
      BY <1>7, <2>1
    <2> QED
      BY <1>2, <1>6, <2>1, <2>2, <2>3
  <1> QED
    BY <1>3, <1>7, <1>8, <1>9 DEF Carried, B, B2

-----------------------------------------------------------------------------
\* What is omitted.

Keep(ds, kept, d) == IF Implicit(ds, d) THEN kept ELSE Append(kept, d)

\* What is kept of the deltas at some places.
Kept(ds) ==
    CHOOSE f : f = [s \in SUBSET DOMAIN ds |->
        IF s = {} THEN <<>> ELSE Keep(ds, f[s \ {Max(s)}], ds[Max(s)])]

LEMMA OmissionIs == ASSUME NEW ds PROVE _omit_implicitly_dropped_sequences(ds) = Kept(ds)[DOMAIN ds]
  BY DEF _omit_implicitly_dropped_sequences, FoldLeft, MapThenFoldSet, Kept, Keep

LEMMA KeepIs ==
    ASSUME NEW S, NEW kept, IsSeq(kept, S), NEW d \in S, NEW ds
    PROVE  IsSeq(Keep(ds, kept, d), S)
  <1>1. IsSeq(Append(kept, d), S)
    BY Appended
  <1> QED
    BY <1>1 DEF Keep

LEMMA KeptStep ==
    ASSUME NEW ds, NEW n \in Nat, DOMAIN ds = 1 .. n
    PROVE  /\ Kept(ds)[1 .. 0] = <<>>
           /\ \A k \in 1 .. n : Kept(ds)[1 .. k] = Keep(ds, Kept(ds)[1 .. (k - 1)], ds[k])
  <1> DEFINE S == Range(ds)
             F == [x \in Seq(S) \X (1 .. n) |-> Keep(ds, x[1], ds[x[2]])]
             Value(f, s) == IF s = {} THEN <<>> ELSE Keep(ds, f[s \ {Max(s)}], ds[Max(s)])
             u == Kept(ds)
  <1>1. \A i \in 1 .. n : ds[i] \in S
    BY DEF Range
  <1> HIDE DEF S
  <1>2. F \in [Seq(S) \X (1 .. n) -> Seq(S)]
    <2>1. \A kept \in Seq(S), i \in 1 .. n : Keep(ds, kept, ds[i]) \in Seq(S)
      BY <1>1, KeepIs DEF IsSeq
    <2> QED
      BY <2>1
  <1>3. PICK f \in [SUBSET (1 .. n) -> Seq(S)] : Folded(f, F, <<>>, n)
    <2>1. <<>> \in Seq(S)
      OBVIOUS
    <2> HIDE DEF F
    <2> QED
      BY <1>2, <2>1, FoldExists
  <1>4. ASSUME NEW s \in SUBSET (1 .. n), s # {}
        PROVE  F[f[s \ {Max(s)}], Max(s)] = Keep(ds, f[s \ {Max(s)}], ds[Max(s)])
    <2>1. Max(s) \in 1 .. n
      BY <1>4, MaxIs
    <2>2. f[s \ {Max(s)}] \in Seq(S)
      OBVIOUS
    <2> QED
      BY <2>1, <2>2
  <1>5. f = [s \in SUBSET (1 .. n) |-> Value(f, s)]
    <2> HIDE DEF F
    <2>1. f = [s \in SUBSET (1 .. n) |-> IF s = {} THEN <<>> ELSE F[f[s \ {Max(s)}], Max(s)]]
      BY <1>3, Zenon DEF Folded
    <2>2. \A s \in SUBSET (1 .. n) :
            (IF s = {} THEN <<>> ELSE F[f[s \ {Max(s)}], Max(s)]) = Value(f, s)
      BY <1>4
    <2> HIDE DEF Value
    <2> QED
      BY <2>1, <2>2
  <1>6. u = [s \in SUBSET (1 .. n) |-> Value(u, s)]
    <2>1. f = [s \in SUBSET DOMAIN ds |-> Value(f, s)]
      BY <1>5, Zenon
    <2>2. u = [s \in SUBSET DOMAIN ds |-> Value(u, s)]
      BY <2>1, Zenon DEF Kept
    <2> QED
      BY <2>2, Zenon
  <1> HIDE DEF Value
  <1>7. \A s \in SUBSET (1 .. n) : u[s] = Value(u, s)
    BY <1>6
  <1>8. u[1 .. 0] = <<>>
    <2>1. 1 .. 0 = {} /\ {} \in SUBSET (1 .. n)
      OBVIOUS
    <2> QED
      BY <1>7, <2>1 DEF Value
  <1>9. ASSUME NEW k \in 1 .. n
        PROVE  u[1 .. k] = Keep(ds, u[1 .. (k - 1)], ds[k])
    <2>1. k \in Nat /\ k > 0 /\ 1 .. k \in SUBSET (1 .. n)
      OBVIOUS
    <2>2. u[1 .. k] = Value(u, 1 .. k)
      BY <1>7, <2>1
    <2> HIDE DEF u
    <2> QED
      BY <2>1, <2>2, LastOfPrefix DEF Value
  <1> QED
    BY <1>8, <1>9

\* Only what is dropped with its owner is omitted; with nothing to omit the
\* deltas stay as they are.
LEMMA Omission ==
    ASSUME NEW ds, NEW n \in Nat, DOMAIN ds = 1 .. n
    PROVE  LET nodes == _omit_implicitly_dropped_sequences(ds)
               Explicit == {d \in Range(ds) : ~Implicit(ds, d)}
           IN  /\ IsSeq(nodes, Explicit) /\ \A d \in Explicit : Has(nodes, d)
               /\ (\A d \in Range(ds) : ~Implicit(ds, d)) =>
                    Len(nodes) = n /\ \A i \in 1 .. n : nodes[i] = ds[i]
  <1> DEFINE nodes == _omit_implicitly_dropped_sequences(ds)
             E == {d \in Range(ds) : ~Implicit(ds, d)}
             q(k) == Kept(ds)[1 .. k]
             Good(k) == /\ IsSeq(q(k), E)
                        /\ \A i \in 1 .. k : ds[i] \in E => Has(q(k), ds[i])
                        /\ Range(ds) = E => Len(q(k)) = k /\ \A i \in 1 .. k : q(k)[i] = ds[i]
             T == {k \in Nat : k <= n => Good(k)}
  <1>1. nodes = q(n)
    BY OmissionIs
  <1>2. \A i \in 1 .. n : ds[i] \in Range(ds)
    BY DEF Range
  <1>3. 0 \in T
    <2>1. q(0) = <<>>
      BY KeptStep
    <2> HIDE DEF q, E
    <2> QED
      BY <2>1, None
  <1>4. ASSUME NEW k \in Nat, k \in T PROVE k + 1 \in T
    <2> SUFFICES ASSUME k + 1 <= n PROVE Good(k + 1)
      OBVIOUS
    <2>1. Good(k)
      BY <1>4
    <2>2. k + 1 \in 1 .. n /\ (k + 1) - 1 = k
      OBVIOUS
    <2> DEFINE a == q(k)
               b == q(k + 1)
               d == ds[k + 1]
    <2>3. b = Keep(ds, a, d)
      BY <2>2, KeptStep
    <2>4. d \in Range(ds) /\ (d \in E <=> ~Implicit(ds, d))
      BY <1>2, <2>2
    <2>5. /\ IsSeq(a, E)
          /\ \A i \in 1 .. k : ds[i] \in E => Has(a, ds[i])
          /\ Range(ds) = E => Len(a) = k /\ \A i \in 1 .. k : a[i] = ds[i]
      BY <2>1
    <2>6. \A i : i \in 1 .. k + 1 <=> i \in 1 .. k \/ i = k + 1
      OBVIOUS
    <2> HIDE DEF q, E
    <2>7. CASE d \in E
      <3>1. b = Append(a, d)
        BY <2>3, <2>4, <2>7 DEF Keep
      <3> HIDE DEF a, b
      <3>2. /\ IsSeq(b, E) /\ Len(a) \in Nat /\ Len(b) = Len(a) + 1
            /\ \A i \in 1 .. Len(a) : b[i] = a[i]
            /\ b[Len(a) + 1] = d
        BY <2>5, <2>7, <3>1, Appended
      <3>3. \A x : Has(a, x) \/ x = d => Has(b, x)
        BY <3>2 DEF Has
      <3>4. \A i \in 1 .. k + 1 : ds[i] \in E => Has(b, ds[i])
        BY <2>5, <2>6, <3>3
      <3>5. Range(ds) = E => Len(b) = k + 1 /\ \A i \in 1 .. k + 1 : b[i] = ds[i]
        BY <2>5, <2>6, <3>2
      <3> QED
        BY <3>2, <3>4, <3>5 DEF b
    <2>8. CASE d \notin E
      <3>1. b = a /\ Range(ds) # E
        BY <2>3, <2>4, <2>8 DEF Keep
      <3> HIDE DEF a, b
      <3>2. \A i \in 1 .. k + 1 : ds[i] \in E => Has(b, ds[i])
        BY <2>5, <2>6, <2>8, <3>1
      <3> QED
        BY <2>5, <3>1, <3>2 DEF b
    <2> QED
      BY <2>7, <2>8
  <1>5. Good(n)
    <2> HIDE DEF T, Good
    <2>1. \A k \in Nat : k \in T
      BY <1>3, <1>4, ByInduction
    <2> QED
      BY <2>1 DEF T
  <1>6. ASSUME NEW d \in E PROVE Has(q(n), d)
    <2>1. PICK i \in 1 .. n : ds[i] = d
      BY DEF Range
    <2> HIDE DEF q, E
    <2> QED
      BY <1>5, <2>1
  <1>7. (\A d \in Range(ds) : ~Implicit(ds, d)) => Range(ds) = E
    OBVIOUS
  <1> HIDE DEF nodes, q, E
  <1> QED
    BY <1>1, <1>5, <1>6, <1>7 DEF nodes, E

-----------------------------------------------------------------------------
\* order_deltas.

\* What order_deltas sorts, and in which order.
Nodes(ds) == _omit_implicitly_dropped_sequences(ds)
Places(ds) == Sorted(Nodes(ds), Prerequisites(Nodes(ds)))

LEMMA NodesAre ==
    ASSUME NEW N \in Nat, NEW ds, Keyed(ds, N)
    PROVE  /\ Len(Nodes(ds)) \in Nat /\ Keyed(Nodes(ds), Len(Nodes(ds)))
           /\ \A d \in Range(Nodes(ds)) : d \in Range(ds) /\ ~Implicit(ds, d)
  <1> DEFINE E == {d \in Range(ds) : ~Implicit(ds, d)}
             q == Nodes(ds)
  <1>1. IsSeq(q, E)
    BY Omission DEF Keyed, Nodes
  <1>2. \A d \in Range(ds) : sort_key(d) \in Words
    BY DEF Keyed, Range
  <1>3. \A d \in E : d \in Range(ds) /\ ~Implicit(ds, d)
    OBVIOUS
  <1> HIDE DEF q, E
  <1>4. Len(q) \in Nat /\ DOMAIN q = 1 .. Len(q) /\ \A i \in 1 .. Len(q) : q[i] \in E
    BY <1>1, SeqIs
  <1>5. Keyed(q, Len(q))
    BY <1>2, <1>3, <1>4 DEF Keyed
  <1>6. \A d \in Range(q) : d \in E
    BY <1>4 DEF Range
  <1> QED
    BY <1>3, <1>4, <1>5, <1>6 DEF q

\* The order of the deltas, when the rules form no cycle.
LEMMA OrderIs ==
    ASSUME NEW N \in Nat, NEW ds, Keyed(ds, N)
    PROVE  LET n == Len(Nodes(ds))
               o == Places(ds)
           IN  /\ IsSeq(o, 1 .. n) /\ Once(o) /\ Led(Prerequisites(Nodes(ds)), o)
               /\ Len(o) \in 0 .. n
               /\ order_deltas(ds).cyclic <=> Len(o) < n
               /\ DOMAIN o = 1 .. Len(o)
               /\ order_deltas(ds).deltas = [i \in DOMAIN o |-> Nodes(ds)[o[i]]]
               /\ ~order_deltas(ds).cyclic => IsPlacing(o, n)
               /\ order_deltas(ds).cyclic => \A j \in 1 .. n :
                    Has(o, j) <=> Met(Prerequisites(Nodes(ds)), o, j)
  <1> DEFINE n == Len(Nodes(ds))
             o == Places(ds)
             before == Prerequisites(Nodes(ds))
  <1>1. /\ order_deltas(ds).cyclic <=> Len(o) < n
        /\ order_deltas(ds).deltas = [i \in DOMAIN o |-> Nodes(ds)[o[i]]]
    BY DEF order_deltas, Places, Nodes
  <1>2. n \in Nat /\ Keyed(Nodes(ds), n)
    BY NodesAre
  <1> HIDE DEF n, before
  <1>3. /\ IsSeq(o, 1 .. n) /\ Once(o) /\ Led(before, o)
        /\ Len(o) \in 0 .. n
        /\ Len(o) = n => \A j \in 1 .. n : Has(o, j)
        /\ Len(o) < n => \A j \in 1 .. n : Has(o, j) <=> Met(before, o, j)
    <2>1. o = Sorted(Nodes(ds), before)
      BY DEF Places, before
    <2> HIDE DEF o
    <2> QED
      BY <1>2, <2>1, SortedHas
  <1> HIDE DEF o
  <1>4. DOMAIN o = 1 .. Len(o)
    BY <1>3, SeqIs
  <1>5. ~(Len(o) < n) => Len(o) = n
    BY <1>2, <1>3
  <1>6. ~order_deltas(ds).cyclic => IsPlacing(o, n)
    BY <1>1, <1>3, <1>5 DEF IsPlacing
  <1> QED
    BY <1>1, <1>3, <1>4, <1>6 DEF n, o, before

\* order_deltas returns each delta that it does not omit, once, and after every
\* delta that must be applied before it.
THEOREM RulesAreKept ==
    ASSUME NEW N \in Nat, NEW ds, Keyed(ds, N), ~order_deltas(ds).cyclic
    PROVE  LET nodes == Nodes(ds)
           IN  \E o :
                /\ IsPlacing(o, Len(nodes))
                /\ order_deltas(ds).deltas = [i \in DOMAIN nodes |-> nodes[o[i]]]
                /\ \A i, j \in DOMAIN nodes : o[i] \in Prerequisites(nodes)[o[j]] => i < j
  <1> DEFINE nodes == Nodes(ds)
             n == Len(nodes)
             o == Places(ds)
             before == Prerequisites(nodes)
  <1>1. n \in Nat /\ DOMAIN nodes = 1 .. n
    BY NodesAre DEF Keyed
  <1>2. /\ IsPlacing(o, n) /\ Led(before, o) /\ DOMAIN o = 1 .. Len(o)
        /\ order_deltas(ds).deltas = [i \in DOMAIN o |-> nodes[o[i]]]
    BY OrderIs
  <1> HIDE DEF nodes, n, o, before
  <1>3. Len(o) = n /\ \A i, j \in 1 .. n : o[i] = o[j] => i = j
    BY <1>2 DEF IsPlacing, Once
  <1>4. ASSUME NEW i \in 1 .. n, NEW j \in 1 .. n, o[i] \in before[o[j]] PROVE i < j
    <2>1. PICK m \in 1 .. j - 1 : o[m] = o[i]
      BY <1>2, <1>3, <1>4 DEF Led
    <2>2. m \in 1 .. n /\ m < j
      BY <1>1, <2>1
    <2>3. m = i
      BY <1>3, <2>1, <2>2
    <2> QED
      BY <2>2, <2>3
  <1>5. order_deltas(ds).deltas = [i \in DOMAIN nodes |-> nodes[o[i]]]
    BY <1>1, <1>2, <1>3
  <1>6. \A i, j \in DOMAIN nodes : o[i] \in before[o[j]] => i < j
    BY <1>1, <1>4
  <1> QED
    BY <1>2, <1>5, <1>6 DEF nodes, n, before

\* Every place of C waits for a place of C.
IsCycle(ds, C) ==
    /\ C \subseteq DOMAIN ds /\ C # {}
    /\ \A j \in C : Prerequisites(ds)[j] \cap C # {}

\* order_deltas raises CycleError only over deltas that can be put in no order:
\* some of them all wait for one another, and whenever there are such it does.
THEOREM CycleIsReal ==
    ASSUME NEW N \in Nat, NEW ds, Keyed(ds, N)
    PROVE  order_deltas(ds).cyclic <=> \E C : IsCycle(Nodes(ds), C)
  <1> DEFINE nodes == Nodes(ds)
             n == Len(nodes)
             o == Places(ds)
             before == Prerequisites(nodes)
             m == Len(o)
  <1>1. n \in Nat /\ DOMAIN nodes = 1 .. n
    BY NodesAre DEF Keyed
  <1>2. /\ IsSeq(o, 1 .. n) /\ Once(o) /\ Led(before, o) /\ m \in 0 .. n
        /\ order_deltas(ds).cyclic <=> m < n
        /\ ~order_deltas(ds).cyclic => IsPlacing(o, n)
        /\ order_deltas(ds).cyclic => \A j \in 1 .. n : Has(o, j) <=> Met(before, o, j)
    BY OrderIs
  <1>3. \A j \in 1 .. n : before[j] \subseteq 1 .. n
    BY <1>1, PrerequisitesAre
  <1> HIDE DEF nodes, n, o, before
  <1>4. ASSUME order_deltas(ds).cyclic PROVE \E C : IsCycle(nodes, C)
    <2> DEFINE C == {j \in 1 .. n : ~Has(o, j)}
    <2>1. C # {}
      <3> SUFFICES ASSUME \A j \in 1 .. n : Has(o, j) PROVE FALSE
        OBVIOUS
      <3>1. m \in Nat /\ DOMAIN o = 1 .. m /\ o \in [1 .. m -> 1 .. n]
        <4>1. m \in Nat /\ DOMAIN o = 1 .. m /\ \A i \in 1 .. m : o[i] \in 1 .. n
          BY <1>2, SeqIs
        <4>2. o \in Seq(1 .. n)
          BY <1>2 DEF IsSeq
        <4> QED
          BY <4>1, <4>2
      <3>2. o \in Surjection(1 .. m, 1 .. n)
        BY <3>1 DEF Surjection, Has
      <3>3. 1 \in Int /\ m \in Int /\ n \in Int
        BY <1>1, <3>1
      <3>4. /\ IsFiniteSet(1 .. m) /\ Cardinality(1 .. m) = IF 1 > m THEN 0 ELSE m - 1 + 1
        BY ONLY <3>3, FS_Interval
      <3>5. /\ IsFiniteSet(1 .. n) /\ Cardinality(1 .. n) = IF 1 > n THEN 0 ELSE n - 1 + 1
        BY ONLY <3>3, FS_Interval
      <3>6. Cardinality(1 .. n) <= Cardinality(1 .. m)
        BY <3>2, <3>4, FS_Surjection
      <3> HIDE DEF m
      <3> QED
        BY <1>1, <1>2, <1>4, <3>1, <3>4, <3>5, <3>6
    <2>2. ASSUME NEW j \in C PROVE before[j] \cap C # {}
      <3>1. j \in 1 .. n /\ ~Met(before, o, j)
        BY <1>2, <1>4
      <3>2. PICK p \in before[j] : ~Has(o, p)
        BY <3>1 DEF Met
      <3>3. p \in 1 .. n
        BY <1>3, <3>1
      <3> QED
        BY <3>2, <3>3
    <2> HIDE DEF C
    <2>3. C \subseteq 1 .. n
      BY DEF C
    <2>4. IsCycle(nodes, C)
      BY <1>1, <2>1, <2>2, <2>3 DEF IsCycle, before
    <2> QED
      BY <2>4
  <1>5. ASSUME ~order_deltas(ds).cyclic, NEW C, IsCycle(nodes, C) PROVE FALSE
    <2>1. Len(o) = n /\ \A j \in 1 .. n : \E i \in 1 .. n : o[i] = j
      BY <1>2, <1>5 DEF IsPlacing, Has
    <2>2. /\ C \subseteq 1 .. n /\ C # {}
          /\ \A j \in C : before[j] \cap C # {}
      BY <1>1, <1>5 DEF IsCycle, before
    <2> DEFINE P == {i \in 1 .. n : o[i] \in C}
    <2>3. P \in SUBSET Nat /\ P # {}
      <3>1. PICK j \in C : j \in 1 .. n
        BY <2>2
      <3>2. PICK i \in 1 .. n : o[i] = j
        BY <2>1, <3>1
      <3>3. i \in P
        BY <3>1, <3>2
      <3> QED
        BY <3>3
    <2>4. PICK i \in P : \A k \in P : i <= k
      <3> HIDE DEF P
      <3> QED
        BY <2>3, LeastNat
    <2>5. PICK p \in before[o[i]] : p \in C
      BY <2>2, <2>4
    <2>6. PICK k \in 1 .. i - 1 : o[k] = p
      BY <1>2, <2>1, <2>4, <2>5 DEF Led
    <2>7. k \in P /\ k < i /\ k \in Int /\ i \in Int
      <3>1. i \in 1 .. n
        BY <2>4
      <3>2. k \in 1 .. n /\ k < i
        BY <1>1, <2>6, <3>1
      <3> QED
        BY <2>5, <2>6, <3>1, <3>2
    <2> QED
      BY <2>4, <2>7
  <1> QED
    BY <1>4, <1>5 DEF nodes

\* Deltas in their order are returned in that order: generate_migration, which
\* orders once more, writes what pgsd diff has shown.
THEOREM OrderIsIdempotent ==
    ASSUME NEW N \in Nat, NEW ds, Keyed(ds, N), ~order_deltas(ds).cyclic
    PROVE  LET ordered == order_deltas(ds).deltas
           IN  ~order_deltas(ordered).cyclic /\ order_deltas(ordered).deltas = ordered
  <1> DEFINE nodes == Nodes(ds)
             n == Len(nodes)
             o == Places(ds)
             a == order_deltas(ds).deltas
             o2 == Places(a)
  <1>1. /\ n \in Nat /\ Keyed(nodes, n)
        /\ \A d \in Range(nodes) : d \in Range(ds) /\ ~Implicit(ds, d)
    BY NodesAre
  <1>2. /\ IsPlacing(o, n) /\ Led(Prerequisites(nodes), o) /\ DOMAIN o = 1 .. Len(o)
        /\ a = [i \in DOMAIN o |-> nodes[o[i]]]
    BY OrderIs
  <1>3. o = Sorted(nodes, Prerequisites(nodes))
    BY DEF Places
  <1> HIDE DEF nodes, n, o, a
  <1>4. DOMAIN a = 1 .. n /\ \A i \in 1 .. n : a[i] = nodes[o[i]]
    BY <1>2 DEF IsPlacing
  <1>5. \A i \in 1 .. n : o[i] \in 1 .. n
    <2>1. IsSeq(o, 1 .. n) /\ Len(o) = n
      BY <1>2 DEF IsPlacing
    <2> QED
      BY <2>1, SeqIs
  <1>6. Reordered(nodes, o, n, a) /\ Keyed(a, n)
    <2>1. \A i \in 1 .. n : sort_key(nodes[i]) \in Words
      BY <1>1 DEF Keyed
    <2>2. ASSUME NEW i \in 1 .. n PROVE sort_key(a[i]) \in Words
      <3>1. a[i] = nodes[o[i]] /\ o[i] \in 1 .. n
        BY <1>4, <1>5
      <3> QED
        BY <2>1, <3>1
    <2>3. Keyed(a, n)
      BY <1>4, <2>2, IsKeyed
    <2> QED
      BY <1>4, <2>3 DEF Reordered
  <1>7. /\ Range(a) = Range(nodes)
        /\ Carried(Prerequisites(nodes), o, n, Prerequisites(a))
    <2>1. n \in Nat /\ DOMAIN nodes = 1 .. n
      BY <1>1 DEF Keyed
    <2> QED
      BY <1>2, <1>6, <2>1, PrerequisitesCarried
  <1>8. \A d \in Range(a) : ~Implicit(a, d)
    <2>1. \A x \in Range(a) : x \in Range(ds) /\ ~Implicit(ds, x)
      BY <1>1, <1>7
    <2> QED
      BY <2>1 DEF Implicit
  <1>9. Nodes(a) = a
    <2> DEFINE b == Nodes(a)
    <2>1. /\ IsSeq(b, {d \in Range(a) : ~Implicit(a, d)})
          /\ Len(b) = n /\ \A i \in 1 .. n : b[i] = a[i]
      BY <1>1, <1>4, <1>8, Omission DEF Nodes
    <2> HIDE DEF b
    <2>2. DOMAIN b = 1 .. n /\ b = [i \in DOMAIN b |-> b[i]]
      BY <2>1, SeqIs DEF IsSeq
    <2>3. a = [i \in 1 .. n |-> a[i]]
      BY <1>2, <1>4
    <2>4. b = a
      BY <2>1, <2>2, <2>3
    <2> QED
      BY <2>4 DEF b
  <1>10. Len(o2) = n /\ \A i \in 1 .. n : o2[i] = i
    <2>1. o2 = Sorted(a, Prerequisites(a))
      BY <1>9 DEF Places
    <2> HIDE DEF o2
    <2> DEFINE before == Prerequisites(nodes)
               before2 == Prerequisites(a)
    <2>2. /\ o = Sorted(nodes, before) /\ Carried(before, o, n, before2)
          /\ o2 = Sorted(a, before2)
      BY <1>3, <1>7, <2>1
    <2> HIDE DEF before, before2
    <2> QED
      BY <1>1, <1>2, <1>6, <2>2, SortedAgain
  <1>11. /\ order_deltas(a).cyclic <=> Len(o2) < Len(Nodes(a))
         /\ DOMAIN o2 = 1 .. Len(o2)
         /\ order_deltas(a).deltas = [i \in DOMAIN o2 |-> Nodes(a)[o2[i]]]
    BY <1>1, <1>6, OrderIs
  <1>12. Len(a) = n
    BY <1>1, <1>4
  <1> HIDE DEF o2
  <1>13. ~order_deltas(a).cyclic
    BY <1>1, <1>9, <1>10, <1>11, <1>12
  <1>14. order_deltas(a).deltas = [i \in 1 .. n |-> a[i]]
    BY <1>9, <1>10, <1>11
  <1>15. order_deltas(a).deltas = a
    BY <1>2, <1>4, <1>14
  <1> QED
    BY <1>13, <1>15 DEF a

-----------------------------------------------------------------------------
\* Renames.

\* What a rename of a table maps to, and that nothing else does.
LEMMA MappedTable ==
    ASSUME NEW renames, NEW name
    PROVE  \/ \E m \in renames.tables : m.source = name /\ map_table(renames, name) = m.target
           \/ (\A m \in renames.tables : m.source # name) /\ map_table(renames, name) = name
  BY DEF map_table

\* No two tables of the source become one table of the target.
THEOREM TablesStayApart ==
    ASSUME NEW S, NEW T, NEW renames,
           ValidAnnotations(renames), validate_for(renames, S, T),
           NEW s \in OfKind(S, "table"), NEW t \in OfKind(S, "table"),
           map_table(renames, QualifiedName(s.ref)) = map_table(renames, QualifiedName(t.ref))
    PROVE  QualifiedName(s.ref) = QualifiedName(t.ref)
  <1> DEFINE a == QualifiedName(s.ref)
             b == QualifiedName(t.ref)
             names == {QualifiedName(x.ref) : x \in OfKind(S, "table")}
  <1>1. \A m, n \in renames.tables : m.target = n.target => m.source = n.source
    <2> SUFFICES ASSUME NEW m \in renames.tables, NEW n \in renames.tables, m.target = n.target
                 PROVE  m.source = n.source
      OBVIOUS
    <2> DEFINE pairs == {<<x.source, x.target>> : x \in renames.tables}
    <2>1. \A p, q \in pairs : p[1] = q[1] \/ p[2] = q[2] => p = q
      BY DEF ValidAnnotations, IsMapping
    <2>2. <<m.source, m.target>> \in pairs /\ <<n.source, n.target>> \in pairs
      OBVIOUS
    <2> HIDE DEF pairs
    <2> QED BY <2>1, <2>2
  <1>2. a \in names /\ b \in names /\ map_table(renames, a) = map_table(renames, b)
    OBVIOUS
  <1>3. \A m \in renames.tables :
            m.target \in names => \E n \in renames.tables : n.source = m.target
    BY DEF validate_for
  <1> HIDE DEF a, b, names
  <1>4. a = b
    BY <1>1, <1>2, <1>3, MappedTable
  <1> QED BY <1>4 DEF a, b

\* No two columns of a table become one column.
THEOREM ColumnsStayApart ==
    ASSUME NEW S, NEW T, NEW renames,
           ValidAnnotations(renames), validate_for(renames, S, T),
           NEW t \in OfKind(S, "table"), NEW x \in Names(t.columns), NEW y \in Names(t.columns),
           LET source == QualifiedName(t.ref)
               target == map_table(renames, source)
           IN  map_column(renames, source, target, x) = map_column(renames, source, target, y)
    PROVE  x = y
  <1> DEFINE source == QualifiedName(t.ref)
             target == map_table(renames, source)
             Found(n) == {m \in renames.columns : /\ m.source_table = source
                                                 /\ m.target_table = target
                                                 /\ m.source_name = n}
             Mapped(n) == map_column(renames, source, target, n)
             known == UNION {{<<QualifiedName(u.ref), n>> : n \in Names(u.columns)} :
                                u \in OfKind(S, "table")}
  <1>1. \A n : Mapped(n) = IF Found(n) = {} THEN n ELSE (CHOOSE m \in Found(n) : TRUE).target_name
    BY DEF map_column
  <1>2. \A n : \/ Found(n) = {} /\ Mapped(n) = n
               \/ \E m \in Found(n) : Mapped(n) = m.target_name
    BY <1>1
  <1>3. \A m, n \in renames.columns :
            m.target_table = n.target_table /\ m.target_name = n.target_name
                => m.source_name = n.source_name
    <2> SUFFICES ASSUME NEW m \in renames.columns, NEW n \in renames.columns,
                        m.target_table = n.target_table, m.target_name = n.target_name
                 PROVE  m.source_name = n.source_name
      OBVIOUS
    <2> DEFINE End(c) == <<<<c.source_table, c.source_name>>, <<c.target_table, c.target_name>>>>
               pairs == {End(c) : c \in renames.columns}
    <2>1. \A p, q \in pairs : p[1] = q[1] \/ p[2] = q[2] => p = q
      BY DEF ValidAnnotations, IsMapping
    <2>2. End(m) \in pairs /\ End(n) \in pairs /\ End(m)[2] = End(n)[2]
      OBVIOUS
    <2>3. End(m) = End(n)
      BY <2>1, <2>2
    <2> QED BY <2>3
  <1>4. \A m \in renames.columns : map_table(renames, m.source_table) = m.target_table
    BY DEF ValidAnnotations
  <1>5. <<source, x>> \in known /\ <<source, y>> \in known
    OBVIOUS
  <1>6. \A m \in renames.columns :
            <<m.source_table, m.target_name>> \in known =>
                \E n \in renames.columns :
                    <<n.source_table, n.source_name>> = <<m.source_table, m.target_name>>
    BY DEF validate_for
  <1>7. Mapped(x) = Mapped(y)
    OBVIOUS
  <1>8. ASSUME NEW u, NEW v, <<source, u>> \in known, <<source, v>> \in known,
               Mapped(u) = Mapped(v), Found(u) # {}
        PROVE  u = v
    <2> HIDE DEF Mapped, known
    <2>1. PICK m \in Found(u) : Mapped(u) = m.target_name
      BY <1>2, <1>8
    <2>2. CASE Found(v) = {}
      <3>1. Mapped(v) = v
        BY <1>2, <2>2
      <3>2. PICK n \in renames.columns : n.source_table = source /\ n.source_name = v
        BY <1>6, <1>8, <2>1, <3>1
      <3>3. n \in Found(v)
        BY <1>4, <3>2
      <3> QED BY <2>2, <3>3
    <2>3. CASE Found(v) # {}
      <3>1. PICK n \in Found(v) : Mapped(v) = n.target_name
        BY <1>2, <2>3
      <3> QED BY <1>3, <1>8, <2>1, <3>1
    <2> QED BY <2>2, <2>3
  <1>9. CASE Found(x) = {} /\ Found(y) = {}
    BY <1>2, <1>7, <1>9
  <1> HIDE DEF Found, Mapped, known
  <1> QED BY <1>5, <1>7, <1>8, <1>9

-----------------------------------------------------------------------------
\* Comparators.

\* What is the same on both sides has no delta.
THEOREM SameHasNoDelta ==
    ASSUME NEW o, NEW candidates, NEW owners
    PROVE  /\ CompareSchema(<<o>>, <<o>>) = <<>>
           /\ CompareExtension(<<o>>, <<o>>) = <<>>
           /\ CompareSequence(<<o>>, <<o>>, owners, owners) = <<>>
           /\ CompareFunction(<<o>>, <<o>>, candidates) = <<>>
           /\ CompareProcedure(<<o>>, <<o>>) = <<>>
           /\ CompareTrigger(<<o>>, <<o>>) = <<>>
           /\ ComparePolicy(<<o>>, <<o>>) = <<>>
           /\ CompareView(<<o>>, <<o>>) = <<>>
           /\ CompareMaterializedView(<<o>>, <<o>>) = <<>>
  <1>1. <<o>> # <<>> /\ <<o>>[1] = o
    OBVIOUS
  <1>2. CompareSchema(<<o>>, <<o>>) = <<>>
    BY <1>1 DEF Compared, CompareSchema, When, Same
  <1>3. CompareExtension(<<o>>, <<o>>) = <<>>
    BY <1>1 DEF Compared, CompareExtension, When, NewValue
  <1>4. CompareSequence(<<o>>, <<o>>, owners, owners) = <<>>
    BY <1>1 DEF Compared, CompareSequence, When
  <1>5. CompareFunction(<<o>>, <<o>>, candidates) = <<>>
    BY <1>1 DEF Compared, CompareFunction, When, OwnerChange
  <1>6. CompareProcedure(<<o>>, <<o>>) = <<>>
    BY <1>1 DEF Compared, CompareProcedure, When, OwnerChange
  <1>7. CompareTrigger(<<o>>, <<o>>) = <<>>
    BY <1>1 DEF Compared, CompareTrigger, When
  <1>8. ComparePolicy(<<o>>, <<o>>) = <<>>
    BY <1>1 DEF Compared, ComparePolicy, When, Same
  <1>9. CompareView(<<o>>, <<o>>) = <<>>
    BY <1>1 DEF Compared, CompareView, When, OwnerChange
  <1>10. CompareMaterializedView(<<o>>, <<o>>) = <<>>
    BY <1>1 DEF Compared, CompareMaterializedView, When, OwnerChange
  <1> QED BY <1>2, <1>3, <1>4, <1>5, <1>6, <1>7, <1>8, <1>9, <1>10
=============================================================================
