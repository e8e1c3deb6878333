------------------------------ MODULE BundleProofs ------------------------------
(***************************************************************************)
(* What render_bundle writes, load_bundle reads: for every plan, of any      *)
(* units and any SQL.  And what load_bundle accepts of any manifest has      *)
(* statements for every delta that is assessed in it.                       *)
(***************************************************************************)
EXTENDS Bundle, SequenceTheorems, WellFoundedInduction, TLAPS

-----------------------------------------------------------------------------
(* Induction over the natural numbers, and folds *)

\* A set of natural numbers has a least one.
LEMMA LeastNat ==
    ASSUME NEW T \in SUBSET Nat, T # {}
    PROVE  \E x \in T : \A y \in T : x <= y
  <1> DEFINE R == OpToRel(<, Nat)
  <1>1. IsWellFoundedOn(R, Nat)
    BY NatLessThanWellFounded
  <1>2. \A y, x \in Nat : y < x => <<y, x>> \in R
    BY DEF OpToRel
  <1> HIDE DEF R
  <1>3. \E x \in T : \A y \in T : ~ (<<y, x>> \in R)
    BY <1>1, WFMin
  <1>4. PICK x \in T : \A y \in T : ~ (<<y, x>> \in R)
    BY <1>3
  <1>5. ASSUME NEW y \in T PROVE x <= y
    <2>1. x \in Nat /\ y \in Nat
      OBVIOUS
    <2>2. ~(<<y, x>> \in R)
      BY <1>4
    <2>3. ~(y < x)
      BY <1>2, <2>1, <2>2, Zenon
    <2> QED
      BY <2>1, <2>3
  <1> QED
    BY <1>5

\* What holds of 0 and, with every number, of the next one: T is where it holds.
LEMMA ByInduction ==
    ASSUME NEW T, 0 \in T, \A n \in Nat : n \in T => n + 1 \in T
    PROVE  \A n \in Nat : n \in T
  <1> DEFINE E == {n \in Nat : n \notin T}
  <1> SUFFICES ASSUME E # {} PROVE FALSE
    OBVIOUS
  <1>1. PICK x \in E : \A y \in E : x <= y
    BY LeastNat
  <1>2. x \in Nat /\ x # 0
    OBVIOUS
  <1>3. x - 1 \in Nat /\ x - 1 \notin E
    BY <1>1, <1>2
  <1> QED
    BY <1>2, <1>3

LEMMA MaxIs ==
    ASSUME NEW n \in Nat, NEW s \in SUBSET (1 .. n), s # {}
    PROVE  Max(s) \in s /\ \A y \in s : y <= Max(s)
  <1> DEFINE U == {k \in Nat : \A y \in s : y <= k}
  <1>1. n \in U
    OBVIOUS
  <1>2. PICK k \in U : \A j \in U : k <= j
    BY <1>1, LeastNat
  <1>3. k \in s
    <2> SUFFICES ASSUME k \notin s PROVE FALSE
      OBVIOUS
    <2>1. k # 0
      <3>1. PICK y \in s : TRUE
        OBVIOUS
      <3>2. y <= k /\ y >= 1
        OBVIOUS
      <3> QED
        BY <3>2
    <2>2. \A y \in s : y <= k - 1
      OBVIOUS
    <2>3. k - 1 \in U
      BY <2>1, <2>2
    <2> QED
      BY <1>2, <2>3
  <1>4. \E x \in s : \A y \in s : x >= y
    BY <1>3
  <1> QED
    BY <1>4 DEF Max

\* A fold over 1 .. n has a value when its steps stay in St.
Folded(f, F, base, n) ==
    f = [s \in SUBSET (1 .. n) |-> IF s = {} THEN base ELSE F[f[s \ {Max(s)}], Max(s)]]

LEMMA FoldExists ==
    ASSUME NEW n \in Nat, NEW St, NEW base \in St, NEW F \in [St \X (1 .. n) -> St]
    PROVE  \E f \in [SUBSET (1 .. n) -> St] : Folded(f, F, base, n)
  <1> DEFINE P(f, m) == \A s \in SUBSET (1 .. n) :
                s \subseteq 1 .. m => f[s] = IF s = {} THEN base ELSE F[f[s \ {Max(s)}], Max(s)]
             T == {m \in Nat : \E f \in [SUBSET (1 .. n) -> St] : P(f, m)}
  <1>1. 0 \in T
    <2> DEFINE f == [s \in SUBSET (1 .. n) |-> base]
    <2>1. P(f, 0)
      <3>1. 1 .. 0 = {}
        OBVIOUS
      <3> QED
        BY <3>1
    <2> QED
      BY <2>1
  <1>2. ASSUME NEW m \in Nat, m \in T PROVE m + 1 \in T
    <2>1. PICK f \in [SUBSET (1 .. n) -> St] : P(f, m)
      BY <1>2
    <2> DEFINE Step(s) == F[f[s \ {Max(s)}], Max(s)]
               g == [s \in SUBSET (1 .. n) |->
                        IF s = {} \/ s \subseteq 1 .. m THEN f[s] ELSE Step(s)]
    <2>2. ASSUME NEW s \in SUBSET (1 .. n), s # {} PROVE Step(s) \in St
      BY <2>2, MaxIs
    <2>3. g \in [SUBSET (1 .. n) -> St]
      BY <2>2
    <2>4. ASSUME NEW s \in SUBSET (1 .. n), s \subseteq 1 .. m + 1
          PROVE  g[s] = IF s = {} THEN base ELSE F[g[s \ {Max(s)}], Max(s)]
      <3>1. CASE s = {}
        BY <2>1, <3>1
      <3>2. CASE s # {}
        <4>1. Max(s) \in s /\ \A y \in s : y <= Max(s)
          BY <3>2, MaxIs
        <4>2. s \ {Max(s)} \subseteq 1 .. m
          <5> SUFFICES ASSUME NEW y \in s, y # Max(s) PROVE y \in 1 .. m
            OBVIOUS
          <5>1. y \in 1 .. m + 1 /\ Max(s) \in 1 .. m + 1 /\ y <= Max(s)
            BY <2>4, <4>1
          <5> QED
            BY <5>1
        <4>3. g[s \ {Max(s)}] = f[s \ {Max(s)}]
          BY <4>2
        <4>4. CASE s \subseteq 1 .. m
          <5>1. g[s] = f[s]
            BY <4>4
          <5>2. f[s] = F[f[s \ {Max(s)}], Max(s)]
            BY <2>1, <3>2, <4>4
          <5> HIDE DEF g
          <5> QED
            BY <3>2, <4>3, <5>1, <5>2
        <4>5. CASE ~(s \subseteq 1 .. m)
          BY <3>2, <4>3, <4>5
        <4> HIDE DEF g
        <4> QED
          BY <4>4, <4>5
      <3> HIDE DEF g
      <3> QED
        BY <3>1, <3>2
    <2>5. P(g, m + 1)
      BY <2>4
    <2> HIDE DEF g, P
    <2> QED
      BY <2>3, <2>5
  <1> HIDE DEF T
  <1>3. n \in T
    BY <1>1, <1>2, ByInduction
  <1>4. PICK f \in [SUBSET (1 .. n) -> St] : P(f, n)
    BY <1>3 DEF T
  <1>5. f = [s \in SUBSET (1 .. n) |-> f[s]]
    OBVIOUS
  <1> DEFINE Value(s) == IF s = {} THEN base ELSE F[f[s \ {Max(s)}], Max(s)]
  <1>6. \A s \in SUBSET (1 .. n) : f[s] = Value(s)
    BY <1>4
  <1> HIDE DEF Value
  <1>7. f = [s \in SUBSET (1 .. n) |-> Value(s)]
    <2>1. [s \in SUBSET (1 .. n) |-> f[s]] = [s \in SUBSET (1 .. n) |-> Value(s)]
      BY <1>6
    <2> QED
      BY <1>5, <2>1, Zenon
  <1>8. Folded(f, F, base, n)
    BY <1>7 DEF Folded, Value
  <1> QED
    BY <1>8

\* The largest of 1 .. k is k, and the others are before it.
LEMMA LastOfPrefix ==
    ASSUME NEW k \in Nat, k > 0
    PROVE  /\ 1 .. k # {} /\ Max(1 .. k) = k
           /\ (1 .. k) \ {k} = 1 .. (k - 1)
  <1>1. k \in 1 .. k /\ 1 .. k \in SUBSET (1 .. k)
    OBVIOUS
  <1> DEFINE m == Max(1 .. k)
  <1>2. m \in 1 .. k /\ \A y \in 1 .. k : y <= m
    BY <1>1, MaxIs
  <1> HIDE DEF m
  <1>3. m = k
    BY <1>1, <1>2
  <1>4. ASSUME NEW y PROVE y \in (1 .. k) \ {k} <=> y \in 1 .. (k - 1)
    OBVIOUS
  <1> QED
    BY <1>1, <1>3, <1>4 DEF m

-----------------------------------------------------------------------------
Uses(ids) ==
    CHOOSE f : f = [s \in SUBSET DOMAIN ids |->
        IF s = {} THEN <<>> ELSE WithUse(f[s \ {Max(s)}], ids[Max(s)])]

LEMMA FirstUsesUnfolded == ASSUME NEW ids PROVE FirstUses(ids) = Uses(ids)[DOMAIN ids]
  BY DEF FirstUses, FoldLeft, MapThenFoldSet, Uses

LEMMA WithUseIs ==
    ASSUME NEW S, NEW used \in Seq(S), NEW id \in S
    PROVE  WithUse(used, id) \in Seq(S) /\ Range(WithUse(used, id)) = Range(used) \cup {id}
  <1>1. CASE id \in Range(used)
    BY <1>1 DEF WithUse
  <1>2. CASE id \notin Range(used)
    <2> DEFINE a == Append(used, id)
    <2>1. /\ a \in Seq(S) /\ Len(a) = Len(used) + 1 /\ Len(used) \in Nat
          /\ a[Len(used) + 1] = id
          /\ \A i \in 1 .. Len(used) : a[i] = used[i]
          /\ DOMAIN a = 1 .. Len(a) /\ DOMAIN used = 1 .. Len(used)
      BY AppendProperties, LenProperties
    <2> HIDE DEF a
    <2>2. Range(a) = Range(used) \cup {id}
      <3>1. ASSUME NEW e \in Range(a) PROVE e \in Range(used) \cup {id}
        BY <2>1 DEF Range
      <3>2. ASSUME NEW e \in Range(used) PROVE e \in Range(a)
        BY <2>1 DEF Range
      <3>3. id \in Range(a)
        BY <2>1 DEF Range
      <3> QED
        BY <3>1, <3>2, <3>3
    <2> QED
      BY <1>2, <2>1, <2>2 DEF WithUse, a
  <1> QED
    BY <1>1, <1>2

LEMMA UsesStep ==
    ASSUME NEW ids, NEW n \in Nat, DOMAIN ids = 1 .. n
    PROVE  /\ Uses(ids)[1 .. 0] = <<>>
           /\ \A k \in 1 .. n : Uses(ids)[1 .. k] = WithUse(Uses(ids)[1 .. (k - 1)], ids[k])
  <1> DEFINE S == Range(ids)
             F == [x \in Seq(S) \X (1 .. n) |-> WithUse(x[1], ids[x[2]])]
             Value(f, s) == IF s = {} THEN <<>> ELSE WithUse(f[s \ {Max(s)}], ids[Max(s)])
  <1>1. \A i \in 1 .. n : ids[i] \in S
    BY DEF Range
  <1>2. F \in [Seq(S) \X (1 .. n) -> Seq(S)]
    BY <1>1, WithUseIs
  <1>3. <<>> \in Seq(S)
    OBVIOUS
  <1>4. PICK f \in [SUBSET (1 .. n) -> Seq(S)] : Folded(f, F, <<>>, n)
    <2> HIDE DEF F, S
    <2> QED
      BY <1>2, <1>3, FoldExists
  <1>5. ASSUME NEW s \in SUBSET (1 .. n), s # {}
        PROVE  F[f[s \ {Max(s)}], Max(s)] = WithUse(f[s \ {Max(s)}], ids[Max(s)])
    <2>1. Max(s) \in 1 .. n
      BY <1>5, MaxIs
    <2>2. f[s \ {Max(s)}] \in Seq(S)
      OBVIOUS
    <2> HIDE DEF S
    <2> QED
      BY <2>1, <2>2
  <1>6. f = [s \in SUBSET (1 .. n) |-> Value(f, s)]
    <2> HIDE DEF F
    <2>1. f = [s \in SUBSET (1 .. n) |-> IF s = {} THEN <<>> ELSE F[f[s \ {Max(s)}], Max(s)]]
      BY <1>4, Zenon DEF Folded
    <2>2. \A s \in SUBSET (1 .. n) :
            (IF s = {} THEN <<>> ELSE F[f[s \ {Max(s)}], Max(s)]) = Value(f, s)
      BY <1>5
    <2> HIDE DEF Value
    <2> QED
      BY <2>1, <2>2
  <1>7. Uses(ids) = [s \in SUBSET (1 .. n) |-> Value(Uses(ids), s)]
    BY <1>6, Zenon DEF Uses
  <1> HIDE DEF Value
  <1>8. \A s \in SUBSET (1 .. n) : Uses(ids)[s] = Value(Uses(ids), s)
    BY <1>7
  <1>9. Uses(ids)[1 .. 0] = <<>>
    <2>1. 1 .. 0 = {} /\ {} \in SUBSET (1 .. n)
      OBVIOUS
    <2> QED
      BY <1>8, <2>1 DEF Value
  <1>10. ASSUME NEW k \in 1 .. n
         PROVE  Uses(ids)[1 .. k] = WithUse(Uses(ids)[1 .. (k - 1)], ids[k])
    <2>1. k \in Nat /\ k > 0 /\ 1 .. k \in SUBSET (1 .. n)
      OBVIOUS
    <2>2. Uses(ids)[1 .. k] = Value(Uses(ids), 1 .. k)
      BY <1>8, <2>1
    <2> QED
      BY <2>1, <2>2, LastOfPrefix DEF Value
  <1> QED
    BY <1>9, <1>10

\* FirstUses keeps what is used, and nothing else.
LEMMA FirstUsesRange ==
    ASSUME NEW ids, NEW n \in Nat, DOMAIN ids = 1 .. n
    PROVE  Range(FirstUses(ids)) = Range(ids)
  <1> DEFINE S == Range(ids)
             u == Uses(ids)
             T == {k \in Nat : k <= n => /\ u[1 .. k] \in Seq(S)
                                         /\ Range(u[1 .. k]) = {ids[i] : i \in 1 .. k}}
  <1>1. /\ u[1 .. 0] = <<>>
        /\ \A k \in 1 .. n : u[1 .. k] = WithUse(u[1 .. (k - 1)], ids[k])
    BY UsesStep
  <1>2. \A i \in 1 .. n : ids[i] \in S
    BY DEF Range
  <1> HIDE DEF u, S
  <1>3. 0 \in T
    <2>1. Range(<<>>) = {} /\ <<>> \in Seq(S) /\ 1 .. 0 = {}
      BY DEF Range
    <2> QED
      BY <1>1, <2>1
  <1>4. ASSUME NEW k \in Nat, k \in T PROVE k + 1 \in T
    <2> SUFFICES ASSUME k + 1 <= n
                 PROVE  /\ u[1 .. (k + 1)] \in Seq(S)
                        /\ Range(u[1 .. (k + 1)]) = {ids[i] : i \in 1 .. (k + 1)}
      OBVIOUS
    <2>1. u[1 .. k] \in Seq(S) /\ Range(u[1 .. k]) = {ids[i] : i \in 1 .. k}
      BY <1>4
    <2>2. k + 1 \in 1 .. n /\ (k + 1) - 1 = k
      OBVIOUS
    <2>3. u[1 .. (k + 1)] = WithUse(u[1 .. k], ids[k + 1])
      BY <1>1, <2>2
    <2>4. ids[k + 1] \in S
      BY <1>2, <2>2
    <2>5. {ids[i] : i \in 1 .. (k + 1)} = {ids[i] : i \in 1 .. k} \cup {ids[k + 1]}
      OBVIOUS
    <2>6. /\ u[1 .. (k + 1)] \in Seq(S)
          /\ Range(u[1 .. (k + 1)]) = Range(u[1 .. k]) \cup {ids[k + 1]}
      BY <2>1, <2>3, <2>4, WithUseIs
    <2> QED
      BY <2>1, <2>5, <2>6
  <1> HIDE DEF T
  <1>5. n \in T
    BY <1>3, <1>4, ByInduction
  <1>6. Range(u[1 .. n]) = {ids[i] : i \in 1 .. n}
    BY <1>5 DEF T
  <1> QED
    BY <1>6, FirstUsesUnfolded DEF Range, u

-----------------------------------------------------------------------------
(* Sequences that are joined and cut *)

IsSeq(s, S) == s \in Seq(S)

IsJoin(u, s, t) ==
    /\ Len(s) \in Nat /\ Len(t) \in Nat
    /\ Len(u) = Len(s) + Len(t)
    /\ \A i \in 1 .. Len(s) : u[i] = s[i]
    /\ \A i \in 1 .. Len(t) : u[Len(s) + i] = t[i]

LEMMA Joins ==
    ASSUME NEW S, NEW s, NEW t, IsSeq(s, S), IsSeq(t, S)
    PROVE  IsSeq(s \o t, S) /\ IsJoin(s \o t, s, t)
  <1>0. s \in Seq(S) /\ t \in Seq(S)
    BY DEF IsSeq
  <1> DEFINE u == s \o t
  <1>1. /\ u \in Seq(S)
        /\ Len(s) \in Nat /\ Len(t) \in Nat
        /\ Len(u) = Len(s) + Len(t)
        /\ \A i \in 1 .. Len(s) + Len(t) : u[i] = IF i <= Len(s) THEN s[i] ELSE t[i - Len(s)]
    BY <1>0, ConcatProperties, LenProperties
  <1> HIDE DEF u
  <1>2. IsJoin(u, s, t)
    <2>1. ASSUME NEW i \in 1 .. Len(s) PROVE u[i] = s[i]
      BY <1>1
    <2>2. ASSUME NEW i \in 1 .. Len(t) PROVE u[Len(s) + i] = t[i]
      <3>1. Len(s) + i \in 1 .. Len(s) + Len(t) /\ ~(Len(s) + i <= Len(s)) /\ (Len(s) + i) - Len(s) = i
        BY <1>1
      <3> QED
        BY <1>1, <3>1
    <2> QED
      BY <1>1, <2>1, <2>2 DEF IsJoin
  <1> QED
    BY <1>1, <1>2 DEF IsSeq, u

LEMMA SeqIs ==
    ASSUME NEW S, NEW s, IsSeq(s, S)
    PROVE  Len(s) \in Nat /\ DOMAIN s = 1 .. Len(s) /\ \A i \in 1 .. Len(s) : s[i] \in S
  BY LenProperties, ElementOfSeq DEF IsSeq

LEMMA One ==
    ASSUME NEW S, NEW x \in S
    PROVE  IsSeq(<<x>>, S) /\ Len(<<x>>) = 1 /\ <<x>>[1] = x
  BY DEF IsSeq

LEMMA None == ASSUME NEW S PROVE IsSeq(<<>>, S) /\ Len(<<>>) = 0
  BY DEF IsSeq

LEMMA Appended ==
    ASSUME NEW S, NEW s, IsSeq(s, S), NEW x \in S
    PROVE  /\ IsSeq(Append(s, x), S) /\ Len(s) \in Nat
           /\ Len(Append(s, x)) = Len(s) + 1
           /\ \A i \in 1 .. Len(s) : Append(s, x)[i] = s[i]
           /\ Append(s, x)[Len(s) + 1] = x
  BY AppendProperties, LenProperties DEF IsSeq

LEMMA SameSeq ==
    ASSUME NEW S, NEW s, NEW t, IsSeq(s, S), IsSeq(t, S),
           Len(s) = Len(t), \A i \in 1 .. Len(s) : s[i] = t[i]
    PROVE  s = t
  BY SeqEqual DEF IsSeq

LEMMA CutOut ==
    ASSUME NEW S, NEW s, IsSeq(s, S), NEW m \in Nat, NEW n \in Nat,
           1 <= m, m <= n, n <= Len(s)
    PROVE  /\ IsSeq(SubSeq(s, m, n), S)
           /\ Len(SubSeq(s, m, n)) = n - m + 1
           /\ \A i \in 1 .. n - m + 1 : SubSeq(s, m, n)[i] = s[m + i - 1]
  <1>1. Len(s) \in Nat /\ \A i \in 1 .. Len(s) : s[i] \in S
    BY SeqIs
  <1>2. \A i \in m .. n : s[i] \in S
    BY <1>1
  <1>3. m \in Int /\ n \in Int
    OBVIOUS
  <1> DEFINE u == SubSeq(s, m, n)
  <1>4. /\ u \in Seq(S)
        /\ Len(u) = IF m <= n THEN n - m + 1 ELSE 0
        /\ \A i \in 1 .. n - m + 1 : u[i] = s[m + i - 1]
    BY <1>2, <1>3, SubSeqProperties
  <1> HIDE DEF u
  <1>5. IsSeq(u, S) /\ Len(u) = n - m + 1
    BY <1>4 DEF IsSeq
  <1> QED
    BY <1>4, <1>5 DEF u

\* b begins with a.
Begins(a, b) == Len(a) <= Len(b) /\ \A i \in 1 .. Len(a) : b[i] = a[i]

\* q stands in t at m .. n.
IsCut(q, t, m, n) == SubSeq(t, m, n) = q

LEMMA SameCut ==
    ASSUME NEW S, NEW t, NEW q, IsSeq(t, S), IsSeq(q, S), NEW m \in Nat, NEW n \in Nat,
           1 <= m, m <= n, n <= Len(t), Len(q) = n - m + 1,
           \A i \in 1 .. Len(q) : t[m + i - 1] = q[i]
    PROVE  IsCut(q, t, m, n)
  <1> DEFINE u == SubSeq(t, m, n)
  <1>1. /\ IsSeq(u, S) /\ Len(u) = n - m + 1
        /\ \A i \in 1 .. n - m + 1 : u[i] = t[m + i - 1]
    BY CutOut
  <1> HIDE DEF u
  <1>2. \A i \in 1 .. Len(u) : u[i] = q[i]
    BY <1>1
  <1>3. u = q
    BY <1>1, <1>2, SameSeq
  <1> QED
    BY <1>3 DEF IsCut, u

LEMMA CutIs ==
    ASSUME NEW S, NEW t, NEW q, IsSeq(t, S), NEW m \in Nat, NEW n \in Nat,
           1 <= m, m <= n, n <= Len(t), IsCut(q, t, m, n)
    PROVE  Len(q) = n - m + 1 /\ \A i \in 1 .. n - m + 1 : q[i] = t[m + i - 1]
  <1> DEFINE u == SubSeq(t, m, n)
  <1>1. Len(u) = n - m + 1 /\ \A i \in 1 .. n - m + 1 : u[i] = t[m + i - 1]
    BY CutOut
  <1>2. u = q
    BY Zenon DEF IsCut
  <1> HIDE DEF u
  <1> QED
    BY <1>1, <1>2

\* A line, some lines and a last one are added to a text: l is without the last.
IsText(t, l, a, q, z) ==
    /\ Len(a) \in Nat /\ Len(q) \in Nat
    /\ Len(l) = Len(a) + 1 + Len(q) /\ Len(t) = Len(l) + 1
    /\ Begins(a, t)
    /\ IsCut(q, t, Len(a) + 2, Len(l))
    /\ t[Len(l) + 1] = z

LEMMA Lines ==
    ASSUME NEW S, NEW a, NEW q, IsSeq(a, S), IsSeq(q, S), NEW c \in S, NEW z \in S, Len(q) >= 1
    PROVE  LET l == (a \o <<c>>) \o q
           IN  IsSeq(Append(l, z), S) /\ IsText(Append(l, z), l, a, q, z)
  <1> DEFINE n == Len(a)
             m == Len(q)
             b == a \o <<c>>
             l == b \o q
             t == Append(l, z)
  <1>1. IsSeq(<<c>>, S) /\ Len(<<c>>) = 1 /\ <<c>>[1] = c
    BY One
  <1>2. IsSeq(b, S) /\ IsJoin(b, a, <<c>>)
    BY <1>1, Joins
  <1> HIDE DEF b
  <1>3. IsSeq(l, S) /\ IsJoin(l, b, q)
    BY <1>2, Joins
  <1> HIDE DEF l
  <1>4. /\ IsSeq(t, S) /\ Len(t) = Len(l) + 1
        /\ \A i \in 1 .. Len(l) : t[i] = l[i]
        /\ t[Len(l) + 1] = z
    BY <1>3, Appended
  <1> HIDE DEF t
  <1>5. n \in Nat /\ m \in Nat /\ Len(b) = n + 1 /\ Len(l) = n + 1 + m /\ Len(t) = n + m + 2
    BY <1>1, <1>2, <1>3, <1>4 DEF IsJoin
  <1> HIDE DEF n, m
  <1>6. ASSUME NEW i \in 1 .. n PROVE t[i] = a[i]
    <2>1. i \in 1 .. Len(l) /\ i \in 1 .. Len(b) /\ i \in 1 .. Len(a)
      BY <1>5 DEF n
    <2> QED
      BY <1>2, <1>3, <1>4, <2>1 DEF IsJoin
  <1>7. ASSUME NEW i \in 1 .. m PROVE t[n + 2 + i - 1] = q[i]
    <2>1. n + 1 + i \in 1 .. Len(l) /\ i \in 1 .. Len(q)
      BY <1>5 DEF m
    <2>2. l[Len(b) + i] = q[i]
      BY <1>3, <2>1 DEF IsJoin
    <2>3. t[n + 1 + i] = l[n + 1 + i]
      BY <1>4, <2>1
    <2>4. n + 2 + i - 1 = n + 1 + i /\ Len(b) + i = n + 1 + i
      BY <1>5
    <2>5. t[n + 1 + i] = q[i]
      BY <2>2, <2>3, <2>4
    <2> QED
      BY <2>4, <2>5
  <1>8. IsCut(q, t, n + 2, Len(l))
    <2> DEFINE i == n + 2
               j == Len(l)
    <2>1. i \in Nat /\ j \in Nat /\ 1 <= i /\ i <= j /\ j <= Len(t) /\ Len(q) = j - i + 1
      BY <1>5 DEF m
    <2>2. \A k \in 1 .. Len(q) : t[i + k - 1] = q[k]
      BY <1>7 DEF m
    <2> HIDE DEF i, j
    <2>3. IsCut(q, t, i, j)
      BY <1>4, <2>1, <2>2, SameCut
    <2> QED
      BY <2>3 DEF i, j
  <1>9. Begins(a, t)
    BY <1>5, <1>6 DEF Begins, n
  <1>10. IsText(t, l, a, q, z)
    BY <1>4, <1>5, <1>8, <1>9 DEF IsText, n, m
  <1> QED
    BY <1>4, <1>10 DEF t, l, b

-----------------------------------------------------------------------------
(* Writing statements *)

Kinds == {"sql", "comment", ";", "", "BEGIN;", "COMMIT;", "SET"}
LinesOver(Q) == [is : Kinds, sql : Seq(Q)]
RangesOver(D) == [delta_id : D, start_line : Nat, end_line : Nat]
StatementsOver(Q, D) == [sql : Q, delta : D]

Comment == Line("comment")
Terminator == Line(";")

IsState(x, Q, D) ==
    /\ x = [lines |-> x.lines, ranges |-> x.ranges]
    /\ IsSeq(x.lines, LinesOver(Q)) /\ IsSeq(x.ranges, RangesOver(D))

\* r says where the lines of a statement are.
Placed(lines, r, s) ==
    /\ r.delta_id = s.delta
    /\ 1 <= r.start_line /\ r.start_line <= r.end_line /\ r.end_line < Len(lines)
    /\ lines[r.end_line + 1] = Terminator
    /\ IsCut(SqlLines(s.sql), lines, r.start_line, r.end_line)

LEMMA LineIs == ASSUME NEW Q, NEW x \in Seq(Q), NEW is \in Kinds
                PROVE  [is |-> is, sql |-> x] \in LinesOver(Q)
  BY DEF LinesOver

LEMMA LabelIs == ASSUME NEW Q, NEW is \in Kinds PROVE Line(is) \in LinesOver(Q)
  <1>1. <<>> \in Seq(Q)
    OBVIOUS
  <1> QED
    BY <1>1, LineIs DEF Line

LEMMA SqlLinesAre ==
    ASSUME NEW Q, NEW sql \in Q
    PROVE  /\ IsSeq(SqlLines(sql), LinesOver(Q)) /\ Len(SqlLines(sql)) >= 1
           /\ SqlLines(sql)[1].sql[1] = sql
  <1> DEFINE a == [is |-> "sql", sql |-> <<sql>>]
             b == Line("sql")
             t == IF sql.do \in {"create", "replace"} THEN <<b>> ELSE <<>>
  <1>1. a \in LinesOver(Q) /\ b \in LinesOver(Q) /\ a.sql[1] = sql
    <2>1. <<sql>> \in Seq(Q) /\ <<sql>>[1] = sql
      BY One DEF IsSeq
    <2>2. "sql" \in Kinds
      BY Zenon DEF Kinds
    <2> QED
      BY <2>1, <2>2, LineIs, LabelIs
  <1>2. SqlLines(sql) = <<a>> \o t
    BY DEF SqlLines
  <1> HIDE DEF a, b
  <1>3. IsSeq(<<a>>, LinesOver(Q)) /\ Len(<<a>>) = 1 /\ <<a>>[1] = a
    BY <1>1, One
  <1>4. IsSeq(t, LinesOver(Q))
    BY <1>1, One, None
  <1> HIDE DEF t
  <1>5. IsSeq(<<a>> \o t, LinesOver(Q)) /\ IsJoin(<<a>> \o t, <<a>>, t)
    BY <1>3, <1>4, Joins
  <1>6. Len(<<a>> \o t) >= 1 /\ (<<a>> \o t)[1] = a
    BY <1>3, <1>5 DEF IsJoin
  <1> QED
    BY <1>1, <1>2, <1>5, <1>6

\* Lines that are added leave a statement where it is.
LEMMA PlacedStays ==
    ASSUME NEW S, NEW lines, NEW more, IsSeq(lines, S), IsSeq(more, S), Begins(lines, more),
           NEW D, NEW r \in RangesOver(D), NEW Q, NEW s \in StatementsOver(Q, D),
           LinesOver(Q) = S, Placed(lines, r, s)
    PROVE  Placed(more, r, s)
  <1> DEFINE m == r.start_line
             n == r.end_line
             q == SqlLines(s.sql)
  <1>1. /\ Len(lines) \in Nat /\ Len(more) \in Nat
        /\ Len(lines) <= Len(more) /\ \A i \in 1 .. Len(lines) : more[i] = lines[i]
    BY SeqIs DEF Begins
  <1>2. /\ m \in Nat /\ n \in Nat /\ 1 <= m /\ m <= n /\ n < Len(lines)
        /\ lines[n + 1] = Terminator /\ IsCut(q, lines, m, n)
    BY DEF RangesOver, Placed
  <1>3. IsSeq(q, S)
    BY SqlLinesAre DEF StatementsOver
  <1> HIDE DEF m, n, q
  <1>4. /\ Len(q) = n - m + 1
        /\ \A i \in 1 .. n - m + 1 : q[i] = lines[m + i - 1]
    BY <1>1, <1>2, CutIs
  <1>5. \A i \in 1 .. Len(q) : more[m + i - 1] = q[i]
    <2> SUFFICES ASSUME NEW i \in 1 .. n - m + 1 PROVE more[m + i - 1] = q[i]
      BY <1>4
    <2>1. m + i - 1 \in 1 .. Len(lines)
      BY <1>1, <1>2
    <2> QED
      BY <1>1, <1>4, <2>1
  <1>6. IsCut(q, more, m, n)
    BY <1>1, <1>2, <1>3, <1>4, <1>5, SameCut
  <1>7. n + 1 \in 1 .. Len(lines)
    BY <1>1, <1>2
  <1>8. n < Len(more) /\ more[n + 1] = Terminator
    BY <1>1, <1>2, <1>7
  <1> QED
    BY <1>2, <1>6, <1>8 DEF Placed, m, n, q

\* A statement behind what is written.
Follows(old, new, s) ==
    /\ Begins(old.lines, new.lines)
    /\ Begins(old.ranges, new.ranges)
    /\ Len(new.ranges) = Len(old.ranges) + 1
    /\ Placed(new.lines, new.ranges[Len(new.ranges)], s)
    /\ new.ranges[Len(new.ranges)].start_line > Len(old.lines)

LEMMA StatementWritten ==
    ASSUME NEW Q, NEW D, NEW state, IsState(state, Q, D), NEW s \in StatementsOver(Q, D)
    PROVE  /\ IsState(WithStatement(state, s), Q, D)
           /\ Follows(state, WithStatement(state, s), s)
  <1> DEFINE L == LinesOver(Q)
             a == state.lines
             q == SqlLines(s.sql)
             l == (a \o <<Comment>>) \o q
             t == Append(l, Terminator)
             r == [delta_id |-> s.delta, start_line |-> Len(a) + 2, end_line |-> Len(l)]
             rs == Append(state.ranges, r)
             new == WithStatement(state, s)
  <1>1. IsSeq(a, L) /\ IsSeq(state.ranges, RangesOver(D))
    BY DEF IsState
  <1>2. IsSeq(q, L) /\ Len(q) >= 1
    BY SqlLinesAre DEF StatementsOver
  <1>3. Comment \in L /\ Terminator \in L
    BY LabelIs, Zenon DEF Kinds, Comment, Terminator, L
  <1>4. new = [lines |-> t, ranges |-> rs]
    BY Zenon DEF WithStatement, Comment, Terminator
  <1> HIDE DEF new, L, a, q
  <1>5. IsSeq(t, L) /\ IsText(t, l, a, q, Terminator)
    BY <1>1, <1>2, <1>3, Lines
  <1> HIDE DEF l, t
  <1>6. /\ Len(a) \in Nat /\ Len(l) = Len(a) + 1 + Len(q) /\ Len(t) = Len(l) + 1 /\ Len(q) \in Nat
        /\ Begins(a, t) /\ IsCut(q, t, Len(a) + 2, Len(l)) /\ t[Len(l) + 1] = Terminator
    BY <1>5 DEF IsText
  <1>7. r \in RangesOver(D) /\ r.start_line = Len(a) + 2 /\ r.end_line = Len(l) /\ r.delta_id = s.delta
    BY <1>6 DEF StatementsOver, RangesOver
  <1> HIDE DEF r
  <1>8. /\ IsSeq(rs, RangesOver(D)) /\ Len(state.ranges) \in Nat
        /\ Len(rs) = Len(state.ranges) + 1
        /\ \A i \in 1 .. Len(state.ranges) : rs[i] = state.ranges[i]
        /\ rs[Len(state.ranges) + 1] = r
    BY <1>1, <1>7, Appended
  <1> HIDE DEF rs
  <1>9. Placed(t, r, s)
    <2>1. 1 <= Len(a) + 2 /\ Len(a) + 2 <= Len(l) /\ Len(l) < Len(t)
      BY <1>2, <1>6
    <2> QED
      BY <1>6, <1>7, <2>1 DEF Placed, q
  <1>10. new.lines = t /\ new.ranges = rs
    BY <1>4
  <1>11. IsState(new, Q, D)
    BY <1>4, <1>5, <1>8, <1>10 DEF IsState, L
  <1>12. Follows(state, new, s)
    <2>1. Begins(state.lines, new.lines)
      BY <1>6, <1>10 DEF a
    <2>2. Begins(state.ranges, new.ranges) /\ Len(new.ranges) = Len(state.ranges) + 1
      BY <1>8, <1>10 DEF Begins
    <2>3. new.ranges[Len(new.ranges)] = r
      BY <1>8, <1>10
    <2>4. r.start_line > Len(state.lines)
      BY <1>6, <1>7 DEF a
    <2> QED
      BY <1>9, <1>10, <2>1, <2>2, <2>3, <2>4 DEF Follows
  <1> QED
    BY <1>11, <1>12 DEF new

\* The first k statements are written behind start, one after the other.
Written(x, start, ss, k, Q, D) ==
    /\ IsState(x, Q, D)
    /\ Begins(start.lines, x.lines)
    /\ Len(x.ranges) = k
    /\ \A j \in 1 .. k : /\ Placed(x.lines, x.ranges[j], ss[j])
                         /\ x.ranges[j].start_line > Len(start.lines)
    /\ \A j \in 1 .. k : j > 1 => x.ranges[j - 1].end_line < x.ranges[j].start_line

LEMMA BeginsTrans ==
    ASSUME NEW S, NEW a, NEW b, NEW c, IsSeq(a, S), IsSeq(b, S), IsSeq(c, S),
           Begins(a, b), Begins(b, c)
    PROVE  Begins(a, c)
  <1>1. Len(a) \in Nat /\ Len(b) \in Nat /\ Len(c) \in Nat
    BY SeqIs
  <1> QED
    BY <1>1 DEF Begins

LEMMA OneMoreWritten ==
    ASSUME NEW Q, NEW D, NEW start, IsState(start, Q, D),
           NEW ss, IsSeq(ss, StatementsOver(Q, D)),
           NEW k \in Nat, k + 1 <= Len(ss),
           NEW x, Written(x, start, ss, k, Q, D)
    PROVE  Written(WithStatement(x, ss[k + 1]), start, ss, k + 1, Q, D)
  <1> DEFINE s == ss[k + 1]
             y == WithStatement(x, s)
             L == LinesOver(Q)
  <1>1. Len(ss) \in Nat /\ \A j \in 1 .. Len(ss) : ss[j] \in StatementsOver(Q, D)
    BY SeqIs
  <1>2. s \in StatementsOver(Q, D)
    BY <1>1
  <1>3. /\ IsState(x, Q, D) /\ Begins(start.lines, x.lines) /\ Len(x.ranges) = k
        /\ \A j \in 1 .. k : /\ Placed(x.lines, x.ranges[j], ss[j])
                             /\ x.ranges[j].start_line > Len(start.lines)
        /\ \A j \in 1 .. k : j > 1 => x.ranges[j - 1].end_line < x.ranges[j].start_line
    BY DEF Written
  <1>4. IsState(y, Q, D) /\ Follows(x, y, s)
    BY <1>2, <1>3, StatementWritten
  <1> HIDE DEF y, L
  <1>5. /\ Begins(x.lines, y.lines) /\ Begins(x.ranges, y.ranges) /\ Len(y.ranges) = k + 1
        /\ Placed(y.lines, y.ranges[k + 1], s) /\ y.ranges[k + 1].start_line > Len(x.lines)
    BY <1>3, <1>4 DEF Follows
  <1>6. /\ IsSeq(start.lines, L) /\ IsSeq(x.lines, L) /\ IsSeq(y.lines, L)
        /\ IsSeq(x.ranges, RangesOver(D)) /\ IsSeq(y.ranges, RangesOver(D))
    BY <1>3, <1>4 DEF IsState, L
  <1>7. Begins(start.lines, y.lines)
    BY <1>3, <1>5, <1>6, BeginsTrans
  <1>8. \A j \in 1 .. k : y.ranges[j] = x.ranges[j] /\ x.ranges[j] \in RangesOver(D)
    BY <1>3, <1>5, <1>6, SeqIs DEF Begins
  <1>9. Len(start.lines) \in Nat /\ Len(x.lines) \in Nat /\ Len(start.lines) <= Len(x.lines)
    BY <1>3, <1>6, SeqIs DEF Begins
  <1>10. y.ranges[k + 1] \in RangesOver(D)
    BY <1>5, <1>6, SeqIs
  <1>11. ASSUME NEW j \in 1 .. k + 1
         PROVE  /\ Placed(y.lines, y.ranges[j], ss[j])
                /\ y.ranges[j].start_line > Len(start.lines)
    <2>1. CASE j = k + 1
      BY <1>5, <1>9, <1>10, <2>1 DEF RangesOver
    <2>2. CASE j # k + 1
      <3>1. j \in 1 .. k /\ j \in 1 .. Len(ss)
        BY <1>1, <2>2
      <3>2. x.ranges[j] \in RangesOver(D) /\ ss[j] \in StatementsOver(Q, D)
        BY <1>1, <1>8, <3>1
      <3>3. Placed(y.lines, x.ranges[j], ss[j])
        BY <1>3, <1>5, <1>6, <3>1, <3>2, PlacedStays DEF L
      <3> QED
        BY <1>3, <1>8, <3>1, <3>3
    <2> QED
      BY <2>1, <2>2
  <1>12. ASSUME NEW j \in 1 .. k + 1, j > 1
         PROVE  y.ranges[j - 1].end_line < y.ranges[j].start_line
    <2>1. CASE j = k + 1
      <3>1. k \in 1 .. k /\ j - 1 = k
        BY <1>12, <2>1
      <3>2. y.ranges[k].end_line < Len(x.lines)
        BY <1>3, <1>8, <3>1 DEF Placed
      <3>3. y.ranges[k].end_line \in Nat /\ y.ranges[k + 1].start_line \in Nat
        BY <1>8, <1>10, <3>1 DEF RangesOver
      <3> QED
        BY <1>5, <1>9, <2>1, <3>1, <3>2, <3>3
    <2>2. CASE j # k + 1
      <3>1. j \in 1 .. k /\ j - 1 \in 1 .. k
        BY <1>12, <2>2
      <3> QED
        BY <1>3, <1>8, <1>12, <3>1
    <2> QED
      BY <2>1, <2>2
  <1> QED
    BY <1>4, <1>5, <1>7, <1>11, <1>12 DEF Written, y

Body(start, ss) ==
    CHOOSE f : f = [s \in SUBSET DOMAIN ss |->
        IF s = {} THEN start ELSE WithStatement(f[s \ {Max(s)}], ss[Max(s)])]

LEMMA BodyUnfolded ==
    ASSUME NEW start, NEW ss
    PROVE  FoldLeft(WithStatement, start, ss) = Body(start, ss)[DOMAIN ss]
  BY DEF FoldLeft, MapThenFoldSet, Body

StatesOver(Q, D) == [lines : Seq(LinesOver(Q)), ranges : Seq(RangesOver(D))]

LEMMA StateIs == ASSUME NEW Q, NEW D, NEW x PROVE IsState(x, Q, D) <=> x \in StatesOver(Q, D)
  BY DEF IsState, IsSeq, StatesOver

LEMMA BodyStep ==
    ASSUME NEW Q, NEW D, NEW start, IsState(start, Q, D),
           NEW ss, NEW n \in Nat, DOMAIN ss = 1 .. n,
           \A i \in 1 .. n : ss[i] \in StatementsOver(Q, D)
    PROVE  /\ Body(start, ss)[1 .. 0] = start
           /\ \A k \in 1 .. n :
                Body(start, ss)[1 .. k] = WithStatement(Body(start, ss)[1 .. (k - 1)], ss[k])
  <1> DEFINE St == StatesOver(Q, D)
             F == [x \in St \X (1 .. n) |-> WithStatement(x[1], ss[x[2]])]
             Value(f, s) == IF s = {} THEN start ELSE WithStatement(f[s \ {Max(s)}], ss[Max(s)])
  <1>1. ASSUME NEW x \in St, NEW i \in 1 .. n PROVE WithStatement(x, ss[i]) \in St
    BY StatementWritten, StateIs
  <1>2. start \in St
    BY StateIs
  <1> HIDE DEF St
  <1>3. F \in [St \X (1 .. n) -> St]
    BY <1>1
  <1>4. PICK f \in [SUBSET (1 .. n) -> St] : Folded(f, F, start, n)
    <2> HIDE DEF F
    <2> QED
      BY <1>2, <1>3, FoldExists
  <1>5. ASSUME NEW s \in SUBSET (1 .. n), s # {}
        PROVE  F[f[s \ {Max(s)}], Max(s)] = WithStatement(f[s \ {Max(s)}], ss[Max(s)])
    <2>1. Max(s) \in 1 .. n
      BY <1>5, MaxIs
    <2>2. f[s \ {Max(s)}] \in St
      OBVIOUS
    <2> QED
      BY <2>1, <2>2
  <1>6. f = [s \in SUBSET (1 .. n) |-> Value(f, s)]
    <2> HIDE DEF F
    <2>1. f = [s \in SUBSET (1 .. n) |-> IF s = {} THEN start ELSE F[f[s \ {Max(s)}], Max(s)]]
      BY <1>4, Zenon DEF Folded
    <2>2. \A s \in SUBSET (1 .. n) :
            (IF s = {} THEN start ELSE F[f[s \ {Max(s)}], Max(s)]) = Value(f, s)
      BY <1>5
    <2> HIDE DEF Value
    <2> QED
      BY <2>1, <2>2
  <1> DEFINE b == Body(start, ss)
  <1>7. b = [s \in SUBSET (1 .. n) |-> Value(b, s)]
    BY <1>6, Zenon DEF Body
  <1> HIDE DEF Value, b
  <1>8. \A s \in SUBSET (1 .. n) : b[s] = Value(b, s)
    BY <1>7
  <1>9. b[1 .. 0] = start
    <2>1. 1 .. 0 = {} /\ {} \in SUBSET (1 .. n)
      OBVIOUS
    <2> QED
      BY <1>8, <2>1 DEF Value
  <1>10. ASSUME NEW k \in 1 .. n
         PROVE  b[1 .. k] = WithStatement(b[1 .. (k - 1)], ss[k])
    <2>1. k \in Nat /\ k > 0 /\ 1 .. k \in SUBSET (1 .. n)
      OBVIOUS
    <2>2. b[1 .. k] = Value(b, 1 .. k)
      BY <1>8, <2>1
    <2> QED
      BY <2>1, <2>2, LastOfPrefix DEF Value
  <1> QED
    BY <1>9, <1>10 DEF b

\* All statements of a unit are written, in order.
LEMMA BodyWritten ==
    ASSUME NEW Q, NEW D, NEW start, IsState(start, Q, D), start.ranges = <<>>,
           NEW ss, IsSeq(ss, StatementsOver(Q, D))
    PROVE  Written(FoldLeft(WithStatement, start, ss), start, ss, Len(ss), Q, D)
  <1> DEFINE n == Len(ss)
             b == Body(start, ss)
             T == {k \in Nat : k <= n => Written(b[1 .. k], start, ss, k, Q, D)}
  <1>1. n \in Nat /\ DOMAIN ss = 1 .. n /\ \A i \in 1 .. n : ss[i] \in StatementsOver(Q, D)
    BY SeqIs
  <1>2. /\ b[1 .. 0] = start
        /\ \A k \in 1 .. n : b[1 .. k] = WithStatement(b[1 .. (k - 1)], ss[k])
    BY <1>1, BodyStep
  <1> HIDE DEF b
  <1>3. 0 \in T
    <2>1. Len(start.lines) \in Nat /\ Len(start.ranges) = 0
      BY SeqIs, None DEF IsState
    <2>2. Written(start, start, ss, 0, Q, D)
      BY <2>1 DEF Written, Begins
    <2> QED
      BY <1>2, <2>2
  <1>4. ASSUME NEW k \in Nat, k \in T PROVE k + 1 \in T
    <2> SUFFICES ASSUME k + 1 <= n PROVE Written(b[1 .. (k + 1)], start, ss, k + 1, Q, D)
      OBVIOUS
    <2>1. Written(b[1 .. k], start, ss, k, Q, D)
      BY <1>1, <1>4
    <2>2. k + 1 \in 1 .. n /\ (k + 1) - 1 = k
      BY <1>1
    <2>3. b[1 .. (k + 1)] = WithStatement(b[1 .. k], ss[k + 1])
      BY <1>2, <2>2
    <2> QED
      BY <2>1, <2>3, OneMoreWritten
  <1> HIDE DEF T
  <1>5. n \in T
    BY <1>1, <1>3, <1>4, ByInduction
  <1>6. Written(b[1 .. n], start, ss, n, Q, D)
    BY <1>1, <1>5 DEF T
  <1> QED
    BY <1>1, <1>6, BodyUnfolded DEF b

-----------------------------------------------------------------------------
(* Writing units *)

Blank == Line("")
Beginning == Line("BEGIN;")
Committing == Line("COMMIT;")

IsUnit(u, Q, D) == IsSeq(u.statements, StatementsOver(Q, D)) /\ u.statements # <<>>

IdsOf(ss) == [i \in DOMAIN ss |-> ss[i].delta]
SqlTextsOf(ss) == [i \in DOMAIN ss |-> SqlLines(ss[i].sql)]

\* The entry of the i-th unit, u, in the manifest of these lines.
UnitPlaced(lines, i, m, u) ==
    /\ m.index = i - 1
    /\ m.transactional = u.transactional /\ m.max_risk = u.max_risk
    /\ Len(m.statements) = Len(u.statements)
    /\ \A j \in 1 .. Len(m.statements) : Placed(lines, m.statements[j], u.statements[j])
    /\ \A j \in 1 .. Len(m.statements) :
            j > 1 => m.statements[j - 1].end_line < m.statements[j].start_line
    /\ m.start_line = m.statements[1].start_line
    /\ m.end_line = m.statements[Len(m.statements)].end_line
    /\ m.delta_ids = FirstUses(IdsOf(u.statements))
    /\ m.checksum = SqlTextsOf(u.statements)

EntriesOver(D, us) ==
    [index : Nat, transactional : {us[i].transactional : i \in DOMAIN us},
     start_line : Nat, end_line : Nat, max_risk : {us[i].max_risk : i \in DOMAIN us},
     delta_ids : {FirstUses(IdsOf(us[i].statements)) : i \in DOMAIN us},
     statements : Seq(RangesOver(D)),
     checksum : {SqlTextsOf(us[i].statements) : i \in DOMAIN us}]

IsFile(x, Q, D, us) ==
    /\ x = [lines |-> x.lines, units |-> x.units]
    /\ IsSeq(x.lines, LinesOver(Q)) /\ IsSeq(x.units, EntriesOver(D, us))

\* The first k units are written one after the other.
Rendered(x, us, k, Q, D) ==
    /\ IsFile(x, Q, D, us)
    /\ Len(x.units) = k
    /\ \A j \in 1 .. k : UnitPlaced(x.lines, j, x.units[j], us[j])
    /\ \A j \in 1 .. k : j > 1 => x.units[j - 1].end_line < x.units[j].start_line

LEMMA JoinBegins ==
    ASSUME NEW S, NEW s, NEW t, IsSeq(s, S), IsSeq(t, S)
    PROVE  IsSeq(s \o t, S) /\ Begins(s, s \o t)
  <1> DEFINE u == s \o t
  <1>1. IsSeq(u, S) /\ IsJoin(u, s, t)
    BY Joins
  <1> HIDE DEF u
  <1> QED
    BY <1>1 DEF IsJoin, Begins, u

LEMMA UnitStays ==
    ASSUME NEW Q, NEW D, NEW lines, NEW more, IsSeq(lines, LinesOver(Q)), IsSeq(more, LinesOver(Q)),
           Begins(lines, more), NEW u, IsUnit(u, Q, D), NEW i,
           NEW m, IsSeq(m.statements, RangesOver(D)), UnitPlaced(lines, i, m, u)
    PROVE  UnitPlaced(more, i, m, u)
  <1>1. ASSUME NEW j \in 1 .. Len(m.statements) PROVE Placed(more, m.statements[j], u.statements[j])
    <2>1. Len(m.statements) = Len(u.statements) /\ Placed(lines, m.statements[j], u.statements[j])
      BY DEF UnitPlaced
    <2>2. m.statements[j] \in RangesOver(D) /\ u.statements[j] \in StatementsOver(Q, D)
      BY <2>1, SeqIs DEF IsUnit
    <2> QED
      BY <2>1, <2>2, PlacedStays
  <1> QED
    BY <1>1 DEF UnitPlaced

\* What the writer adds for a unit.
LEMMA UnitWritten ==
    ASSUME NEW Q, NEW D, NEW us, NEW state, IsFile(state, Q, D, us),
           NEW i \in DOMAIN us, IsUnit(us[i], Q, D)
    PROVE  LET new == WithUnit(state, us[i])
               m == new.units[Len(new.units)]
           IN  /\ IsFile(new, Q, D, us)
               /\ Begins(state.lines, new.lines)
               /\ Begins(state.units, new.units) /\ Len(new.units) = Len(state.units) + 1
               /\ UnitPlaced(new.lines, Len(new.units), m, us[i])
               /\ m.start_line > Len(state.lines)
  <1> DEFINE u == us[i]
             L == LinesOver(Q)
             head == (IF state.units = <<>> THEN <<>> ELSE <<Blank>>)
                     \o <<Comment>>
                     \o (IF u.transactional THEN <<Beginning>> ELSE <<>>)
             start == [lines |-> state.lines \o head, ranges |-> <<>>]
             body == FoldLeft(WithStatement, start, u.statements)
             tail == IF u.transactional THEN <<Committing>> ELSE <<>>
             all == body.lines \o tail
             m == [index |-> Len(state.units), transactional |-> u.transactional,
                   start_line |-> body.ranges[1].start_line,
                   end_line |-> body.ranges[Len(body.ranges)].end_line,
                   max_risk |-> u.max_risk,
                   delta_ids |-> FirstUses(IdsOf(u.statements)),
                   statements |-> body.ranges,
                   checksum |-> SqlTextsOf(u.statements)]
             new == WithUnit(state, u)
  <1>1. new = [lines |-> all, units |-> Append(state.units, m)]
    BY Zenon DEF WithUnit, IdsOf, SqlTextsOf, Blank, Comment, Beginning, Committing
  <1> HIDE DEF new
  <1>2. Blank \in L /\ Comment \in L /\ Beginning \in L /\ Committing \in L
    BY LabelIs, Zenon DEF Kinds, Blank, Comment, Beginning, Committing, L
  <1> HIDE DEF L
  <1>3. IsSeq(head, L) /\ IsSeq(tail, L)
    <2> DEFINE a == IF state.units = <<>> THEN <<>> ELSE <<Blank>>
               b == <<Comment>>
               c == IF u.transactional THEN <<Beginning>> ELSE <<>>
    <2>1. IsSeq(a, L) /\ IsSeq(b, L) /\ IsSeq(c, L) /\ IsSeq(tail, L)
      BY <1>2, One, None
    <2> HIDE DEF a, b, c, tail
    <2>2. IsSeq((a \o b) \o c, L)
      BY <2>1, Joins
    <2> QED
      BY <2>1, <2>2 DEF a, b, c
  <1> HIDE DEF head, tail
  <1>4. IsSeq(state.lines, L) /\ IsSeq(state.units, EntriesOver(D, us))
    BY DEF IsFile, L
  <1>5. IsSeq(start.lines, L) /\ Begins(state.lines, start.lines) /\ start.ranges = <<>>
        /\ start = [lines |-> start.lines, ranges |-> start.ranges]
    BY <1>3, <1>4, JoinBegins
  <1>6. IsState(start, Q, D)
    BY <1>5, None DEF IsState, L
  <1> HIDE DEF start
  <1>7. Written(body, start, u.statements, Len(u.statements), Q, D)
    BY <1>5, <1>6, BodyWritten DEF IsUnit
  <1> HIDE DEF body
  <1> DEFINE n == Len(u.statements)
  <1>8. /\ IsSeq(body.lines, L) /\ IsSeq(body.ranges, RangesOver(D))
        /\ Begins(start.lines, body.lines) /\ Len(body.ranges) = n
        /\ \A j \in 1 .. n : /\ Placed(body.lines, body.ranges[j], u.statements[j])
                             /\ body.ranges[j].start_line > Len(start.lines)
        /\ \A j \in 1 .. n : j > 1 => body.ranges[j - 1].end_line < body.ranges[j].start_line
    BY <1>7 DEF Written, IsState, L
  <1>9. n \in Nat /\ n >= 1 /\ IsSeq(u.statements, StatementsOver(Q, D))
    <2>1. u.statements \in Seq(StatementsOver(Q, D)) /\ u.statements # <<>>
      BY DEF IsUnit, IsSeq
    <2>2. n \in Nat
      BY <2>1, LenProperties
    <2>3. n # 0
      BY <2>1, EmptySeq
    <2> QED
      BY <2>1, <2>2, <2>3 DEF IsSeq
  <1>10. IsSeq(all, L) /\ Begins(body.lines, all)
    BY <1>3, <1>8, JoinBegins
  <1>11. Begins(state.lines, all)
    BY <1>4, <1>5, <1>8, <1>10, BeginsTrans
  <1> HIDE DEF all, n
  <1>12. /\ body.ranges[1] \in RangesOver(D) /\ body.ranges[n] \in RangesOver(D)
    BY <1>8, <1>9, SeqIs
  <1>13. m.start_line \in Nat /\ m.end_line \in Nat
    BY <1>8, <1>12 DEF RangesOver
  <1>14. Len(state.units) \in Nat
    BY <1>4, SeqIs
  <1>15. m \in EntriesOver(D, us)
    <2>1. body.ranges \in Seq(RangesOver(D))
      BY <1>8 DEF IsSeq
    <2> QED
      BY <1>13, <1>14, <2>1 DEF EntriesOver
  <1>16. /\ m.index = Len(state.units) /\ m.transactional = u.transactional
         /\ m.start_line = body.ranges[1].start_line /\ m.end_line = body.ranges[n].end_line
         /\ m.max_risk = u.max_risk /\ m.delta_ids = FirstUses(IdsOf(u.statements))
         /\ m.statements = body.ranges /\ m.checksum = SqlTextsOf(u.statements)
    BY <1>8
  <1> HIDE DEF m
  <1> DEFINE e == Append(state.units, m)
  <1>17. /\ IsSeq(e, EntriesOver(D, us)) /\ Len(e) = Len(state.units) + 1
         /\ Begins(state.units, e) /\ e[Len(state.units) + 1] = m
    BY <1>4, <1>14, <1>15, Appended DEF Begins
  <1> HIDE DEF e
  <1>18. new.lines = all /\ new.units = e /\ IsFile(new, Q, D, us)
    BY <1>1, <1>10, <1>17 DEF IsFile, L, e
  <1>19. ASSUME NEW j \in 1 .. n PROVE Placed(all, body.ranges[j], u.statements[j])
    <2>1. body.ranges[j] \in RangesOver(D) /\ u.statements[j] \in StatementsOver(Q, D)
      BY <1>8, <1>9, SeqIs DEF n
    <2> QED
      BY <1>8, <1>10, <2>1, PlacedStays DEF L
  <1>20. UnitPlaced(all, Len(state.units) + 1, m, u)
    <2>1. Len(state.units) = (Len(state.units) + 1) - 1
      BY <1>14
    <2> HIDE DEF u
    <2> QED
      BY <1>8, <1>16, <1>19, <2>1 DEF UnitPlaced, n
  <1>21. m.start_line > Len(state.lines)
    <2>1. /\ Len(state.lines) \in Nat /\ Len(start.lines) \in Nat
          /\ Len(state.lines) <= Len(start.lines)
      BY <1>4, <1>5, SeqIs DEF Begins
    <2>2. body.ranges[1].start_line > Len(start.lines)
      BY <1>8, <1>9
    <2> QED
      BY <1>13, <1>16, <2>1, <2>2
  <1> QED
    BY <1>11, <1>17, <1>18, <1>20, <1>21 DEF new

LEMMA OneMoreRendered ==
    ASSUME NEW Q, NEW D, NEW us, NEW n \in Nat, DOMAIN us = 1 .. n,
           \A i \in 1 .. n : IsUnit(us[i], Q, D),
           NEW k \in Nat, k + 1 <= n,
           NEW x, Rendered(x, us, k, Q, D)
    PROVE  Rendered(WithUnit(x, us[k + 1]), us, k + 1, Q, D)
  <1> DEFINE u == us[k + 1]
             y == WithUnit(x, u)
             L == LinesOver(Q)
             E == EntriesOver(D, us)
  <1>1. /\ IsFile(x, Q, D, us) /\ Len(x.units) = k
        /\ \A j \in 1 .. k : UnitPlaced(x.lines, j, x.units[j], us[j])
        /\ \A j \in 1 .. k : j > 1 => x.units[j - 1].end_line < x.units[j].start_line
    BY DEF Rendered
  <1>2. k + 1 \in DOMAIN us /\ IsUnit(u, Q, D)
    OBVIOUS
  <1>3. /\ IsFile(y, Q, D, us)
        /\ Begins(x.lines, y.lines)
        /\ Begins(x.units, y.units) /\ Len(y.units) = k + 1
        /\ UnitPlaced(y.lines, k + 1, y.units[k + 1], u)
        /\ y.units[k + 1].start_line > Len(x.lines)
    <2>1. LET m == y.units[Len(y.units)]
          IN  /\ IsFile(y, Q, D, us)
              /\ Begins(x.lines, y.lines)
              /\ Begins(x.units, y.units) /\ Len(y.units) = k + 1
              /\ UnitPlaced(y.lines, Len(y.units), m, u)
              /\ m.start_line > Len(x.lines)
      BY <1>1, <1>2, UnitWritten
    <2> HIDE DEF y, u
    <2> QED
      BY <2>1
  <1> HIDE DEF y, L, E
  <1>4. /\ IsSeq(x.lines, L) /\ IsSeq(y.lines, L) /\ IsSeq(x.units, E) /\ IsSeq(y.units, E)
    BY <1>1, <1>3 DEF IsFile, L, E
  <1>5. \A j \in 1 .. k : y.units[j] = x.units[j] /\ x.units[j] \in E
    BY <1>1, <1>3, <1>4, SeqIs DEF Begins
  <1>6. y.units[k + 1] \in E
    BY <1>3, <1>4, SeqIs
  <1>7. ASSUME NEW m \in E PROVE /\ m.start_line \in Nat /\ m.end_line \in Nat
                                 /\ IsSeq(m.statements, RangesOver(D))
    BY DEF E, EntriesOver, IsSeq
  <1>8. ASSUME NEW j \in 1 .. k + 1 PROVE UnitPlaced(y.lines, j, y.units[j], us[j])
    <2>1. CASE j = k + 1
      BY <1>3, <2>1
    <2>2. CASE j # k + 1
      <3>1. j \in 1 .. k /\ j \in 1 .. n
        BY <2>2
      <3>2. IsUnit(us[j], Q, D) /\ IsSeq(x.units[j].statements, RangesOver(D))
        BY <1>5, <1>7, <3>1
      <3>3. UnitPlaced(x.lines, j, x.units[j], us[j])
        BY <1>1, <3>1
      <3>4. UnitPlaced(y.lines, j, x.units[j], us[j])
        BY <1>3, <1>4, <3>2, <3>3, UnitStays DEF L
      <3> QED
        BY <1>5, <3>1, <3>4
    <2> QED
      BY <2>1, <2>2
  <1>9. ASSUME NEW j \in 1 .. k + 1, j > 1
        PROVE  y.units[j - 1].end_line < y.units[j].start_line
    <2>1. CASE j = k + 1
      <3>1. k \in 1 .. k /\ j - 1 = k /\ k \in 1 .. n
        BY <1>9, <2>1
      <3> DEFINE m == x.units[k]
                 h == Len(m.statements)
      <3>2. UnitPlaced(x.lines, k, m, us[k]) /\ m \in E /\ IsUnit(us[k], Q, D)
        BY <1>1, <1>5, <3>1
      <3> HIDE DEF m
      <3>3. h \in Nat /\ h = Len(us[k].statements) /\ m.end_line = m.statements[h].end_line
        BY <1>7, <3>2, SeqIs DEF UnitPlaced
      <3>4. h # 0
        <4>1. us[k].statements \in Seq(StatementsOver(Q, D)) /\ us[k].statements # <<>>
          BY <3>2 DEF IsUnit, IsSeq
        <4> QED
          BY <3>3, <4>1, EmptySeq
      <3>5. h \in 1 .. Len(m.statements)
        BY <3>3, <3>4
      <3>6. Placed(x.lines, m.statements[h], us[k].statements[h])
        BY <3>2, <3>5 DEF UnitPlaced
      <3>7. m.end_line < Len(x.lines)
        BY <3>3, <3>6 DEF Placed
      <3>8. /\ m.end_line \in Nat /\ Len(x.lines) \in Nat
            /\ y.units[k + 1].start_line \in Nat /\ y.units[k] = m
        BY <1>4, <1>5, <1>6, <1>7, <3>1, <3>2, SeqIs DEF m
      <3> QED
        BY <1>3, <2>1, <3>1, <3>7, <3>8
    <2>2. CASE j # k + 1
      <3>1. j \in 1 .. k /\ j - 1 \in 1 .. k
        BY <1>9, <2>2
      <3> QED
        BY <1>1, <1>5, <1>9, <3>1
    <2> QED
      BY <2>1, <2>2
  <1> QED
    BY <1>3, <1>8, <1>9 DEF Rendered, y

File(start, us) ==
    CHOOSE f : f = [s \in SUBSET DOMAIN us |->
        IF s = {} THEN start ELSE WithUnit(f[s \ {Max(s)}], us[Max(s)])]

LEMMA FileUnfolded ==
    ASSUME NEW start, NEW us
    PROVE  FoldLeft(WithUnit, start, us) = File(start, us)[DOMAIN us]
  BY DEF FoldLeft, MapThenFoldSet, File

FilesOver(Q, D, us) == [lines : Seq(LinesOver(Q)), units : Seq(EntriesOver(D, us))]

LEMMA FileIs ==
    ASSUME NEW Q, NEW D, NEW us, NEW x PROVE IsFile(x, Q, D, us) <=> x \in FilesOver(Q, D, us)
  <1> HIDE DEF EntriesOver
  <1> QED
    BY DEF IsFile, IsSeq, FilesOver

LEMMA FileStep ==
    ASSUME NEW Q, NEW D, NEW us, NEW n \in Nat, DOMAIN us = 1 .. n,
           \A i \in 1 .. n : IsUnit(us[i], Q, D),
           NEW start, IsFile(start, Q, D, us)
    PROVE  /\ File(start, us)[1 .. 0] = start
           /\ \A k \in 1 .. n :
                File(start, us)[1 .. k] = WithUnit(File(start, us)[1 .. (k - 1)], us[k])
  <1> DEFINE St == FilesOver(Q, D, us)
             F == [x \in St \X (1 .. n) |-> WithUnit(x[1], us[x[2]])]
             Value(f, s) == IF s = {} THEN start ELSE WithUnit(f[s \ {Max(s)}], us[Max(s)])
  <1>1. ASSUME NEW x \in St, NEW i \in 1 .. n PROVE WithUnit(x, us[i]) \in St
    <2>1. IsFile(x, Q, D, us) /\ i \in DOMAIN us /\ IsUnit(us[i], Q, D)
      BY FileIs
    <2>2. IsFile(WithUnit(x, us[i]), Q, D, us)
      BY <2>1, UnitWritten
    <2> QED
      BY <2>2, FileIs
  <1>2. start \in St
    BY FileIs
  <1> HIDE DEF St
  <1>3. F \in [St \X (1 .. n) -> St]
    BY <1>1
  <1>4. PICK f \in [SUBSET (1 .. n) -> St] : Folded(f, F, start, n)
    <2> HIDE DEF F
    <2> QED
      BY <1>2, <1>3, FoldExists
  <1>5. ASSUME NEW s \in SUBSET (1 .. n), s # {}
        PROVE  F[f[s \ {Max(s)}], Max(s)] = WithUnit(f[s \ {Max(s)}], us[Max(s)])
    <2>1. Max(s) \in 1 .. n
      BY <1>5, MaxIs
    <2>2. f[s \ {Max(s)}] \in St
      OBVIOUS
    <2> QED
      BY <2>1, <2>2
  <1>6. f = [s \in SUBSET (1 .. n) |-> Value(f, s)]
    <2> HIDE DEF F
    <2>1. f = [s \in SUBSET (1 .. n) |-> IF s = {} THEN start ELSE F[f[s \ {Max(s)}], Max(s)]]
      BY <1>4, Zenon DEF Folded
    <2>2. \A s \in SUBSET (1 .. n) :
            (IF s = {} THEN start ELSE F[f[s \ {Max(s)}], Max(s)]) = Value(f, s)
      BY <1>5
    <2> HIDE DEF Value
    <2> QED
      BY <2>1, <2>2
  <1> DEFINE b == File(start, us)
  <1>7. b = [s \in SUBSET (1 .. n) |-> Value(b, s)]
    BY <1>6, Zenon DEF File
  <1> HIDE DEF Value, b
  <1>8. \A s \in SUBSET (1 .. n) : b[s] = Value(b, s)
    BY <1>7
  <1>9. b[1 .. 0] = start
    <2>1. 1 .. 0 = {} /\ {} \in SUBSET (1 .. n)
      OBVIOUS
    <2> QED
      BY <1>8, <2>1 DEF Value
  <1>10. ASSUME NEW k \in 1 .. n
         PROVE  b[1 .. k] = WithUnit(b[1 .. (k - 1)], us[k])
    <2>1. k \in Nat /\ k > 0 /\ 1 .. k \in SUBSET (1 .. n)
      OBVIOUS
    <2>2. b[1 .. k] = Value(b, 1 .. k)
      BY <1>8, <2>1
    <2> QED
      BY <2>1, <2>2, LastOfPrefix DEF Value
  <1> QED
    BY <1>9, <1>10 DEF b

\* All units of a plan are written, in order.
LEMMA AllRendered ==
    ASSUME NEW Q, NEW D, NEW p, NEW n \in Nat, DOMAIN p.units = 1 .. n,
           \A i \in 1 .. n : IsUnit(p.units[i], Q, D)
    PROVE  Rendered(ManifestUnits(p), p.units, n, Q, D)
  <1> DEFINE us == p.units
             set_line == Line("SET")
             header == <<Comment, Comment, Comment, set_line>>
             start == [lines |-> header, units |-> <<>>]
             b == File(start, us)
             T == {k \in Nat : k <= n => Rendered(b[1 .. k], us, k, Q, D)}
  <1>1. ManifestUnits(p) = FoldLeft(WithUnit, start, us)
    BY Zenon DEF ManifestUnits, Comment
  <1>2. IsFile(start, Q, D, us)
    <2>1. Comment \in LinesOver(Q) /\ set_line \in LinesOver(Q)
      BY LabelIs, Zenon DEF Kinds, Comment
    <2> HIDE DEF set_line
    <2>2. IsSeq(header, LinesOver(Q))
      BY <2>1 DEF IsSeq
    <2> HIDE DEF header
    <2> QED
      BY <2>2, None DEF IsFile
  <1>3. start.units = <<>>
    OBVIOUS
  <1> HIDE DEF start
  <1>4. /\ b[1 .. 0] = start
        /\ \A k \in 1 .. n : b[1 .. k] = WithUnit(b[1 .. (k - 1)], us[k])
    <2>1. DOMAIN us = 1 .. n /\ \A i \in 1 .. n : IsUnit(us[i], Q, D)
      OBVIOUS
    <2> HIDE DEF us
    <2> QED
      BY <1>2, <2>1, FileStep
  <1> HIDE DEF b
  <1>5. 0 \in T
    <2>1. Rendered(start, us, 0, Q, D)
      BY <1>2, <1>3, None DEF Rendered
    <2> QED
      BY <1>4, <2>1
  <1>6. ASSUME NEW k \in Nat, k \in T PROVE k + 1 \in T
    <2> SUFFICES ASSUME k + 1 <= n PROVE Rendered(b[1 .. (k + 1)], us, k + 1, Q, D)
      OBVIOUS
    <2>1. Rendered(b[1 .. k], us, k, Q, D)
      BY <1>6
    <2>2. k + 1 \in 1 .. n /\ (k + 1) - 1 = k
      OBVIOUS
    <2>3. b[1 .. (k + 1)] = WithUnit(b[1 .. k], us[k + 1])
      BY <1>4, <2>2
    <2> QED
      BY <2>1, <2>3, OneMoreRendered
  <1> HIDE DEF T
  <1>7. n \in T
    BY <1>5, <1>6, ByInduction
  <1>8. Rendered(b[1 .. n], us, n, Q, D)
    BY <1>7 DEF T
  <1> QED
    BY <1>1, <1>8, FileUnfolded DEF b

-----------------------------------------------------------------------------
(* Reading *)

AssessmentsOf(ls) == [i \in DOMAIN ls |-> [delta_id |-> i, level |-> ls[i]]]

\* The levels as the reader looks them up.
LevelIn(as) ==
    [i \in {a.delta_id : a \in Range(as)} |-> (CHOOSE a \in Range(as) : a.delta_id = i).level]

LEMMA LevelsKept ==
    ASSUME NEW ls
    PROVE  /\ DOMAIN LevelIn(AssessmentsOf(ls)) = DOMAIN ls
           /\ \A i \in DOMAIN ls : LevelIn(AssessmentsOf(ls))[i] = ls[i]
           /\ {a.level : a \in Range(AssessmentsOf(ls))} = Range(ls)
           /\ DOMAIN AssessmentsOf(ls) = DOMAIN ls
           /\ \A i \in DOMAIN ls : AssessmentsOf(ls)[i].delta_id = i
  <1> DEFINE as == AssessmentsOf(ls)
  <1>1. DOMAIN as = DOMAIN ls /\ \A i \in DOMAIN ls : as[i] = [delta_id |-> i, level |-> ls[i]]
    BY DEF AssessmentsOf
  <1> HIDE DEF as
  <1>2. ASSUME NEW i \in DOMAIN ls PROVE /\ as[i] \in Range(as) /\ as[i].delta_id = i
                                         /\ as[i].level = ls[i]
    <2>1. i \in DOMAIN as /\ as[i] = [delta_id |-> i, level |-> ls[i]]
      BY <1>1
    <2>2. as[i] \in Range(as)
      BY <2>1 DEF Range
    <2>3. as[i].delta_id = i /\ as[i].level = ls[i]
      BY <2>1
    <2> QED
      BY <2>2, <2>3
  <1>3. ASSUME NEW a \in Range(as) PROVE a.delta_id \in DOMAIN ls /\ a.level = ls[a.delta_id]
    <2>1. PICK i \in DOMAIN as : a = as[i]
      BY DEF Range
    <2>2. i \in DOMAIN ls /\ a = [delta_id |-> i, level |-> ls[i]]
      BY <1>1, <2>1
    <2> QED
      BY <2>2
  <1>4. {a.delta_id : a \in Range(as)} = DOMAIN ls
    BY <1>2, <1>3
  <1>5. ASSUME NEW i \in DOMAIN ls PROVE LevelIn(as)[i] = ls[i]
    <2>1. \E a \in Range(as) : a.delta_id = i
      BY <1>2
    <2> DEFINE c == CHOOSE a \in Range(as) : a.delta_id = i
    <2>2. c \in Range(as) /\ c.delta_id = i
      BY <2>1
    <2>3. LevelIn(as)[i] = c.level
      BY <1>4 DEF LevelIn
    <2> HIDE DEF c
    <2> QED
      BY <1>3, <2>2, <2>3
  <1>6. DOMAIN LevelIn(as) = DOMAIN ls
    BY <1>4 DEF LevelIn
  <1>7. {a.level : a \in Range(as)} = Range(ls)
    <2>1. ASSUME NEW a \in Range(as) PROVE a.level \in Range(ls)
      BY <1>3 DEF Range
    <2>2. ASSUME NEW l \in Range(ls) PROVE \E a \in Range(as) : a.level = l
      <3>1. PICK i \in DOMAIN ls : l = ls[i]
        BY DEF Range
      <3>2. as[i] \in Range(as) /\ as[i].level = l
        BY <1>2, <3>1
      <3> QED
        BY <3>2
    <2> QED
      BY <2>1, <2>2
  <1> QED
    BY <1>1, <1>2, <1>5, <1>6, <1>7 DEF as

\* Ranges that follow one another lie between the first and the last.
LEMMA RangesOrdered ==
    ASSUME NEW D, NEW rs, IsSeq(rs, RangesOver(D)),
           \A j \in 1 .. Len(rs) : rs[j].start_line <= rs[j].end_line,
           \A j \in 1 .. Len(rs) : j > 1 => rs[j - 1].end_line < rs[j].start_line
    PROVE  \A j \in 1 .. Len(rs) : /\ rs[1].start_line <= rs[j].start_line
                                   /\ rs[j].end_line <= rs[Len(rs)].end_line
  <1> DEFINE n == Len(rs)
             T == {j \in Nat : 1 <= j /\ j <= n => rs[1].start_line <= rs[j].start_line}
             U == {j \in Nat : j < n => rs[n - j].end_line <= rs[n].end_line}
  <1>1. n \in Nat /\ \A j \in 1 .. n : rs[j].start_line \in Nat /\ rs[j].end_line \in Nat
    <2>1. n \in Nat /\ \A j \in 1 .. n : rs[j] \in RangesOver(D)
      BY SeqIs
    <2> QED
      BY <2>1 DEF RangesOver
  <1>2. ASSUME NEW j \in Nat, 1 <= j, j + 1 <= n
        PROVE  /\ rs[j].start_line <= rs[j].end_line /\ rs[j].end_line < rs[j + 1].start_line
               /\ rs[j + 1].start_line <= rs[j + 1].end_line
               /\ rs[j].start_line \in Nat /\ rs[j].end_line \in Nat
               /\ rs[j + 1].start_line \in Nat /\ rs[j + 1].end_line \in Nat
    <2>1. j \in 1 .. n /\ j + 1 \in 1 .. n /\ j + 1 > 1 /\ (j + 1) - 1 = j
      BY <1>1, <1>2
    <2> QED
      BY <1>1, <2>1
  <1> HIDE DEF n
  <1>3. \A j \in Nat : j \in T
    <2>1. 0 \in T
      OBVIOUS
    <2>2. ASSUME NEW j \in Nat, j \in T PROVE j + 1 \in T
      <3> SUFFICES ASSUME j + 1 <= n PROVE rs[1].start_line <= rs[j + 1].start_line
        OBVIOUS
      <3>1. CASE j = 0
        BY <1>1, <3>1
      <3>2. CASE j # 0
        <4>1. 1 <= j /\ j <= n /\ 1 \in 1 .. n
          BY <1>1, <3>2
        <4>2. rs[1].start_line <= rs[j].start_line
          BY <2>2, <4>1
        <4> QED
          BY <1>1, <1>2, <4>1, <4>2
      <3> QED
        BY <3>1, <3>2
    <2> HIDE DEF T
    <2> QED
      BY <2>1, <2>2, ByInduction
  <1>4. \A j \in Nat : j \in U
    <2>1. 0 \in U
      <3> SUFFICES ASSUME 0 < n PROVE rs[n].end_line <= rs[n].end_line
        BY <1>1
      <3>1. n \in 1 .. n
        BY <1>1
      <3> QED
        BY <1>1, <3>1
    <2>2. ASSUME NEW j \in Nat, j \in U PROVE j + 1 \in U
      <3> SUFFICES ASSUME j + 1 < n PROVE rs[n - (j + 1)].end_line <= rs[n].end_line
        OBVIOUS
      <3> DEFINE i == n - (j + 1)
      <3>1. i \in Nat /\ 1 <= i /\ i + 1 <= n /\ i + 1 = n - j /\ n \in 1 .. n /\ j < n
        BY <1>1
      <3> HIDE DEF i
      <3>2. rs[i + 1].end_line <= rs[n].end_line
        BY <2>2, <3>1
      <3>3. rs[i].end_line <= rs[n].end_line
        BY <1>1, <1>2, <3>1, <3>2
      <3> QED
        BY <3>3 DEF i
    <2> HIDE DEF U
    <2> QED
      BY <2>1, <2>2, ByInduction
  <1> HIDE DEF T, U
  <1>5. ASSUME NEW j \in 1 .. n
        PROVE  rs[1].start_line <= rs[j].start_line /\ rs[j].end_line <= rs[n].end_line
    <2>1. j \in Nat /\ n - j \in Nat /\ n - (n - j) = j /\ n - j < n /\ 1 <= j /\ j <= n
      BY <1>1
    <2>2. j \in T /\ n - j \in U
      BY <1>3, <1>4, <2>1
    <2> QED
      BY <2>1, <2>2 DEF T, U
  <1> QED
    BY <1>5 DEF n

\* What the reader asks of a statement, and of the entry of a unit.
StatementRead(u, i, lines, ids) ==
    LET s == u.statements[i]
    IN  /\ s.delta_id \in ids
        /\ IsLineRange(s, lines)
        /\ i > 1 => u.statements[i - 1].end_line < s.start_line
        /\ u.start_line <= s.start_line /\ s.end_line <= u.end_line
        /\ s.end_line < Len(lines) /\ lines[s.end_line + 1] = Terminator

RiskOf(level, ids) == Highest({level[d] : d \in Range(ids)})
UsedIn(u) == [k \in DOMAIN u.statements |-> u.statements[k].delta_id]
CutFrom(u, lines) ==
    [k \in DOMAIN u.statements |->
        SubSeq(lines, u.statements[k].start_line, u.statements[k].end_line)]

EntryRead(ms, i, lines, level) ==
    LET u == ms[i]
    IN  /\ u.index = i - 1
        /\ IsLineRange(u, lines)
        /\ i > 1 => ms[i - 1].end_line < u.start_line
        /\ u.statements # <<>>
        /\ \A k \in DOMAIN u.statements : StatementRead(u, k, lines, DOMAIN level)
        /\ u.start_line = u.statements[1].start_line
        /\ u.end_line = u.statements[Len(u.statements)].end_line
        /\ ~u.transactional => Len(u.statements) = 1
        /\ u.delta_ids = FirstUses(UsedIn(u))
        /\ u.max_risk = RiskOf(level, UsedIn(u))
        /\ u.checksum = CutFrom(u, lines)

LEMMA UnitsAre ==
    ASSUME NEW ms, NEW lines, NEW as
    PROVE  _load_units(ms, lines, as)
            <=> /\ \A i \in DOMAIN ms : EntryRead(ms, i, lines, LevelIn(as))
                /\ AllRepresented(ms, DOMAIN LevelIn(as))
  BY Zenon DEF _load_units, _load_statements, EntryRead, RiskOf, StatementRead, LevelIn, UsedIn, CutFrom,
               Terminator

\* What is read of a statement, and of a unit.
StatementOf(s, lines) == [sql |-> lines[s.start_line].sql[1], delta |-> s.delta_id]
UnitOf(u, lines) ==
    [transactional |-> u.transactional, max_risk |-> u.max_risk,
     statements |-> [i \in DOMAIN u.statements |-> StatementOf(u.statements[i], lines)]]

Accepted(m, lines) ==
    LET assessed == {a.level : a \in Range(m.assessments)}
    IN  /\ m.delta_count = Len(m.assessments)
        /\ \A i \in DOMAIN m.assessments : m.assessments[i].delta_id = i
        /\ m.overall_max_risk = IF assessed = {} THEN <<>> ELSE <<Highest(assessed)>>
        /\ m.checksum = lines
        /\ _load_units(m.units, lines, m.assessments)

LEMMA BundleIs ==
    ASSUME NEW m, NEW lines
    PROVE  load_bundle(m, lines) =
            IF Accepted(m, lines) THEN <<[i \in DOMAIN m.units |-> UnitOf(m.units[i], lines)]>>
            ELSE <<>>
  BY Zenon DEF load_bundle, Accepted, UnitOf, StatementOf

\* What is written of a unit is accepted.
LEMMA EntryAccepted ==
    ASSUME NEW Q, NEW level, NEW lines, IsSeq(lines, LinesOver(Q)),
           NEW ms, NEW i \in Nat, NEW u, IsUnit(u, Q, DOMAIN level),
           IsSeq(ms[i].statements, RangesOver(DOMAIN level)),
           UnitPlaced(lines, i, ms[i], u), i > 1 => ms[i - 1].end_line < ms[i].start_line,
           ~u.transactional => Len(u.statements) = 1,
           u.max_risk = RiskOf(level, IdsOf(u.statements))
    PROVE  EntryRead(ms, i, lines, level) /\ UnitOf(ms[i], lines).statements = u.statements
  <1> DEFINE D == DOMAIN level
             m == ms[i]
             rs == m.statements
             ss == u.statements
             n == Len(ss)
  <1>1. /\ m.index = i - 1 /\ m.transactional = u.transactional /\ m.max_risk = u.max_risk
        /\ Len(rs) = n
        /\ \A j \in 1 .. Len(rs) : Placed(lines, rs[j], ss[j])
        /\ \A j \in 1 .. Len(rs) : j > 1 => rs[j - 1].end_line < rs[j].start_line
        /\ m.start_line = rs[1].start_line /\ m.end_line = rs[Len(rs)].end_line
        /\ m.delta_ids = FirstUses(IdsOf(ss)) /\ m.checksum = SqlTextsOf(ss)
    BY DEF UnitPlaced
  <1>2. /\ ss # <<>> /\ n \in Nat /\ DOMAIN ss = 1 .. n /\ DOMAIN rs = 1 .. n
        /\ \A j \in 1 .. n : rs[j] \in RangesOver(D) /\ ss[j] \in StatementsOver(Q, D)
    BY <1>1, SeqIs DEF IsUnit
  <1>3. n >= 1
    <2>1. ss \in Seq(StatementsOver(Q, D))
      BY DEF IsUnit, IsSeq
    <2>2. n # 0
      BY <1>2, <2>1, EmptySeq
    <2> QED
      BY <1>2, <2>2
  <1>4. ASSUME NEW j \in 1 .. n
        PROVE  /\ rs[j].delta_id = ss[j].delta /\ rs[j].delta_id \in D
               /\ rs[j].start_line \in Nat /\ rs[j].end_line \in Nat
               /\ 1 <= rs[j].start_line /\ rs[j].start_line <= rs[j].end_line
               /\ rs[j].end_line < Len(lines) /\ lines[rs[j].end_line + 1] = Terminator
               /\ IsCut(SqlLines(ss[j].sql), lines, rs[j].start_line, rs[j].end_line)
    <2>1. Placed(lines, rs[j], ss[j])
      BY <1>1
    <2>2. rs[j] \in RangesOver(D)
      BY <1>2
    <2> HIDE DEF rs, ss, D
    <2> QED
      BY <2>1, <2>2 DEF Placed, RangesOver
  <1>5. \A j \in 1 .. n : m.start_line <= rs[j].start_line /\ rs[j].end_line <= m.end_line
    <2>1. IsSeq(rs, RangesOver(D)) /\ \A j \in 1 .. Len(rs) : rs[j].start_line <= rs[j].end_line
      BY <1>1, <1>4
    <2> HIDE DEF rs, D
    <2> QED
      BY <1>1, <2>1, RangesOrdered
  <1>6. Len(lines) \in Nat
    BY SeqIs
  <1>7. m.start_line \in Nat /\ m.end_line \in Nat /\ IsLineRange(m, lines)
    <2>1. 1 \in 1 .. n /\ n \in 1 .. n
      BY <1>2, <1>3
    <2>2. /\ m.start_line = rs[1].start_line /\ m.end_line = rs[n].end_line
          /\ rs[1].end_line <= m.end_line
      BY <1>1, <1>5, <2>1
    <2>3. /\ rs[1].start_line \in Nat /\ rs[1].end_line \in Nat /\ 1 <= rs[1].start_line
          /\ rs[1].start_line <= rs[1].end_line
          /\ rs[n].end_line \in Nat /\ rs[n].end_line < Len(lines)
      BY <1>4, <2>1
    <2> HIDE DEF m, rs, n
    <2> QED
      BY <1>6, <2>2, <2>3 DEF IsLineRange
  <1>8. UsedIn(m) = IdsOf(ss)
    BY <1>2, <1>4 DEF UsedIn, IdsOf
  <1>9. CutFrom(m, lines) = SqlTextsOf(ss)
    BY <1>2, <1>4 DEF CutFrom, SqlTextsOf, IsCut
  <1>10. ASSUME NEW j \in 1 .. n PROVE StatementRead(m, j, lines, D)
    <2>1. IsLineRange(rs[j], lines)
      BY <1>4, <1>6 DEF IsLineRange
    <2>2. j > 1 => rs[j - 1].end_line < rs[j].start_line
      BY <1>1
    <2> QED
      BY <1>4, <1>5, <2>1, <2>2 DEF StatementRead
  <1>11. ASSUME NEW j \in 1 .. n PROVE StatementOf(rs[j], lines) = ss[j]
    <2> DEFINE q == SqlLines(ss[j].sql)
    <2>1. ss[j] \in StatementsOver(Q, D)
      BY <1>2
    <2>2. ss[j].sql \in Q /\ ss[j] = [sql |-> ss[j].sql, delta |-> ss[j].delta]
      BY <2>1 DEF StatementsOver
    <2>3. q[1].sql[1] = ss[j].sql
      BY <2>2, SqlLinesAre
    <2> HIDE DEF q
    <2> DEFINE f == rs[j].start_line
               l == rs[j].end_line
    <2>4. f \in Nat /\ l \in Nat /\ 1 <= f /\ f <= l /\ l < Len(lines)
      BY <1>4
    <2>5. IsCut(q, lines, f, l)
      BY <1>4, Zenon DEF q
    <2> HIDE DEF f, l
    <2>6. \A k \in 1 .. l - f + 1 : q[k] = lines[f + k - 1]
      <3>1. l <= Len(lines) /\ IsSeq(lines, LinesOver(Q))
        BY <1>6, <2>4
      <3> HIDE DEF D, m, rs, ss, n
      <3> QED
        BY <2>4, <2>5, <3>1, CutIs
    <2>7. 1 \in 1 .. l - f + 1 /\ f + 1 - 1 = f
      BY <2>4
    <2>8. lines[f] = q[1]
      BY <2>6, <2>7
    <2> QED
      BY <1>4, <2>2, <2>3, <2>8 DEF StatementOf, f
  <1>12. UnitOf(m, lines).statements = ss
    <2>1. UnitOf(m, lines).statements = [j \in 1 .. n |-> StatementOf(rs[j], lines)]
      BY <1>2 DEF UnitOf
    <2>2. ss = [j \in 1 .. n |-> ss[j]]
      <3>1. ss \in Seq(StatementsOver(Q, D))
        BY DEF IsUnit, IsSeq
      <3> QED
        BY <1>2, <3>1
    <2> QED
      BY <1>11, <2>1, <2>2
  <1>13. rs # <<>>
    BY <1>1, <1>2, <1>3
  <1>14. EntryRead(ms, i, lines, level)
    BY <1>1, <1>2, <1>7, <1>8, <1>9, <1>10, <1>13 DEF EntryRead
  <1> QED
    BY <1>12, <1>14

\* A plan that MigrationPlan takes, its levels in R, its SQL in Q.
IsPlan(p, Q, R) ==
    /\ p.levels \in Seq(R) /\ p.units \in Seq(Range(p.units))
    /\ \A i \in DOMAIN p.units :
        LET u == p.units[i]
        IN  /\ u = [transactional |-> u.transactional, max_risk |-> u.max_risk,
                    statements |-> u.statements]
            /\ u.statements \in Seq(StatementsOver(Q, DOMAIN p.levels)) /\ u.statements # <<>>
            /\ u.max_risk = RiskOf(p.levels, IdsOf(u.statements))
            /\ ~u.transactional => Len(u.statements) = 1
    /\ UNION {Range(IdsOf(p.units[i].statements)) : i \in DOMAIN p.units} = DOMAIN p.levels

\* What render_bundle writes for a plan, load_bundle accepts, and reads that plan.
THEOREM ReadAsWritten ==
    ASSUME NEW Q, NEW R, NEW p, IsPlan(p, Q, R)
    PROVE  LET b == render_bundle(p)
           IN  load_bundle(b.manifest, b.up) = <<p.units>>
  <1> DEFINE ls == p.levels
             us == p.units
             D == DOMAIN ls
             as == AssessmentsOf(ls)
             level == LevelIn(as)
             n == Len(us)
             x == ManifestUnits(p)
             lines == x.lines
             ms == x.units
             highest == IF ls = <<>> THEN <<>> ELSE <<Highest(Range(ls))>>
             m == [delta_count |-> Len(ls), overall_max_risk |-> highest, assessments |-> as,
                   units |-> ms, checksum |-> lines]
  <1>1. render_bundle(p) = [up |-> lines, manifest |-> m]
    BY Zenon DEF render_bundle, AssessmentsOf
  <1>2. /\ ls \in Seq(R) /\ us \in Seq(Range(us))
        /\ \A i \in DOMAIN us :
            /\ us[i] = [transactional |-> us[i].transactional, max_risk |-> us[i].max_risk,
                        statements |-> us[i].statements]
            /\ us[i].statements \in Seq(StatementsOver(Q, D)) /\ us[i].statements # <<>>
            /\ us[i].max_risk = RiskOf(ls, IdsOf(us[i].statements))
            /\ ~us[i].transactional => Len(us[i].statements) = 1
        /\ UNION {Range(IdsOf(us[i].statements)) : i \in DOMAIN us} = D
    BY DEF IsPlan
  <1>3. /\ n \in Nat /\ DOMAIN us = 1 .. n /\ us = [i \in 1 .. n |-> us[i]]
    BY <1>2
  <1>4. Len(ls) \in Nat /\ D = 1 .. Len(ls)
    BY <1>2
  <1>5. /\ DOMAIN level = D /\ \A d \in D : level[d] = ls[d]
        /\ {a.level : a \in Range(as)} = Range(ls)
        /\ DOMAIN as = D /\ \A i \in D : as[i].delta_id = i
    BY LevelsKept
  <1>6. Len(as) = Len(ls)
    <2>1. as = [i \in 1 .. Len(ls) |-> [delta_id |-> i, level |-> ls[i]]]
      BY <1>4 DEF AssessmentsOf
    <2> HIDE DEF as, ls
    <2> QED
      BY <1>4, <2>1
  <1>7. highest = IF {a.level : a \in Range(as)} = {} THEN <<>> ELSE <<Highest(Range(ls))>>
    <2>1. ls = <<>> <=> Range(ls) = {}
      <3>1. CASE ls = <<>>
        BY <3>1 DEF Range
      <3>2. CASE ls # <<>>
        <4>1. Len(ls) # 0
          BY <1>2, <3>2, EmptySeq
        <4>2. 1 \in DOMAIN ls
          BY <1>4, <4>1
        <4> QED
          BY <3>2, <4>2 DEF Range
      <3> QED
        BY <3>1, <3>2
    <2> HIDE DEF as, ls
    <2> QED
      BY <1>5, <2>1
  <1> HIDE DEF as, level, highest
  <1>8. ASSUME NEW i \in 1 .. n
        PROVE  /\ IsUnit(us[i], Q, D) /\ us[i].statements # <<>>
               /\ us[i] = [transactional |-> us[i].transactional, max_risk |-> us[i].max_risk,
                           statements |-> us[i].statements]
               /\ Len(us[i].statements) \in Nat
               /\ DOMAIN us[i].statements = 1 .. Len(us[i].statements)
               /\ Range(IdsOf(us[i].statements)) \subseteq D
    <2>1. /\ us[i].statements \in Seq(StatementsOver(Q, D)) /\ us[i].statements # <<>>
          /\ us[i] = [transactional |-> us[i].transactional, max_risk |-> us[i].max_risk,
                      statements |-> us[i].statements]
      BY <1>2, <1>3
    <2> HIDE DEF us, D
    <2>2. ASSUME NEW d \in Range(IdsOf(us[i].statements)) PROVE d \in D
      <3>1. PICK k \in DOMAIN us[i].statements : d = us[i].statements[k].delta
        BY DEF Range, IdsOf
      <3>2. us[i].statements[k] \in StatementsOver(Q, D)
        BY <2>1, <3>1
      <3> QED
        BY <3>1, <3>2 DEF StatementsOver
    <2> QED
      BY <2>1, <2>2 DEF IsUnit, IsSeq
  <1>9. Rendered(x, us, n, Q, D)
    BY <1>3, <1>8, AllRendered
  <1> HIDE DEF x
  <1>10. /\ IsSeq(lines, LinesOver(Q)) /\ IsSeq(ms, EntriesOver(D, us)) /\ Len(ms) = n
         /\ \A j \in 1 .. n : UnitPlaced(lines, j, ms[j], us[j])
         /\ \A j \in 1 .. n : j > 1 => ms[j - 1].end_line < ms[j].start_line
    BY <1>9 DEF Rendered, IsFile
  <1>11. DOMAIN ms = 1 .. n /\ \A j \in 1 .. n : ms[j] \in EntriesOver(D, us)
    BY <1>10, SeqIs
  <1> HIDE DEF lines, ms, us, ls, n, D
  <1>12. ASSUME NEW i \in 1 .. n
         PROVE  EntryRead(ms, i, lines, level) /\ UnitOf(ms[i], lines) = us[i]
    <2>1. ms[i].statements \in Seq(RangesOver(D))
      BY <1>11 DEF EntriesOver
    <2>2. IsUnit(us[i], Q, DOMAIN level) /\ IsSeq(ms[i].statements, RangesOver(DOMAIN level))
      BY <1>5, <1>8, <2>1 DEF IsSeq
    <2>3. {level[d] : d \in Range(IdsOf(us[i].statements))}
            = {ls[d] : d \in Range(IdsOf(us[i].statements))}
      <3>1. \A d \in Range(IdsOf(us[i].statements)) : level[d] = ls[d]
        BY <1>5, <1>8
      <3> QED
        BY <3>1
    <2>4. us[i].max_risk = RiskOf(level, IdsOf(us[i].statements))
      BY <1>2, <1>3, <2>3 DEF RiskOf
    <2>5. ~us[i].transactional => Len(us[i].statements) = 1
      BY <1>2, <1>3
    <2>6. i \in Nat /\ UnitPlaced(lines, i, ms[i], us[i])
          /\ (i > 1 => ms[i - 1].end_line < ms[i].start_line)
      BY <1>3, <1>10
    <2>7. EntryRead(ms, i, lines, level) /\ UnitOf(ms[i], lines).statements = us[i].statements
      <3> DEFINE u == us[i]
      <3>1. /\ IsUnit(u, Q, DOMAIN level) /\ UnitPlaced(lines, i, ms[i], u)
            /\ (~u.transactional => Len(u.statements) = 1)
            /\ u.max_risk = RiskOf(level, IdsOf(u.statements))
        BY <2>2, <2>4, <2>5, <2>6
      <3>2. IsSeq(lines, LinesOver(Q))
        BY <1>10
      <3> HIDE DEF u
      <3>3. EntryRead(ms, i, lines, level) /\ UnitOf(ms[i], lines).statements = u.statements
        BY <2>2, <2>6, <3>1, <3>2, EntryAccepted
      <3> QED
        BY <3>3 DEF u
    <2>8. ms[i].transactional = us[i].transactional /\ ms[i].max_risk = us[i].max_risk
      BY <2>6 DEF UnitPlaced
    <2> QED
      BY <1>8, <2>7, <2>8 DEF UnitOf
  <1>13. AllRepresented(ms, DOMAIN level)
    <2>1. ASSUME NEW i \in 1 .. n
          PROVE  Range(ms[i].delta_ids) = Range(IdsOf(us[i].statements))
      <3>1. ms[i].delta_ids = FirstUses(IdsOf(us[i].statements))
        BY <1>10 DEF UnitPlaced
      <3>2. DOMAIN IdsOf(us[i].statements) = 1 .. Len(us[i].statements)
        BY <1>8 DEF IdsOf
      <3> QED
        BY <1>8, <3>1, <3>2, FirstUsesRange
    <2>2. UNION {Range(ms[i].delta_ids) : i \in 1 .. n}
            = UNION {Range(IdsOf(us[i].statements)) : i \in 1 .. n}
      BY <2>1
    <2> QED
      BY <1>2, <1>3, <1>5, <1>11, <2>2 DEF AllRepresented, Represented
  <1>14. _load_units(ms, lines, as)
    BY <1>11, <1>12, <1>13, UnitsAre DEF level
  <1>15. /\ m.delta_count = Len(ls) /\ m.overall_max_risk = highest /\ m.assessments = as
         /\ m.units = ms /\ m.checksum = lines
    OBVIOUS
  <1> HIDE DEF m
  <1>16. Accepted(m, lines)
    BY <1>5, <1>6, <1>7, <1>14, <1>15 DEF Accepted
  <1>17. [i \in DOMAIN m.units |-> UnitOf(m.units[i], lines)] = us
    BY <1>3, <1>11, <1>12, <1>15
  <1>18. load_bundle(m, lines) = <<us>>
    BY <1>16, <1>17, BundleIs
  <1> QED
    BY <1>1, <1>18 DEF us

-----------------------------------------------------------------------------
(* What is loaded *)

DeltasIn(us, u) == {us[u].statements[i].delta : i \in DOMAIN us[u].statements}

Whole(us, ids, ls) ==
    /\ UNION {DeltasIn(us, u) : u \in DOMAIN us} = ids
    /\ \A u \in DOMAIN us : us[u].max_risk = Highest({ls[d] : d \in DeltasIn(us, u)})

IsSequence(s) == s \in Seq(Range(s))

LEMMA HasRange == ASSUME NEW S, NEW s \in Seq(S) PROVE IsSequence(s)
  BY DEF IsSequence, Range

\* What the reader accepts of a manifest that assesses these levels is whole.
LEMMA AcceptedIsWhole ==
    ASSUME NEW ls, NEW m, NEW lines, m.assessments = AssessmentsOf(ls),
           \A i \in DOMAIN m.units : IsSequence(m.units[i].statements),
           load_bundle(m, lines) # <<>>
    PROVE  Whole(load_bundle(m, lines)[1], DOMAIN ls, ls)
  <1> DEFINE as == AssessmentsOf(ls)
             level == LevelIn(as)
             us == m.units
             r == [i \in DOMAIN us |-> UnitOf(us[i], lines)]
  <1>1. Accepted(m, lines) /\ load_bundle(m, lines) = <<r>>
    BY BundleIs
  <1>2. _load_units(us, lines, as)
    BY <1>1 DEF Accepted
  <1>3. DOMAIN level = DOMAIN ls /\ \A d \in DOMAIN ls : level[d] = ls[d]
    BY LevelsKept
  <1> HIDE DEF as
  <1>4. (\A i \in DOMAIN us : EntryRead(us, i, lines, level)) /\ AllRepresented(us, DOMAIN level)
    BY <1>2, UnitsAre
  <1> HIDE DEF level
  <1>5. DOMAIN r = DOMAIN us
    OBVIOUS
  <1>6. ASSUME NEW i \in DOMAIN us
        PROVE  /\ DeltasIn(r, i) = Range(UsedIn(us[i]))
               /\ Range(us[i].delta_ids) = Range(UsedIn(us[i]))
               /\ Range(UsedIn(us[i])) \subseteq DOMAIN ls
               /\ r[i].max_risk = Highest({level[d] : d \in Range(UsedIn(us[i]))})
    <2> DEFINE u == us[i]
    <2>1. /\ u.delta_ids = FirstUses(UsedIn(u)) /\ u.max_risk = RiskOf(level, UsedIn(u))
          /\ \A k \in DOMAIN u.statements : u.statements[k].delta_id \in DOMAIN level
      BY <1>4 DEF EntryRead, StatementRead
    <2>2. r[i] = UnitOf(u, lines)
      OBVIOUS
    <2>3. IsSequence(u.statements)
      OBVIOUS
    <2> HIDE DEF u, r
    <2>4. /\ r[i].max_risk = u.max_risk /\ DOMAIN r[i].statements = DOMAIN u.statements
          /\ \A k \in DOMAIN u.statements : r[i].statements[k].delta = u.statements[k].delta_id
      BY <2>2 DEF UnitOf, StatementOf
    <2>5. DeltasIn(r, i) = Range(UsedIn(u))
      BY <2>4 DEF DeltasIn, UsedIn, Range
    <2>6. Range(UsedIn(u)) \subseteq DOMAIN ls
      BY <1>3, <2>1 DEF UsedIn, Range
    <2>7. Range(u.delta_ids) = Range(UsedIn(u))
      <3>1. Len(u.statements) \in Nat /\ DOMAIN UsedIn(u) = 1 .. Len(u.statements)
        BY <2>3 DEF UsedIn, IsSequence
      <3> QED
        BY <2>1, <3>1, FirstUsesRange
    <2> QED
      BY <2>1, <2>4, <2>5, <2>6, <2>7 DEF u, RiskOf
  <1> HIDE DEF us, r
  <1>7. UNION {DeltasIn(r, u) : u \in DOMAIN r} = DOMAIN ls
    <2>1. UNION {Range(us[i].delta_ids) : i \in DOMAIN us} = DOMAIN ls
      BY <1>3, <1>4 DEF AllRepresented, Represented
    <2> QED
      BY <1>5, <1>6, <2>1
  <1>8. ASSUME NEW u \in DOMAIN r PROVE r[u].max_risk = Highest({ls[d] : d \in DeltasIn(r, u)})
    <2> DEFINE S == Range(UsedIn(us[u]))
    <2>1. /\ DeltasIn(r, u) = S /\ S \subseteq DOMAIN ls
          /\ r[u].max_risk = Highest({level[d] : d \in S})
      BY <1>5, <1>6
    <2> HIDE DEF S
    <2>2. {level[d] : d \in S} = {ls[d] : d \in S}
      <3>1. \A d \in S : level[d] = ls[d]
        BY <1>3, <2>1
      <3> QED
        BY <3>1
    <2> QED
      BY <2>1, <2>2
  <1> QED
    BY <1>1, <1>7, <1>8 DEF Whole
=============================================================================
