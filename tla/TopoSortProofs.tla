---------------------------- MODULE TopoSortProofs ----------------------------
(***************************************************************************)
(* Proofs about TopoSort: for every finite graph, whatever its keys, an     *)
(* order that is returned is right and the only one that can be, and a      *)
(* cycle that is reported is right too.                                     *)
(***************************************************************************)
EXTENDS TopoSort, FiniteSetTheorems, SequenceTheorems, TLAPS

-----------------------------------------------------------------------------
(* Sequences that are joined *)

IsSeq(s, S) == s \in Seq(S)

IsJoin(u, s, t) ==
    /\ Len(s) \in Nat /\ Len(t) \in Nat
    /\ Len(u) = Len(s) + Len(t)
    /\ \A i \in 1 .. Len(s) : u[i] = s[i]
    /\ \A i \in 1 .. Len(t) : u[Len(s) + i] = t[i]

LEMMA Joins ==
    ASSUME NEW S, NEW s, NEW t, IsSeq(s, S), IsSeq(t, S)
    PROVE  IsSeq(s \o t, S) /\ IsJoin(s \o t, s, t)
  <1>0. s \in Seq(S) /\ t \in Seq(S)
    BY DEF IsSeq
  <1> DEFINE u == s \o t
  <1>1. /\ u \in Seq(S)
        /\ Len(s) \in Nat /\ Len(t) \in Nat
        /\ Len(u) = Len(s) + Len(t)
        /\ \A i \in 1 .. Len(s) + Len(t) : u[i] = IF i <= Len(s) THEN s[i] ELSE t[i - Len(s)]
    BY <1>0, ConcatProperties, LenProperties
  <1> HIDE DEF u
  <1>2. IsJoin(u, s, t)
    <2>1. ASSUME NEW i \in 1 .. Len(s) PROVE u[i] = s[i]
      BY <1>1
    <2>2. ASSUME NEW i \in 1 .. Len(t) PROVE u[Len(s) + i] = t[i]
      <3>1. Len(s) + i \in 1 .. Len(s) + Len(t) /\ ~(Len(s) + i <= Len(s)) /\ (Len(s) + i) - Len(s) = i
        BY <1>1
      <3> QED
        BY <1>1, <3>1
    <2> QED
      BY <1>1, <2>1, <2>2 DEF IsJoin
  <1> QED
    BY <1>1, <1>2 DEF IsSeq, u

LEMMA SameSeq ==
    ASSUME NEW S, NEW s, NEW t, IsSeq(s, S), IsSeq(t, S),
           Len(s) = Len(t), \A i \in 1 .. Len(s) : s[i] = t[i]
    PROVE  s = t
  BY SeqEqual DEF IsSeq

\* The head of the queue leaves it for the end of what was emitted.
HeadMoves(r, q, t) == Append(r, Head(q)) \o (Tail(q) \o t) = (r \o q) \o t

LEMMA HeadJoins ==
    ASSUME NEW S, NEW r \in Seq(S), NEW q \in Seq(S), NEW t \in Seq(S), q # <<>>
    PROVE  HeadMoves(r, q, t)
  <1> DEFINE a == Append(r, Head(q))
             b == Tail(q)
             c == b \o t
             d == r \o q
             x == a \o c
             y == d \o t
             n == Len(r)
             m == Len(q)
             k == Len(t)
  <1>1. /\ n \in Nat /\ m \in Nat /\ m >= 1 /\ k \in Nat
        /\ Head(q) \in S /\ Head(q) = q[1]
        /\ b \in Seq(S) /\ Len(b) = m - 1
        /\ \A i \in 1 .. Len(b) : b[i] = q[i + 1]
    <2>1. m \in Nat \ {0}
      BY LenProperties, EmptySeq
    <2> QED
      BY <2>1, HeadTailProperties, LenProperties
  <1>2. /\ a \in Seq(S) /\ Len(a) = n + 1
        /\ a[n + 1] = q[1]
        /\ \A i \in 1 .. n : a[i] = r[i]
    BY <1>1, AppendProperties
  <1>3. IsSeq(a, S) /\ IsSeq(b, S) /\ IsSeq(r, S) /\ IsSeq(q, S) /\ IsSeq(t, S)
    BY <1>1, <1>2 DEF IsSeq
  <1>4. IsSeq(c, S) /\ IsSeq(d, S) /\ IsJoin(c, b, t) /\ IsJoin(d, r, q)
    BY <1>3, Joins
  <1>5. IsSeq(x, S) /\ IsSeq(y, S) /\ IsJoin(x, a, c) /\ IsJoin(y, d, t)
    BY <1>3, <1>4, Joins
  <1> HIDE DEF a, b, c, d, x, y
  <1>6. Len(c) = (m - 1) + k /\ Len(d) = n + m /\ Len(x) = n + m + k /\ Len(y) = n + m + k
    BY <1>1, <1>2, <1>4, <1>5 DEF IsJoin
  <1>7. ASSUME NEW i \in 1 .. n PROVE x[i] = y[i]
    <2>1. i \in 1 .. Len(a) /\ i \in 1 .. Len(d)
      BY <1>1, <1>2, <1>6
    <2>2. x[i] = a[i] /\ y[i] = d[i] /\ d[i] = r[i]
      BY <1>4, <1>5, <2>1 DEF IsJoin
    <2> QED
      BY <1>2, <2>2
  <1>8. ASSUME NEW i \in 1 .. m PROVE x[n + i] = q[i]
    <2>1. CASE i = 1
      <3>1. n + 1 \in 1 .. Len(a)
        BY <1>1, <1>2
      <3>2. x[n + 1] = a[n + 1]
        BY <1>5, <3>1 DEF IsJoin
      <3> QED
        BY <1>2, <2>1, <3>2
    <2>2. CASE i # 1
      <3> DEFINE j == i - 1
      <3>1. /\ j \in 1 .. Len(b) /\ j \in 1 .. Len(c) /\ j + 1 = i
            /\ Len(a) + j = n + i
        BY <1>1, <1>2, <1>6, <2>2
      <3> HIDE DEF j
      <3>2. x[Len(a) + j] = c[j] /\ c[j] = b[j] /\ b[j] = q[j + 1]
        BY <1>1, <1>4, <1>5, <3>1 DEF IsJoin
      <3> QED
        BY <3>1, <3>2
    <2> QED
      BY <2>1, <2>2
  <1>9. ASSUME NEW i \in 1 .. m PROVE y[n + i] = q[i]
    <2>1. n + i \in 1 .. Len(d)
      BY <1>1, <1>6
    <2> QED
      BY <1>4, <1>5, <2>1 DEF IsJoin
  <1>10. ASSUME NEW i \in 1 .. k PROVE x[n + m + i] = t[i]
    <2> DEFINE j == Len(b) + i
    <2>1. j \in 1 .. Len(c) /\ Len(a) + j = n + m + i
      BY <1>1, <1>2, <1>6
    <2>2. c[j] = t[i]
      BY <1>4 DEF IsJoin
    <2> HIDE DEF j
    <2>3. x[Len(a) + j] = c[j]
      BY <1>5, <2>1 DEF IsJoin
    <2> QED
      BY <2>1, <2>2, <2>3
  <1>11. ASSUME NEW i \in 1 .. k PROVE y[n + m + i] = t[i]
    <2>1. y[Len(d) + i] = t[i]
      BY <1>5 DEF IsJoin
    <2> QED
      BY <1>6, <2>1
  <1>12. ASSUME NEW i \in 1 .. n + m + k PROVE x[i] = y[i]
    <2>1. CASE i <= n
      BY <1>1, <1>7, <2>1
    <2>2. CASE i > n /\ i <= n + m
      <3>1. i - n \in 1 .. m /\ n + (i - n) = i
        BY <1>1, <2>2
      <3>2. x[n + (i - n)] = q[i - n] /\ y[n + (i - n)] = q[i - n]
        BY <1>8, <1>9, <3>1
      <3> QED
        BY <3>1, <3>2
    <2>3. CASE i > n + m
      <3>1. i - (n + m) \in 1 .. k /\ n + m + (i - (n + m)) = i
        BY <1>1, <2>3
      <3>2. /\ x[n + m + (i - (n + m))] = t[i - (n + m)]
            /\ y[n + m + (i - (n + m))] = t[i - (n + m)]
        BY <1>10, <1>11, <3>1
      <3> QED
        BY <3>1, <3>2
    <2> QED
      BY <1>1, <2>1, <2>2, <2>3
  <1>13. x = y
    BY <1>5, <1>6, <1>12, SameSeq
  <1> QED
    BY <1>13 DEF HeadMoves, x, y, a, b, c, d

-----------------------------------------------------------------------------
USE NodeAssumption, KeyAssumption, RepeatsAssumption

Elements(s) == {s[i] : i \in 1 .. Len(s)}

\* s has each member of A once, and nothing else.
Lists(s, A) == s \in Seq(A) /\ Distinct(s) /\ Elements(s) = A

-----------------------------------------------------------------------------
(* Sequences without repetition *)

LEMMA AppendElements ==
    ASSUME NEW S, NEW s \in Seq(S), NEW x \in S, Distinct(s), x \notin Elements(s)
    PROVE  /\ Append(s, x) \in Seq(S)
           /\ Len(Append(s, x)) = Len(s) + 1
           /\ Append(s, x)[Len(s) + 1] = x
           /\ \A i \in 1 .. Len(s) : Append(s, x)[i] = s[i]
           /\ Distinct(Append(s, x))
           /\ Elements(Append(s, x)) = Elements(s) \cup {x}
  <1>1. /\ Append(s, x) \in Seq(S)
        /\ Len(s) \in Nat
        /\ Len(Append(s, x)) = Len(s) + 1
        /\ Append(s, x)[Len(s) + 1] = x
        /\ \A i \in 1 .. Len(s) : Append(s, x)[i] = s[i]
    BY AppendProperties
  <1>2. Distinct(Append(s, x))
    BY <1>1 DEF Distinct, Elements
  <1>3. Elements(Append(s, x)) = Elements(s) \cup {x}
    BY <1>1 DEF Elements
  <1> QED
    BY <1>1, <1>2, <1>3

LEMMA TailElements ==
    ASSUME NEW S, NEW s \in Seq(S), s # <<>>, Distinct(s)
    PROVE  /\ Head(s) \in S /\ Head(s) \in Elements(s)
           /\ Tail(s) \in Seq(S)
           /\ Distinct(Tail(s))
           /\ Elements(Tail(s)) = Elements(s) \ {Head(s)}
  <1>1. /\ Head(s) \in S
        /\ Tail(s) \in Seq(S)
        /\ Len(s) \in Nat \ {0}
        /\ Len(Tail(s)) = Len(s) - 1
        /\ \A i \in 1 .. Len(Tail(s)) : Tail(s)[i] = s[i + 1]
    BY HeadTailProperties, EmptySeq
  <1>2. Head(s) = s[1]
    BY <1>1
  <1>3. Head(s) \in Elements(s)
    BY <1>1, <1>2 DEF Elements
  <1>4. Distinct(Tail(s))
    <2> SUFFICES ASSUME NEW i \in 1 .. Len(Tail(s)), NEW j \in 1 .. Len(Tail(s)),
                        Tail(s)[i] = Tail(s)[j]
                 PROVE  i = j
      BY DEF Distinct
    <2>1. i + 1 \in 1 .. Len(s) /\ j + 1 \in 1 .. Len(s) /\ s[i + 1] = s[j + 1]
      BY <1>1
    <2>2. i + 1 = j + 1
      BY <2>1 DEF Distinct
    <2> QED
      BY <2>2
  <1>5. Elements(Tail(s)) \subseteq Elements(s) \ {Head(s)}
    <2> SUFFICES ASSUME NEW i \in 1 .. Len(Tail(s))
                 PROVE  Tail(s)[i] \in Elements(s) /\ Tail(s)[i] # Head(s)
      BY DEF Elements
    <2>1. i + 1 \in 1 .. Len(s) /\ 1 \in 1 .. Len(s) /\ Tail(s)[i] = s[i + 1]
      BY <1>1
    <2>2. s[i + 1] # s[1]
      BY <2>1 DEF Distinct
    <2> QED
      BY <1>2, <2>1, <2>2 DEF Elements
  <1>6. Elements(s) \ {Head(s)} \subseteq Elements(Tail(s))
    <2> SUFFICES ASSUME NEW i \in 1 .. Len(s), s[i] # Head(s)
                 PROVE  s[i] \in Elements(Tail(s))
      BY DEF Elements
    <2>1. i - 1 \in 1 .. Len(Tail(s)) /\ Tail(s)[i - 1] = s[(i - 1) + 1]
      BY <1>1, <1>2
    <2> QED
      BY <2>1 DEF Elements
  <1> QED
    BY <1>1, <1>3, <1>4, <1>5, <1>6

LEMMA ElementsSeq ==
    ASSUME NEW S, NEW s \in Seq(S)
    PROVE  s \in Seq(Elements(s))
  <1>1. s \in [1 .. Len(s) -> S] /\ Len(s) \in Nat
    BY LenProperties
  <1> QED
    BY <1>1 DEF Elements

LEMMA ConcatLists ==
    ASSUME NEW A, NEW B, NEW s, NEW t, Lists(s, A), Lists(t, B), A \cap B = {}
    PROVE  Lists(s \o t, A \cup B)
  <1> DEFINE S == A \cup B
             u == s \o t
  <1>0. /\ s \in Seq(S) /\ t \in Seq(S) /\ Distinct(s) /\ Distinct(t)
        /\ Elements(s) = A /\ Elements(t) = B
    BY SeqMonotonic DEF Lists
  <1>1. /\ u \in Seq(S)
        /\ Len(s) \in Nat /\ Len(t) \in Nat
        /\ Len(u) = Len(s) + Len(t)
        /\ \A i \in 1 .. Len(u) : u[i] = IF i <= Len(s) THEN s[i] ELSE t[i - Len(s)]
    BY <1>0, ConcatProperties
  <1> HIDE DEF u, S
  <1>2. \A i \in 1 .. Len(u) :
           /\ i <= Len(s) => i \in 1 .. Len(s) /\ u[i] = s[i]
           /\ ~(i <= Len(s)) => i - Len(s) \in 1 .. Len(t) /\ u[i] = t[i - Len(s)]
    BY <1>1
  <1>3. Distinct(u)
    <2> SUFFICES ASSUME NEW i \in 1 .. Len(u), NEW j \in 1 .. Len(u), u[i] = u[j]
                 PROVE  i = j
      BY DEF Distinct
    <2>1. CASE i <= Len(s) /\ j <= Len(s)
      <3>1. i \in 1 .. Len(s) /\ j \in 1 .. Len(s) /\ s[i] = s[j]
        BY <1>2, <2>1
      <3> QED
        BY <1>0, <3>1 DEF Distinct
    <2>2. CASE ~(i <= Len(s)) /\ ~(j <= Len(s))
      <3>1. /\ i - Len(s) \in 1 .. Len(t) /\ j - Len(s) \in 1 .. Len(t)
            /\ t[i - Len(s)] = t[j - Len(s)]
        BY <1>2, <2>2
      <3>2. i - Len(s) = j - Len(s)
        BY <1>0, <3>1 DEF Distinct
      <3> QED
        BY <1>1, <3>2
    <2>3. ASSUME NEW m \in 1 .. Len(u), NEW n \in 1 .. Len(u),
                 m <= Len(s), ~(n <= Len(s))
          PROVE  u[m] # u[n]
      <3>1. u[m] \in Elements(s)
        BY <1>2, <2>3 DEF Elements
      <3>2. u[n] \in Elements(t)
        BY <1>2, <2>3 DEF Elements
      <3> QED
        BY <1>0, <3>1, <3>2
    <2> QED
      BY <2>1, <2>2, <2>3
  <1>4. Elements(u) \subseteq Elements(s) \cup Elements(t)
    <2> SUFFICES ASSUME NEW i \in 1 .. Len(u)
                 PROVE  u[i] \in Elements(s) \cup Elements(t)
      BY DEF Elements
    <2>1. CASE i <= Len(s)
      BY <1>2, <2>1 DEF Elements
    <2>2. CASE ~(i <= Len(s))
      BY <1>2, <2>2 DEF Elements
    <2> QED
      BY <2>1, <2>2
  <1>5. Elements(s) \subseteq Elements(u)
    BY <1>1 DEF Elements
  <1>6. Elements(t) \subseteq Elements(u)
    <2> SUFFICES ASSUME NEW i \in 1 .. Len(t) PROVE t[i] \in Elements(u)
      BY DEF Elements
    <2> DEFINE k == i + Len(s)
    <2>1. k \in 1 .. Len(u) /\ ~(k <= Len(s)) /\ k - Len(s) = i
      BY <1>1
    <2> HIDE DEF k
    <2>2. u[k] = t[i]
      BY <1>2, <2>1
    <2> QED
      BY <2>1, <2>2 DEF Elements
  <1> QED
    BY <1>0, <1>1, <1>3, <1>4, <1>5, <1>6 DEF Lists, u, S

\* A sorted set has each of its members once.
LEMMA SortedElements ==
    ASSUME NEW S \in SUBSET Node, NEW s \in Sorted(S)
    PROVE  s \in Seq(S) /\ Distinct(s) /\ Elements(s) = S
  <1> DEFINE k == Cardinality(S)
  <1>1. IsFiniteSet(S) /\ k \in Nat
    BY FS_Subset, FS_CardinalityType
  <1>2. s \in [1 .. k -> S] /\ \A i, j \in 1 .. k : i < j => Key[s[i]] < Key[s[j]]
    BY DEF Sorted
  <1> HIDE DEF k
  <1>3. s \in Seq(S) /\ Len(s) = k
    BY <1>1, <1>2
  <1>4. \A i, j \in 1 .. k : s[i] = s[j] => i = j
    <2> SUFFICES ASSUME NEW i \in 1 .. k, NEW j \in 1 .. k, s[i] = s[j], i # j
                 PROVE  FALSE
      OBVIOUS
    <2>1. Key[s[i]] \in Int
      BY <1>2
    <2>2. i < j \/ j < i
      BY <1>1
    <2> QED
      BY <1>2, <2>1, <2>2
  <1>5. s \in Injection(1 .. k, S)
    BY <1>2, <1>4 DEF Injection, IsInjective
  <1>6. Cardinality(1 .. k) = k
    BY <1>1, FS_Interval
  <1>7. s \in Surjection(1 .. k, S)
    BY <1>1, <1>5, <1>6, FS_Injection DEF k
  <1>8. S \subseteq Elements(s)
    BY <1>3, <1>7 DEF Surjection, Elements
  <1> QED
    BY <1>2, <1>3, <1>4, <1>8 DEF Elements, Distinct

-----------------------------------------------------------------------------
(* The invariant *)

LEMMA ViewElements == Emitted = Elements(result) /\ Queued = Elements(queue)
  BY DEF Emitted, Queued, Elements

LEMMA InitSortInv == Init => SortInv
  <1> SUFFICES ASSUME Init PROVE SortInv
    OBVIOUS
  <1>1. nodes \in SUBSET Node /\ IsFiniteSet(nodes) /\ Cardinality(nodes) \in Nat
    BY FS_Subset, FS_CardinalityType DEF Init
  <1>2. listed \in Nat /\ Cardinality(nodes) <= listed
    BY <1>1 DEF Init
  <1>3. TypeOK
    BY <1>1, <1>2 DEF Init, TypeOK
  <1>4. ~Sorting /\ PrerequisitesFirst /\ EndInv
    BY DEF Init, Sorting, PrerequisitesFirst, EndInv
  <1> QED
    BY <1>1, <1>2, <1>3, <1>4 DEF SortInv, Init

\* Before the loop, and on its way out, nothing that was emitted changes.
LEMMA SameView ==
    ASSUME UNCHANGED <<result, prereqs>>
    PROVE  /\ Emitted' = Emitted
           /\ PrerequisitesFirst' <=> PrerequisitesFirst
  BY DEF Emitted, PrerequisitesFirst

LEMMA ValidateStep ==
    ASSUME SortInv, Validate
    PROVE  SortInv'
  <1> USE DEF SortInv, Validate, Raise, input
  <1>1. TypeOK'
    BY DEF TypeOK
  <1>2. ~Sorting' /\ EndInv'
    BY DEF Sorting, EndInv
  <1> QED
    BY <1>1, <1>2, SameView DEF Sorting

LEMMA BuildStep ==
    ASSUME SortInv, Build
    PROVE  SortInv'
  <1>1. /\ TypeOK /\ IsFiniteSet(nodes) /\ Cardinality(nodes) <= listed
        /\ \A n \in Node : prereqs[n] \subseteq nodes
        /\ queue = <<>> /\ result = <<>> /\ answer = "none" /\ members = {}
        /\ PrerequisitesFirst
    BY DEF SortInv, Build, EndInv
  <1>2. UNCHANGED <<input, result, members>> /\ (PrerequisitesFirst' <=> PrerequisitesFirst)
    BY SameView DEF Build, Raise, input
  <1>3. CASE Raise("KeyError")
    <2>1. TypeOK' /\ ~Sorting' /\ EndInv'
      BY <1>1, <1>2, <1>3 DEF Raise, TypeOK, Sorting, EndInv, input
    <2> QED
      BY <1>1, <1>2, <1>3, <2>1 DEF SortInv, Raise, input
  <1>4. CASE ~Raise("KeyError")
    <2> DEFINE First == {n \in nodes : prereqs[n] = {}}
    <2>1. /\ inDegree' = [n \in nodes |-> Cardinality(prereqs[n])]
          /\ queue' \in Sorted(First)
          /\ phase' = "sort" /\ answer' = "none"
      BY <1>1, <1>4 DEF Build
    <2>2. First \in SUBSET Node /\ First \subseteq nodes
      BY <1>1 DEF TypeOK
    <2>3. queue' \in Seq(First) /\ Distinct(queue') /\ Elements(queue') = First
      BY <2>1, <2>2, SortedElements
    <2>4. queue' \in Seq(nodes)
      BY <2>2, <2>3, SeqMonotonic
    <2>5. \A n \in nodes : Cardinality(prereqs[n]) \in Nat
      BY <1>1, FS_Subset, FS_CardinalityType DEF TypeOK
    <2>6. TypeOK'
      BY <1>1, <1>2, <2>1, <2>4, <2>5 DEF TypeOK, input
    <2>7. Emitted' = {}
      BY <1>1, <1>2 DEF Emitted
    <2>8. LoopInv'
      <3>1. \A n \in nodes : inDegree'[n] = Cardinality(prereqs[n] \ {})
        BY <2>1
      <3>2. Queued' = {n \in nodes \ {} : prereqs[n] \subseteq {}}
        BY <2>3, ViewElements DEF Queued, Elements
      <3>3. Cardinality({}) = 0 /\ Len(result') = 0
        BY <1>1, <1>2, FS_EmptySet
      <3>4. Distinct(result')
        BY <1>1, <1>2 DEF Distinct
      <3> QED
        BY <1>1, <1>2, <2>3, <2>7, <3>1, <3>2, <3>3, <3>4
           DEF LoopInv, Blocked, Distinct, input
    <2>9. EndInv'
      BY <1>1, <1>2, <2>1 DEF EndInv
    <2> QED
      BY <1>1, <1>2, <2>1, <2>6, <2>8, <2>9 DEF SortInv, Sorting, input
  <1> QED
    BY <1>3, <1>4

LEMMA FinishStep ==
    ASSUME SortInv, Finish
    PROVE  SortInv'
  <1>1. /\ TypeOK /\ LoopInv /\ EndInv /\ phase = "sort" /\ queue = <<>>
        /\ IsFiniteSet(nodes) /\ Cardinality(nodes) <= listed
    BY DEF SortInv, Finish, Sorting
  <1>2. /\ UNCHANGED <<input, inDegree, queue, result>> /\ phase' = "done"
        /\ \/ /\ answer' = "CyclicDependencyError" /\ Len(result) # listed
              /\ members' = Remaining
           \/ answer' = "order" /\ Len(result) = listed /\ members' = members
    BY DEF Finish, Raise
  <1>3. UNCHANGED <<nodes, listed, prereqs>>
    BY <1>2 DEF input
  <1>4. Emitted' = Emitted /\ PrerequisitesFirst'
    BY <1>2, <1>3, SameView DEF SortInv
  <1>5. TypeOK'
    BY <1>1, <1>2, <1>3 DEF TypeOK, Remaining
  <1>6. EndInv'
    BY <1>1, <1>2, <1>3 DEF EndInv, Remaining
  <1>7. LoopInv'
    <2>1. Queued' = Queued /\ Distinct(queue)' /\ Distinct(result)'
      BY <1>1, <1>2 DEF Queued, Distinct, LoopInv
    <2>2. \A C : Blocked(C)' <=> Blocked(C)
      BY <1>3 DEF Blocked
    <2> QED
      BY <1>1, <1>2, <1>3, <1>4, <2>1, <2>2 DEF LoopInv
  <1> QED
    BY <1>1, <1>2, <1>3, <1>4, <1>5, <1>6, <1>7 DEF SortInv, Sorting

\* What the emission of node releases.
Releases(node) ==
    /\ node \in nodes /\ node \notin Emitted
    /\ prereqs[node] \subseteq Emitted
    /\ \A n \in nodes :
          /\ DegreeAfter(node, n) \in Nat
          /\ DegreeAfter(node, n) = Cardinality(prereqs[n] \ (Emitted \cup {node}))
    /\ NewlyReady(node) =
          {n \in nodes \ Emitted :
              node \in prereqs[n] /\ prereqs[n] \subseteq Emitted \cup {node}}

LEMMA EmittedReleases ==
    ASSUME NEW node, SortInv /\ phase = "sort" /\ queue # <<>> /\ node = Head(queue)
    PROVE  Releases(node)
  <1>1. /\ TypeOK /\ LoopInv /\ IsFiniteSet(nodes) /\ PrerequisitesFirst
    BY DEF SortInv, Sorting
  <1>2. node \in Queued
    BY <1>1, TailElements, ViewElements DEF TypeOK, LoopInv
  <1>3. node \in nodes /\ node \notin Emitted /\ prereqs[node] \subseteq Emitted
    BY <1>1, <1>2 DEF LoopInv
  <1>4. ASSUME NEW n \in nodes
        PROVE  /\ DegreeAfter(node, n) \in Nat
               /\ DegreeAfter(node, n) =
                     Cardinality(prereqs[n] \ (Emitted \cup {node}))
               /\ DegreeAfter(node, n) = 0 <=>
                     prereqs[n] \subseteq Emitted \cup {node}
    <2> DEFINE W == prereqs[n] \ Emitted
    <2>1. W \subseteq nodes /\ IsFiniteSet(W) /\ inDegree[n] = Cardinality(W)
      BY <1>1, FS_Subset DEF LoopInv, TypeOK
    <2>2. /\ IsFiniteSet(W \ {node})
          /\ Cardinality(W \ {node}) =
                IF node \in W THEN Cardinality(W) - 1 ELSE Cardinality(W)
      BY <2>1, FS_RemoveElement
    <2>3. prereqs[n] \ (Emitted \cup {node}) = W \ {node}
      OBVIOUS
    <2>4. node \in W <=> node \in prereqs[n]
      BY <1>3
    <2>5. Cardinality(W \ {node}) \in Nat /\ Cardinality(W) \in Nat
      BY <2>1, <2>2, FS_CardinalityType
    <2>6. Cardinality(W \ {node}) = 0 <=> W \ {node} = {}
      BY <2>2, FS_EmptySet
    <2>7. W \ {node} = {} <=> prereqs[n] \subseteq Emitted \cup {node}
      OBVIOUS
    <2> HIDE DEF W
    <2>8. DegreeAfter(node, n) = Cardinality(W \ {node})
      BY <2>1, <2>2, <2>4, <2>5 DEF DegreeAfter
    <2> QED
      BY <2>3, <2>5, <2>6, <2>7, <2>8
  <1>5. ASSUME NEW n \in Emitted PROVE node \notin prereqs[n]
    <2> SUFFICES ASSUME node \in prereqs[n] PROVE node \in Emitted
      BY <1>3
    <2>1. PICK i \in 1 .. Len(result) : result[i] = n
      BY DEF Emitted
    <2>2. PICK j \in 1 .. (i - 1) : result[j] = node
      BY <1>1, <2>1 DEF PrerequisitesFirst
    <2>3. j \in 1 .. Len(result)
      BY <1>1, LenProperties DEF TypeOK
    <2> QED
      BY <2>2, <2>3 DEF Emitted
  <1> QED
    BY <1>3, <1>4, <1>5 DEF NewlyReady, Releases

LEMMA EmitStep ==
    ASSUME SortInv, Emit
    PROVE  SortInv'
  <1>1. /\ TypeOK /\ LoopInv /\ EndInv /\ PrerequisitesFirst
        /\ phase = "sort" /\ queue # <<>> /\ answer = "none"
        /\ IsFiniteSet(nodes) /\ Cardinality(nodes) <= listed
    BY DEF SortInv, Emit, Sorting, EndInv
  <1>2. PICK node, ready :
           /\ node = Head(queue)
           /\ result' = Append(result, node)
           /\ inDegree' = [n \in nodes |-> DegreeAfter(node, n)]
           /\ ready \in Sorted(NewlyReady(node))
           /\ queue' = Tail(queue) \o ready
    BY DEF Emit, Enqueue
  <1>3. UNCHANGED <<nodes, listed, prereqs, phase, answer, members>>
    BY DEF Emit, input
  <1>4. /\ node \in nodes /\ node \notin Emitted
        /\ prereqs[node] \subseteq Emitted
        /\ \A n \in nodes :
              /\ DegreeAfter(node, n) \in Nat
              /\ DegreeAfter(node, n) = Cardinality(prereqs[n] \ (Emitted \cup {node}))
        /\ NewlyReady(node) =
              {n \in nodes \ Emitted :
                  node \in prereqs[n] /\ prereqs[n] \subseteq Emitted \cup {node}}
    <2>1. SortInv /\ phase = "sort" /\ queue # <<>> /\ node = Head(queue)
      BY <1>1, <1>2
    <2>2. Releases(node)
      BY <2>1, EmittedReleases
    <2> QED
      BY <2>2 DEF Releases
  <1>5. /\ result \in Seq(nodes) /\ Len(result) \in Nat
        /\ Distinct(result) /\ node \notin Elements(result)
    BY <1>1, <1>4, ViewElements, LenProperties DEF TypeOK, LoopInv
  <1>6. /\ result' \in Seq(nodes) /\ Len(result') = Len(result) + 1
        /\ result'[Len(result) + 1] = node
        /\ \A i \in 1 .. Len(result) : result'[i] = result[i]
        /\ Distinct(result') /\ Elements(result') = Elements(result) \cup {node}
    BY <1>2, <1>4, <1>5, AppendElements
  <1>7. Emitted' = Emitted \cup {node}
    BY <1>6 DEF Emitted, Elements
  <1>8. /\ queue' \in Seq(nodes) /\ Distinct(queue')
        /\ Elements(queue') = (Queued \ {node}) \cup NewlyReady(node)
    <2>1. Lists(Tail(queue), Queued \ {node})
      BY <1>1, <1>2, TailElements, ViewElements, ElementsSeq DEF TypeOK, LoopInv, Lists
    <2>2. NewlyReady(node) \in SUBSET Node /\ NewlyReady(node) \subseteq nodes
      BY <1>1, <1>4 DEF TypeOK
    <2>3. Lists(ready, NewlyReady(node))
      BY <1>2, <2>2, SortedElements DEF Lists
    <2>4. (Queued \ {node}) \cap NewlyReady(node) = {}
      BY <1>1, <1>4 DEF LoopInv
    <2>5. Lists(queue', (Queued \ {node}) \cup NewlyReady(node))
      BY <1>2, <2>1, <2>3, <2>4, ConcatLists
    <2>6. (Queued \ {node}) \cup NewlyReady(node) \subseteq nodes
      BY <1>1, <2>2 DEF LoopInv
    <2> QED
      BY <2>5, <2>6, SeqMonotonic DEF Lists
  <1>9. TypeOK'
    BY <1>1, <1>2, <1>3, <1>4, <1>6, <1>8 DEF TypeOK
  <1>10. PrerequisitesFirst'
    <2> SUFFICES ASSUME NEW i \in 1 .. Len(result'), NEW p \in prereqs[result'[i]]
                 PROVE  \E j \in 1 .. (i - 1) : result'[j] = p
      BY <1>3 DEF PrerequisitesFirst
    <2>1. CASE i <= Len(result)
      <3>1. i \in 1 .. Len(result) /\ result'[i] = result[i]
        BY <1>5, <1>6, <2>1
      <3>2. PICK j \in 1 .. (i - 1) : result[j] = p
        BY <1>1, <3>1 DEF PrerequisitesFirst
      <3> QED
        BY <1>5, <1>6, <3>1, <3>2
    <2>2. CASE ~(i <= Len(result))
      <3>1. i = Len(result) + 1 /\ p \in Emitted
        BY <1>4, <1>5, <1>6, <2>2
      <3>2. PICK j \in 1 .. Len(result) : result[j] = p
        BY <3>1 DEF Emitted
      <3> QED
        BY <1>5, <1>6, <3>1, <3>2
    <2> QED
      BY <2>1, <2>2
  <1>11. LoopInv'
    <2>1. \A n \in nodes : inDegree'[n] = Cardinality(prereqs[n] \ Emitted')
      BY <1>2, <1>4, <1>7
    <2>2. Queued' = {n \in nodes \ Emitted' : prereqs[n] \subseteq Emitted'}
      <3>1. Queued' = (Queued \ {node}) \cup NewlyReady(node)
        BY <1>8 DEF Queued, Elements
      <3>2. Queued = {n \in nodes \ Emitted : prereqs[n] \subseteq Emitted}
        BY <1>1 DEF LoopInv
      <3> QED
        BY <1>4, <1>7, <3>1, <3>2
    <2>3. Cardinality(Emitted') = Len(result')
      <3>1. Emitted \subseteq nodes /\ IsFiniteSet(Emitted)
        BY <1>1, <1>5, FS_Subset, ElementOfSeq DEF Emitted
      <3>2. Cardinality(Emitted) = Len(result)
        BY <1>1 DEF LoopInv
      <3>3. Cardinality(Emitted \cup {node}) = Cardinality(Emitted) + 1
        BY <1>4, <3>1, FS_AddElement
      <3> QED
        BY <1>6, <1>7, <3>2, <3>3
    <2>4. ASSUME NEW C \in SUBSET nodes, Blocked(C)'
          PROVE  C \cap Emitted' = {}
      <3>1. \A n \in C : prereqs[n] \cap C # {}
        BY <1>3, <2>4 DEF Blocked
      <3>2. C \cap Emitted = {}
        BY <1>1, <3>1 DEF LoopInv, Blocked
      <3> QED
        BY <1>4, <1>7, <3>1, <3>2
    <2>5. \A n \in Node : prereqs[n] \subseteq nodes
      BY <1>1 DEF LoopInv
    <2>6. Distinct(queue)' /\ Distinct(result)'
      BY <1>6, <1>8 DEF Distinct
    <2> QED
      BY <1>3, <2>1, <2>2, <2>3, <2>4, <2>5, <2>6 DEF LoopInv
  <1>12. EndInv'
    BY <1>1, <1>3 DEF EndInv
  <1> QED
    BY <1>1, <1>3, <1>9, <1>10, <1>11, <1>12 DEF SortInv, Sorting

LEMMA StutterStep ==
    ASSUME SortInv, UNCHANGED vars
    PROVE  SortInv'
  <1>1. /\ UNCHANGED <<nodes, listed, prereqs, phase, inDegree, queue, result>>
        /\ UNCHANGED <<answer, members>>
    BY DEF vars, input
  <1>2. TypeOK' <=> TypeOK
    BY <1>1 DEF TypeOK
  <1>3. Emitted' = Emitted /\ Queued' = Queued /\ (PrerequisitesFirst' <=> PrerequisitesFirst)
    BY <1>1, SameView DEF Queued
  <1>4. LoopInv' <=> LoopInv
    <2>1. (Distinct(queue)' <=> Distinct(queue)) /\ (Distinct(result)' <=> Distinct(result))
      BY <1>1 DEF Distinct
    <2>2. \A C : Blocked(C)' <=> Blocked(C)
      BY <1>1 DEF Blocked
    <2> QED
      BY <1>1, <1>3, <2>1, <2>2 DEF LoopInv
  <1>5. (EndInv' <=> EndInv) /\ (Sorting' <=> Sorting)
    BY <1>1 DEF EndInv, Sorting, Remaining
  <1> QED
    BY <1>1, <1>2, <1>3, <1>4, <1>5 DEF SortInv

\* SortInv is an invariant of the sort.
THEOREM SortInvariance == Spec => []SortInv
  <1>1. SortInv /\ [Next]_vars => SortInv'
    <2> SUFFICES ASSUME SortInv, [Next]_vars PROVE SortInv'
      OBVIOUS
    <2>1. CASE UNCHANGED vars
      BY <2>1, StutterStep
    <2> QED
      BY <2>1, ValidateStep, BuildStep, EmitStep, FinishStep DEF Next
  <1> QED
    BY <1>1, InitSortInv, PTL DEF Spec

-----------------------------------------------------------------------------
(* The properties *)

\* TYPE CORRECTNESS of every variable of topological_sort.
THEOREM SortTypeCorrect == Spec => []TypeOK
  <1>1. SortInv => TypeOK
    BY DEF SortInv
  <1> QED
    BY <1>1, SortInvariance, PTL

\* PREREQUISITES FIRST, for every graph: no node is emitted before a
\* prerequisite of it, neither in a returned order nor in an aborted one.
THEOREM PrerequisitesComeFirst == Spec => []PrerequisitesFirst
  <1>1. SortInv => PrerequisitesFirst
    BY DEF SortInv
  <1> QED
    BY <1>1, SortInvariance, PTL

\* What the counters say of the emitted nodes once the queue has drained.
LEMMA DrainedSort ==
    ASSUME SortInv, answer \in {"order", "CyclicDependencyError"}
    PROVE  /\ IsFiniteSet(nodes) /\ Emitted \subseteq nodes
           /\ Cardinality(nodes) \in Nat /\ Cardinality(Emitted) = Len(result)
           /\ Cardinality(nodes) <= listed /\ Len(result) \in Nat /\ listed \in Nat
           /\ Cardinality(Emitted) <= Cardinality(nodes)
           /\ Cardinality(Emitted) = Cardinality(nodes) <=> Emitted = nodes
           /\ \A n \in nodes \ Emitted : prereqs[n] \cap (nodes \ Emitted) # {}
  <1>1. TypeOK /\ LoopInv /\ IsFiniteSet(nodes) /\ Cardinality(nodes) <= listed
    BY DEF SortInv, Sorting
  <1>2. queue = <<>>
    BY DEF SortInv, EndInv
  <1>3. /\ Emitted \subseteq nodes
        /\ Cardinality(Emitted) = Len(result) /\ Len(result) \in Nat
    <2>1. result \in Seq(nodes) /\ Len(result) \in Nat
      BY <1>1, LenProperties DEF TypeOK
    <2>2. Cardinality(Emitted) = Len(result)
      BY <1>1 DEF LoopInv
    <2>3. Emitted \subseteq nodes
      BY <2>1, ElementOfSeq DEF Emitted
    <2> QED
      BY <2>1, <2>2, <2>3
  <1>4. /\ Cardinality(Emitted) <= Cardinality(nodes)
        /\ Cardinality(Emitted) = Cardinality(nodes) => nodes \subseteq Emitted
    BY <1>1, <1>3, FS_Subset
  <1>5. Cardinality(nodes) \in Nat
    BY <1>1, FS_CardinalityType
  <1>6. {n \in nodes \ Emitted : prereqs[n] \subseteq Emitted} = {}
    BY <1>1, <1>2 DEF LoopInv, Queued
  <1>7. \A n \in nodes \ Emitted : prereqs[n] \subseteq nodes
    BY <1>1 DEF LoopInv, TypeOK
  <1> QED
    BY <1>1, <1>3, <1>4, <1>5, <1>6, <1>7 DEF TypeOK

\* THE ANSWER IS RIGHT, for every graph: an order is complete and there was no
\* cycle; the nodes that are left when a cycle is reported block each other.
THEOREM AnswerIsRight == Spec => []AnswerRight
  <1>1. SortInv => AnswerRight
    <2> SUFFICES ASSUME SortInv PROVE AnswerRight
      OBVIOUS
    <2>1. ASSUME answer = "order"
          PROVE  ~Cyclic /\ Emitted = nodes /\ Len(result) = Cardinality(nodes)
      <3>1. Len(result) = listed /\ LoopInv
        BY <2>1 DEF SortInv, EndInv, Sorting
      <3>2. Emitted = nodes /\ Len(result) = Cardinality(nodes)
        BY <2>1, <3>1, DrainedSort
      <3>3. \A C \in SUBSET nodes : Blocked(C) => C = {}
        BY <3>1, <3>2 DEF LoopInv
      <3> QED
        BY <3>2, <3>3 DEF Cyclic
    <2>2. ASSUME answer = "CyclicDependencyError", listed = Cardinality(nodes)
          PROVE  Cyclic
      <3>1. Len(result) # listed
        BY <2>2 DEF SortInv, EndInv
      <3>2. nodes \ Emitted # {}
        BY <2>2, <3>1, DrainedSort
      <3>3. Blocked(nodes \ Emitted)
        BY <2>2, DrainedSort DEF Blocked
      <3> QED
        BY <3>2, <3>3 DEF Cyclic
    <2> QED
      BY <2>1, <2>2 DEF AnswerRight
  <1> QED
    BY <1>1, SortInvariance, PTL

\* CYCLES ARE NAMED, for every graph: the nodes that are left out of the error
\* can be ordered before a node that needs them, so none is on a cycle.
THEOREM CyclesAreNamed == Spec => []CyclesNamed
  <1>1. SortInv => CyclesNamed
    <2> SUFFICES ASSUME SortInv, answer = "CyclicDependencyError",
                        NEW n \in nodes, OnCycle(n), n \notin members
                 PROVE  FALSE
      BY DEF CyclesNamed
    <2>1. /\ TypeOK /\ LoopInv /\ members = Remaining /\ PrerequisitesFirst
          /\ IsFiniteSet(nodes)
      BY DEF SortInv, EndInv, Sorting
    <2>2. result \in Seq(nodes) /\ Len(result) \in Nat /\ Emitted \subseteq nodes
      BY <2>1, ElementOfSeq, LenProperties DEF TypeOK, Emitted
    <2>3. ASSUME NEW i \in 1 .. Len(result), NEW p \in prereqs[result[i]]
          PROVE  \E j \in 1 .. Len(result) : j < i /\ result[j] = p
      <3>1. PICK j \in 1 .. (i - 1) : result[j] = p
        BY <2>1, <2>3 DEF PrerequisitesFirst
      <3> QED
        BY <2>2, <3>1
    <2>4. prereqs[n] \subseteq Emitted
      <3>1. inDegree[n] \in Nat /\ ~(inDegree[n] > 0)
        BY <2>1 DEF Remaining, TypeOK
      <3>2. Cardinality(prereqs[n] \ Emitted) = 0
        BY <2>1, <3>1 DEF LoopInv
      <3>3. IsFiniteSet(prereqs[n] \ Emitted)
        BY <2>1, FS_Subset DEF LoopInv, TypeOK
      <3> QED
        BY <3>2, <3>3, FS_EmptySet
    <2>5. n \in Emitted
      <3>1. \A m \in Emitted : prereqs[m] \subseteq Emitted
        BY <2>3 DEF Emitted
      <3> QED
        BY <2>2, <2>4, <3>1 DEF OnCycle
    <2>6. PICK i \in 1 .. Len(result) : result[i] = n
      BY <2>5 DEF Emitted
    <2> DEFINE D == {result[j] : j \in {k \in 1 .. Len(result) : k < i}}
    <2>7. D \subseteq nodes /\ prereqs[n] \subseteq D
      <3>1. \A j \in 1 .. Len(result) : result[j] \in nodes
        BY <2>2 DEF Emitted
      <3>2. \A p \in prereqs[n] : \E j \in 1 .. Len(result) : j < i /\ result[j] = p
        BY <2>3, <2>6
      <3> QED
        BY <3>1, <3>2
    <2>8. \A m \in D : prereqs[m] \subseteq D
      <3> SUFFICES ASSUME NEW j \in 1 .. Len(result), j < i, NEW p \in prereqs[result[j]]
                   PROVE  p \in D
        OBVIOUS
      <3>1. PICK k \in 1 .. Len(result) : k < j /\ result[k] = p
        BY <2>3
      <3> QED
        BY <2>2, <3>1
    <2>9. n \in D
      BY <2>7, <2>8 DEF OnCycle
    <2> QED
      BY <2>1, <2>6, <2>9 DEF LoopInv, Distinct
  <1> QED
    BY <1>1, SortInvariance, PTL

-----------------------------------------------------------------------------
(* The order                                                               *)

\* There is one last member.
LEMMA LastOnce ==
    ASSUME NEW S, NEW s \in Seq(S), NEW P, NEW i, IsLast(s, P, i)
    PROVE  LastOf(s, P) = i
  <1>1. Len(s) \in Nat
    BY LenProperties
  <1>2. CASE P = {}
    BY <1>2 DEF LastOf, IsLast
  <1>3. CASE P # {}
    <2> DEFINE Here(k) == s[k] \in P /\ \A j \in (k + 1) .. Len(s) : s[j] \notin P
    <2>1. /\ i \in 1 .. Len(s) /\ s[i] \in P
          /\ \A j \in 1 .. Len(s) : s[j] \in P => j <= i
      BY <1>3 DEF IsLast
    <2>2. Here(i)
      BY <1>1, <2>1
    <2>3. ASSUME NEW k \in 1 .. Len(s), Here(k) PROVE k = i
      <3>1. ~(k < i)
        BY <1>1, <2>1, <2>3
      <3> QED
        BY <1>1, <2>1, <2>3, <3>1
    <2>4. LastOf(s, P) = CHOOSE k \in 1 .. Len(s) : Here(k)
      BY <1>3 DEF LastOf
    <2> HIDE DEF Here
    <2> QED
      BY <2>1, <2>2, <2>3, <2>4
  <1> QED
    BY <1>2, <1>3

\* What comes after the members of P does not change which is last, and one
\* more member is the last.
LEMMA LastAppended ==
    ASSUME NEW S, NEW s \in Seq(S), NEW x \in S, NEW P, NEW i, IsLast(s, P, i)
    PROVE  /\ x \notin P => LastOf(Append(s, x), P) = i /\ IsLast(Append(s, x), P, i)
           /\ i \in Nat /\ i <= Len(s)
  <1> DEFINE t == Append(s, x)
  <1>1. /\ t \in Seq(S) /\ Len(s) \in Nat /\ Len(t) = Len(s) + 1
        /\ t[Len(s) + 1] = x
        /\ \A j \in 1 .. Len(s) : t[j] = s[j]
    BY AppendProperties, LenProperties
  <1> HIDE DEF t
  <1>2. i \in Nat /\ i <= Len(s)
    BY <1>1 DEF IsLast
  <1>3. x \notin P => IsLast(t, P, i)
    BY <1>1 DEF IsLast
  <1> QED
    BY <1>1, <1>2, <1>3, LastOnce DEF t

LEMMA LastIsNew ==
    ASSUME NEW S, NEW s \in Seq(S), NEW P, NEW x \in P \cap S
    PROVE  LastOf(Append(s, x), P) = Len(s) + 1 /\ IsLast(Append(s, x), P, Len(s) + 1)
  <1> DEFINE t == Append(s, x)
  <1>1. /\ t \in Seq(S) /\ Len(s) \in Nat /\ Len(t) = Len(s) + 1
        /\ t[Len(s) + 1] = x
    BY AppendProperties, LenProperties
  <1> HIDE DEF t
  <1>2. IsLast(t, P, Len(s) + 1)
    BY <1>1 DEF IsLast
  <1> QED
    BY <1>1, <1>2, LastOnce DEF t

\* What the emission of x releases joins the line at its end, by key.
LEMMA LineGrows ==
    ASSUME NEW S, NEW line \in Seq(S), NEW r \in Seq(S), NEW t \in Seq(S), NEW x \in S,
           NEW d, InOrder(line, r, d),
           \A i \in 1 .. Len(line) : x \notin d[line[i]],
           \A i \in 1 .. Len(t) : x \in d[t[i]],
           \A i, j \in 1 .. Len(t) : i < j => Key[t[i]] < Key[t[j]]
    PROVE  InOrder(line \o t, Append(r, x), d)
  <1> DEFINE new == line \o t
             q == Append(r, x)
             l == Len(line)
             At(n) == LastOf(q, d[n])
  <1>1. l \in Nat /\ Len(t) \in Nat /\ Len(r) \in Nat
    BY LenProperties
  <1>2. /\ Len(new) = l + Len(t)
        /\ \A i \in 1 .. Len(new) :
              \/ i \in 1 .. l /\ new[i] = line[i]
              \/ i > l /\ i - l \in 1 .. Len(t) /\ new[i] = t[i - l]
    <2>1. /\ Len(new) = l + Len(t)
          /\ \A i \in 1 .. l + Len(t) : new[i] = IF i <= l THEN line[i] ELSE t[i - l]
      BY ConcatProperties
    <2> HIDE DEF new
    <2> QED
      BY <1>1, <2>1
  <1> HIDE DEF new
  <1>3. ASSUME NEW i \in 1 .. l
        PROVE  /\ IsLast(q, d[line[i]], At(line[i]))
               /\ At(line[i]) = LastOf(r, d[line[i]])
               /\ At(line[i]) \in Nat /\ At(line[i]) <= Len(r)
    BY LastAppended DEF InOrder
  <1>4. ASSUME NEW i \in 1 .. Len(t)
        PROVE  IsLast(q, d[t[i]], At(t[i])) /\ At(t[i]) = Len(r) + 1
    BY LastIsNew
  <1> HIDE DEF q, At
  <1>5. \A i \in 1 .. Len(new) : IsLast(q, d[new[i]], At(new[i]))
    BY <1>2, <1>3, <1>4
  <1>6. ASSUME NEW i \in 1 .. Len(new), NEW j \in 1 .. Len(new), i < j
        PROVE  \/ At(new[i]) < At(new[j])
               \/ At(new[i]) = At(new[j]) /\ Key[new[i]] < Key[new[j]]
    <2>1. CASE j \in 1 .. l /\ new[j] = line[j]
      <3>1. i \in 1 .. l /\ new[i] = line[i]
        BY <1>1, <1>2, <1>6, <2>1
      <3>2. \/ LastOf(r, d[line[i]]) < LastOf(r, d[line[j]])
            \/ /\ LastOf(r, d[line[i]]) = LastOf(r, d[line[j]])
               /\ Key[line[i]] < Key[line[j]]
        BY <1>6, <2>1, <3>1 DEF InOrder
      <3> QED
        BY <1>3, <2>1, <3>1, <3>2
    <2>2. CASE j > l /\ j - l \in 1 .. Len(t) /\ new[j] = t[j - l]
      <3>1. CASE i \in 1 .. l /\ new[i] = line[i]
        <4>1. At(new[i]) \in Nat /\ At(new[i]) <= Len(r)
          BY <1>3, <3>1
        <4>2. At(new[j]) = Len(r) + 1
          BY <1>4, <2>2
        <4> QED
          BY <1>1, <4>1, <4>2
      <3>2. CASE i > l /\ i - l \in 1 .. Len(t) /\ new[i] = t[i - l]
        <4>1. i - l < j - l
          BY <1>1, <1>6
        <4>2. Key[t[i - l]] < Key[t[j - l]]
          BY <2>2, <3>2, <4>1
        <4> QED
          BY <1>4, <2>2, <3>2, <4>2
      <3> QED
        BY <1>2, <3>1, <3>2
    <2> QED
      BY <1>2, <2>1, <2>2
  <1> QED
    BY <1>5, <1>6 DEF InOrder, At, new, q

LEMMA BuildOrder ==
    ASSUME SortInv, Build
    PROVE  OrderInv'
  <1> DEFINE First == {n \in nodes : prereqs[n] = {}}
             c == Cardinality(First)
  <1>0. result = <<>> /\ result' = result /\ prereqs' = prereqs /\ TypeOK
    BY DEF SortInv, Build, Raise, input
  <1>1. CASE Raise("KeyError")
    BY <1>1 DEF Raise, OrderInv, Sorting
  <1>2. CASE queue' \in Sorted(First)
    <2>1. c \in Nat
      BY <1>0, FS_Subset, FS_CardinalityType DEF TypeOK
    <2> HIDE DEF c
    <2>2. /\ queue' \in [1 .. c -> First]
          /\ \A i, j \in 1 .. c : i < j => Key[queue'[i]] < Key[queue'[j]]
      BY <1>2 DEF Sorted, c
    <2>3. queue' \in Seq(First) /\ Len(queue') = c
      BY <2>1, <2>2
    <2>4. result' \o queue' = queue'
      BY <1>0, <2>3, ConcatEmptySeq
    <2>5. \A i \in 1 .. c : prereqs'[queue'[i]] = {}
      BY <1>0, <2>2
    <2>6. InOrder(queue', result', prereqs')
      BY <1>0, <2>2, <2>3, <2>5 DEF InOrder, IsLast, LastOf
    <2> QED
      BY <2>4, <2>6 DEF OrderInv
  <1> QED
    BY <1>1, <1>2 DEF Build

LEMMA EmitOrder ==
    ASSUME SortInv, OrderInv, Emit
    PROVE  OrderInv'
  <1>1. /\ TypeOK /\ LoopInv /\ phase = "sort" /\ queue # <<>>
        /\ PrerequisitesFirst /\ prereqs' = prereqs
    BY DEF SortInv, Emit, Sorting, input
  <1>2. PICK node, ready :
           /\ node = Head(queue)
           /\ result' = Append(result, node)
           /\ ready \in Sorted(NewlyReady(node))
           /\ queue' = Tail(queue) \o ready
    BY DEF Emit, Enqueue
  <1> DEFINE R == NewlyReady(node)
             c == Cardinality(R)
  <1>3. /\ node \in nodes /\ node \notin Emitted
        /\ R = {n \in nodes \ Emitted : node \in prereqs[n] /\ prereqs[n] \subseteq Emitted \cup {node}}
    <2>1. SortInv /\ phase = "sort" /\ queue # <<>> /\ node = Head(queue)
      BY <1>1, <1>2
    <2> QED
      BY <2>1, EmittedReleases DEF Releases
  <1>4. /\ result \in Seq(nodes) /\ queue \in Seq(nodes)
        /\ Len(result) \in Nat /\ Len(queue) \in Nat
    BY <1>1, LenProperties DEF TypeOK
  <1>5. /\ ready \in Seq(nodes)
        /\ \A i \in 1 .. Len(ready) : node \in prereqs[ready[i]]
        /\ \A i, j \in 1 .. Len(ready) : i < j => Key[ready[i]] < Key[ready[j]]
    <2>1. R \subseteq nodes /\ c \in Nat
      BY <1>1, <1>3, FS_Subset, FS_CardinalityType DEF TypeOK
    <2>2. \A n \in R : node \in prereqs[n]
      BY <1>3
    <2> HIDE DEF R, c
    <2>3. /\ ready \in [1 .. c -> R]
          /\ \A i, j \in 1 .. c : i < j => Key[ready[i]] < Key[ready[j]]
      BY <1>2 DEF Sorted, R, c
    <2>4. ready \in Seq(nodes) /\ Len(ready) = c
      BY <2>1, <2>3
    <2> QED
      BY <2>2, <2>3, <2>4
  <1> HIDE DEF R
  <1> DEFINE line == result \o queue
  <1>6. /\ line \in Seq(nodes)
        /\ \A i \in 1 .. Len(line) : line[i] \in Emitted \/ line[i] \in Queued
    <2>1. /\ line \in Seq(nodes)
          /\ Len(line) = Len(result) + Len(queue)
          /\ \A i \in 1 .. Len(result) + Len(queue) :
                line[i] = IF i <= Len(result) THEN result[i] ELSE queue[i - Len(result)]
      BY <1>4, ConcatProperties
    <2> HIDE DEF line
    <2>2. ASSUME NEW i \in 1 .. Len(line) PROVE line[i] \in Emitted \/ line[i] \in Queued
      <3>1. CASE i <= Len(result)
        BY <1>4, <2>1, <3>1 DEF Emitted
      <3>2. CASE ~(i <= Len(result))
        <4>1. i - Len(result) \in 1 .. Len(queue)
          BY <1>4, <2>1, <3>2
        <4> QED
          BY <2>1, <3>2, <4>1 DEF Queued
      <3> QED
        BY <3>1, <3>2
    <2> QED
      BY <2>1, <2>2
  <1>7. \A n : n \in Emitted \/ n \in Queued => node \notin prereqs[n]
    <2>1. \A n \in Queued : prereqs[n] \subseteq Emitted
      BY <1>1 DEF LoopInv
    <2>2. ASSUME NEW n \in Emitted PROVE prereqs[n] \subseteq Emitted
      <3>1. PICK j \in 1 .. Len(result) : result[j] = n
        BY DEF Emitted
      <3>2. \A p \in prereqs[n] : \E h \in 1 .. (j - 1) : result[h] = p
        BY <1>1, <3>1 DEF PrerequisitesFirst
      <3>3. \A h \in 1 .. (j - 1) : h \in 1 .. Len(result)
        BY <1>4
      <3> QED
        BY <3>2, <3>3 DEF Emitted
    <2> QED
      BY <1>3, <2>1, <2>2
  <1>8. result' \o queue' = line \o ready
    <2>1. HeadMoves(result, queue, ready)
      BY <1>1, <1>4, <1>5, HeadJoins
    <2> QED
      BY <1>2, <2>1 DEF HeadMoves
  <1>9. InOrder(line, result, prereqs)
    BY <1>1 DEF OrderInv, Sorting
  <1> HIDE DEF line
  <1>10. InOrder(line \o ready, Append(result, node), prereqs)
    BY <1>3, <1>4, <1>5, <1>6, <1>7, <1>9, LineGrows
  <1> QED
    BY <1>1, <1>2, <1>8, <1>10 DEF OrderInv

\* RELEASE ORDER, for every graph and all keys: whatever the order in which sets
\* and mappings are iterated, there is one order that can be returned.
THEOREM OrderIsDetermined == Spec => []ReleaseOrder
  <1>1. Init => OrderInv
    BY DEF Init, OrderInv, Sorting
  <1>2. SortInv /\ OrderInv /\ [Next]_vars => OrderInv'
    <2> SUFFICES ASSUME SortInv, OrderInv, [Next]_vars PROVE OrderInv'
      OBVIOUS
    <2>1. CASE UNCHANGED vars
      BY <2>1 DEF vars, input, OrderInv, Sorting
    <2>2. CASE Validate
      <3>1. ~Sorting'
        BY <2>2 DEF Validate, Raise, Sorting, SortInv, EndInv
      <3> QED
        BY <3>1 DEF OrderInv
    <2>3. CASE Finish
      BY <2>3 DEF Finish, Raise, input, OrderInv, Sorting
    <2> QED
      BY <2>1, <2>2, <2>3, BuildOrder, EmitOrder DEF Next
  <1>3. SortInv /\ OrderInv => ReleaseOrder
    <2> SUFFICES ASSUME SortInv, OrderInv PROVE ReleaseOrder
      OBVIOUS
    <2>1. CASE Sorting
      <3> DEFINE line == result \o queue
      <3>1. result \in Seq(nodes) /\ queue \in Seq(nodes) /\ Len(result) \in Nat /\ Len(queue) \in Nat
        BY LenProperties DEF SortInv, TypeOK
      <3>2. /\ Len(line) = Len(result) + Len(queue)
            /\ \A i \in 1 .. Len(result) + Len(queue) :
                  line[i] = IF i <= Len(result) THEN result[i] ELSE queue[i - Len(result)]
        BY <3>1, ConcatProperties
      <3>3. InOrder(line, result, prereqs)
        BY <2>1 DEF OrderInv
      <3> HIDE DEF line
      <3>4. \A i \in 1 .. Len(result) : i \in 1 .. Len(line) /\ line[i] = result[i]
        BY <3>1, <3>2
      <3> QED
        BY <3>3, <3>4 DEF InOrder, ReleaseOrder, Released
    <2>2. CASE ~Sorting
      BY <2>2 DEF SortInv, ReleaseOrder
    <2> QED
      BY <2>1, <2>2
  <1> QED
    BY <1>1, <1>2, <1>3, SortInvariance, PTL DEF Spec

=============================================================================
