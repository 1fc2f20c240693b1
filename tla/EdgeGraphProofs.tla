--------------------------- MODULE EdgeGraphProofs ---------------------------
(***************************************************************************)
(* Proofs about EdgeGraph, for all graphs of edges: how often each edge    *)
(* occurs after graphs are merged and one is taken from another, and what  *)
(* that means for the time a variable has to be kept.                      *)
(***************************************************************************)
EXTENDS EdgeGraph, FiniteSetTheorems, FunctionTheorems, SequenceTheorems,
        WellFoundedInduction, TLAPS

LEMMA LeastNatural ==
  ASSUME NEW T, T \subseteq Nat, T # {}
  PROVE  \E m \in T : \A k \in T : m <= k
<1>1. PICK m \in T : \A k \in T : ~(<<k, m>> \in OpToRel(<, Nat))
  BY WFMin, NatLessThanWellFounded, Zenon
<1>2. \A k \in T : ~(k < m)
  BY <1>1, Zenon DEF OpToRel
<1> QED
  BY <1>2

-----------------------------------------------------------------------------
(* Counting.  An edge occurs as often in a concatenation as in its parts.  *)

Places(s, x) == {i \in DOMAIN s : s[i] = x}

LEMMA PlacesFinite ==
  ASSUME NEW E, NEW s \in Seq(E), NEW x
  PROVE  IsFiniteSet(Places(s, x)) /\ Occurrences(s, x) \in Nat
<1>1. Len(s) \in Nat /\ Places(s, x) \in SUBSET (1 .. Len(s))
  BY LenProperties DEF Places
<1>2. IsFiniteSet(1 .. Len(s))
  BY <1>1, FS_Interval
<1>3. IsFiniteSet(Places(s, x))
  BY <1>1, <1>2, FS_Subset
<1>4. Cardinality(Places(s, x)) \in Nat
  BY <1>3, FS_CardinalityType
<1> QED
  BY <1>3, <1>4 DEF Places, Occurrences

LEMMA OccurrencesConcat ==
  ASSUME NEW E, NEW s \in Seq(E), NEW t \in Seq(E), NEW x
  PROVE  Occurrences(s \o t, x) = Occurrences(s, x) + Occurrences(t, x)
<1>1. /\ Len(s) \in Nat /\ DOMAIN s = 1 .. Len(s)
      /\ Len(t) \in Nat /\ DOMAIN t = 1 .. Len(t)
      /\ s \o t \in Seq(E) /\ DOMAIN (s \o t) = 1 .. Len(s) + Len(t)
  BY LenProperties, ConcatProperties
<1>2. \A i \in 1 .. Len(s) + Len(t) :
        (s \o t)[i] = IF i <= Len(s) THEN s[i] ELSE t[i - Len(s)]
  BY ConcatProperties
<1> DEFINE n == Len(s)
           P == Places(t, x)
           Q == {i \in n + 1 .. n + Len(t) : t[i - n] = x}
           f == [i \in P |-> i + n]
<1>3. f \in Bijection(P, Q)
  <2>1. \A i \in P : f[i] \in Q
    BY <1>1 DEF Places
  <2>2. \A i, j \in P : f[i] = f[j] => i = j
    BY <1>1 DEF Places
  <2>3. \A j \in Q : \E i \in P : f[i] = j
    <3> SUFFICES ASSUME NEW j \in Q PROVE j - n \in P /\ f[j - n] = j
      OBVIOUS
    <3>1. j - n \in P
      BY <1>1 DEF Places
    <3> QED
      BY <1>1, <3>1
  <2> HIDE DEF P, Q
  <2>4. f \in [P -> Q]
    BY <2>1
  <2> HIDE DEF f
  <2> QED
    BY <2>2, <2>3, <2>4, Fun_IsBij
<1>4. IsFiniteSet(P) /\ IsFiniteSet(Places(s, x))
  BY PlacesFinite
<1>5. IsFiniteSet(Q) /\ Cardinality(Q) = Cardinality(P)
  <2> HIDE DEF P, Q, f
  <2>1. ExistsBijection(P, Q)
    BY <1>3 DEF ExistsBijection
  <2> QED
    BY <1>4, <2>1, FS_Bijection
<1>6. Places(s \o t, x) = Places(s, x) \union Q /\ Places(s, x) \intersect Q = {}
  BY <1>1, <1>2 DEF Places
<1>7. Cardinality(Places(s, x) \union Q) = Cardinality(Places(s, x)) + Cardinality(Q) - Cardinality({})
  <2> HIDE DEF Q
  <2> QED
    BY <1>4, <1>5, <1>6, FS_Union
<1>8. Cardinality({}) = 0 /\ Cardinality(Places(s, x)) \in Nat /\ Cardinality(P) \in Nat
  BY <1>4, FS_EmptySet, FS_CardinalityType
<1> HIDE DEF Q, f
<1>9. Cardinality(Places(s \o t, x)) = Cardinality(Places(s, x)) + Cardinality(P)
  BY <1>5, <1>6, <1>7, <1>8
<1> QED
  BY <1>9 DEF Occurrences, Places

LEMMA OccurrencesOfOne ==
  ASSUME NEW e, NEW x
  PROVE  Occurrences(<<e>>, x) = IF x = e THEN 1 ELSE 0
<1>1. Places(<<e>>, x) = IF x = e THEN {1} ELSE {}
  BY DEF Places
<1>2. Cardinality({1}) = 1 /\ Cardinality({}) = 0
  BY FS_Singleton, FS_EmptySet
<1> QED
  BY <1>1, <1>2 DEF Places, Occurrences

\* What is not in a sequence occurs in it no time, and the other way round.
LEMMA NotOccurring ==
  ASSUME NEW E, NEW s \in Seq(E), NEW x
  PROVE  Occurrences(s, x) = 0 <=> \A i \in 1 .. Len(s) : s[i] # x
<1>1. Places(s, x) = {} <=> Cardinality(Places(s, x)) = 0
  BY PlacesFinite, FS_EmptySet
<1>2. DOMAIN s = 1 .. Len(s)
  BY LenProperties
<1> QED
  BY <1>1, <1>2 DEF Occurrences, Places

Less(a, b) == IF a > b THEN a - b ELSE 0

\* RemoveFirst takes one occurrence away.
LEMMA OccurrencesRemoved ==
  ASSUME NEW E, NEW s \in Seq(E), NEW e \in E
  PROVE  /\ RemoveFirst(s, e) \in Seq(E)
         /\ \A x : Occurrences(RemoveFirst(s, e), x)
                     = Less(Occurrences(s, x), IF x = e THEN 1 ELSE 0)
<1>0. \A x : Occurrences(s, x) \in Nat
  BY PlacesFinite
<1>1. CASE \A i \in 1 .. Len(s) : s[i] # e
  <2>1. RemoveFirst(s, e) = s
    BY <1>1 DEF RemoveFirst
  <2>2. Occurrences(s, e) = 0
    BY <1>1, NotOccurring
  <2> QED
    BY <1>0, <2>1, <2>2 DEF Less
<1>2. CASE \E i \in 1 .. Len(s) : s[i] = e
  <2> DEFINE I == {i \in 1 .. Len(s) : s[i] = e}
             k == Min(I)
  <2>1. k \in I
    <3>1. I \subseteq Nat /\ I # {}
      BY <1>2
    <3> HIDE DEF I
    <3>2. \E m \in I : \A i \in I : m <= i
      BY <3>1, LeastNatural
    <3> QED
      BY <3>2 DEF Min
  <2>2. RemoveFirst(s, e) = SubSeq(s, 1, k - 1) \o SubSeq(s, k + 1, Len(s))
    BY <1>2 DEF RemoveFirst, RemoveAt, SelectInSeq
  <2> HIDE DEF k
  <2>3. Len(s) \in Nat /\ k \in 1 .. Len(s) /\ s[k] = e
    BY <2>1, LenProperties
  <2> DEFINE a == SubSeq(s, 1, k - 1)
             b == SubSeq(s, k + 1, Len(s))
  <2>4. a \in Seq(E) /\ b \in Seq(E) /\ <<e>> \in Seq(E)
    <3>1. \A i \in 1 .. Len(s) : s[i] \in E
      BY ElementOfSeq
    <3>2. k - 1 \in Int /\ k + 1 \in Int /\ Len(s) \in Int
      BY <2>3
    <3>3. \A i \in 1 .. k - 1 : i \in 1 .. Len(s)
      BY <2>3
    <3>4. \A i \in k + 1 .. Len(s) : i \in 1 .. Len(s)
      BY <2>3
    <3>5. a \in Seq(E)
      BY <3>1, <3>2, <3>3, SubSeqProperties
    <3>6. b \in Seq(E)
      BY <3>1, <3>2, <3>4, SubSeqProperties
    <3> QED
      BY <3>5, <3>6
  <2>5. s = (a \o <<e>>) \o b
    <3>1. SubSeq(s, 1, k) = a \o <<e>>
      BY <2>3, SubSeqRecursiveSecond
    <3>2. s = SubSeq(s, 1, k) \o b
      <4>1. Len(SubSeq(s, 1, k)) = k /\ Len(b) = Len(s) - k /\ SubSeq(s, 1, k) \in Seq(E)
            /\ (\A i \in 1 .. k : SubSeq(s, 1, k)[i] = s[i])
            /\ (\A i \in 1 .. Len(s) - k : b[i] = s[k + i])
        BY <2>3
      <4> HIDE DEF b
      <4>2. /\ SubSeq(s, 1, k) \o b \in Seq(E) /\ Len(SubSeq(s, 1, k) \o b) = Len(s)
            /\ \A i \in 1 .. Len(s) : (SubSeq(s, 1, k) \o b)[i] =
                  IF i <= k THEN SubSeq(s, 1, k)[i] ELSE b[i - k]
        BY <2>3, <2>4, <4>1, ConcatProperties
      <4>3. \A i \in 1 .. Len(s) : (SubSeq(s, 1, k) \o b)[i] = s[i]
        <5> SUFFICES ASSUME NEW i \in 1 .. Len(s) PROVE (SubSeq(s, 1, k) \o b)[i] = s[i]
          OBVIOUS
        <5>1. CASE i <= k
          <6>1. i \in 1 .. k
            BY <2>3, <5>1
          <6> QED
            BY <4>1, <4>2, <5>1, <6>1
        <5>2. CASE ~(i <= k)
          <6>1. i - k \in 1 .. Len(s) - k /\ k + (i - k) = i
            BY <2>3, <5>2
          <6> QED
            BY <4>1, <4>2, <5>2, <6>1
        <5> QED
          BY <5>1, <5>2
      <4> QED
        BY <4>2, <4>3, SeqEqual
    <3> QED
      BY <3>1, <3>2
  <2> HIDE DEF a, b
  <2>6. a \o <<e>> \in Seq(E) /\ a \o b \in Seq(E) /\ RemoveFirst(s, e) = a \o b
    BY <2>2, <2>4, ConcatProperties DEF a, b
  <2>7. ASSUME NEW x
        PROVE  /\ Occurrences(s, x) = Occurrences(a, x) + (IF x = e THEN 1 ELSE 0) + Occurrences(b, x)
               /\ Occurrences(a \o b, x) = Occurrences(a, x) + Occurrences(b, x)
               /\ Occurrences(a, x) \in Nat /\ Occurrences(b, x) \in Nat
    <3>1. Occurrences(s, x) = Occurrences(a \o <<e>>, x) + Occurrences(b, x)
      BY <2>4, <2>5, <2>6, OccurrencesConcat
    <3>2. Occurrences(a \o <<e>>, x) = Occurrences(a, x) + Occurrences(<<e>>, x)
      BY <2>4, OccurrencesConcat
    <3>3. Occurrences(a \o b, x) = Occurrences(a, x) + Occurrences(b, x)
      BY <2>4, OccurrencesConcat
    <3>4. Occurrences(a, x) \in Nat /\ Occurrences(b, x) \in Nat
      BY <2>4, PlacesFinite
    <3> QED
      BY <3>1, <3>2, <3>3, <3>4, OccurrencesOfOne
  <2>8. ASSUME NEW x
        PROVE  Occurrences(a \o b, x) = Less(Occurrences(s, x), IF x = e THEN 1 ELSE 0)
    <3>1. CASE x = e
      BY <2>7, <3>1 DEF Less
    <3>2. CASE x # e
      BY <2>7, <3>2 DEF Less
    <3> QED
      BY <3>1, <3>2
  <2> QED
    BY <2>6, <2>8
<1> QED
  BY <1>1, <1>2

-----------------------------------------------------------------------------
(* Taking one graph from another.  Without is a recursive function of how  *)
(* many edges were looked for, which exists since every beginning of it    *)
(* does.                                                                   *)

Left(edges, others, f, i) == IF i = 0 THEN edges ELSE RemoveFirst(f[i - 1], others[i])
Leaves(edges, others, n, f) == f = [i \in 0 .. n |-> Left(edges, others, f, i)]

LEMMA LeavesExist ==
  ASSUME NEW s, NEW t
  PROVE  \A n \in Nat : \E f : Leaves(s, t, n, f)
<1> DEFINE T == {n \in Nat : ~\E f : Leaves(s, t, n, f)}
<1>1. ASSUME T # {} PROVE FALSE
  <2>1. PICK n \in T : \A k \in T : n <= k
    BY <1>1, LeastNatural
  <2>2. CASE n = 0
    <3> DEFINE f == [i \in 0 .. 0 |-> s]
    <3>1. \A i \in 0 .. 0 : i = 0
      OBVIOUS
    <3>2. \A i \in 0 .. 0 : Left(s, t, f, i) = s
      BY <3>1 DEF Left
    <3>3. f = [i \in 0 .. 0 |-> Left(s, t, f, i)]
      BY <3>2
    <3> QED
      BY <2>1, <2>2, <3>3 DEF Leaves
  <2>3. CASE n # 0
    <3>1. n - 1 \in Nat /\ n - 1 \notin T
      BY <2>1, <2>3
    <3>2. PICK g : Leaves(s, t, n - 1, g)
      BY <3>1
    <3> DEFINE last == Left(s, t, g, n)
               f == [i \in 0 .. n |-> IF i < n THEN g[i] ELSE last]
    <3>3. ASSUME NEW i \in 0 .. n PROVE f[i] = Left(s, t, f, i)
      <4>1. Left(s, t, f, i) = Left(s, t, g, i)
        <5>1. CASE i = 0
          BY <5>1 DEF Left
        <5>2. CASE i # 0
          <6>1. f[i - 1] = g[i - 1]
            BY <2>1, <5>2
          <6> HIDE DEF f
          <6> QED
            BY <5>2, <6>1 DEF Left
        <5> QED
          BY <5>1, <5>2
      <4>2. CASE i < n
        <5>1. i \in 0 .. n - 1
          BY <2>1, <4>2
        <5>2. g[i] = Left(s, t, g, i)
          BY <3>2, <5>1 DEF Leaves
        <5>3. f[i] = g[i]
          BY <4>2
        <5> QED
          BY <4>1, <5>2, <5>3
      <4>3. CASE ~(i < n)
        <5>1. i = n
          BY <2>1, <4>3
        <5>2. f[i] = last
          BY <4>3
        <5> QED
          BY <4>1, <5>1, <5>2
      <4> QED
        BY <4>2, <4>3
    <3>4. f = [i \in 0 .. n |-> f[i]]
      OBVIOUS
    <3> HIDE DEF f
    <3>5. Leaves(s, t, n, f)
      BY <3>3, <3>4 DEF Leaves
    <3> QED
      BY <2>1, <3>5
  <2> QED
    BY <2>2, <2>3
<1> QED
  BY <1>1

\* What is left after each search.
LEMMA WithoutBySearch ==
  ASSUME NEW s, NEW t, Len(t) \in Nat
  PROVE  \E f : /\ Without(s, t) = f[Len(t)]
                /\ f[0] = s
                /\ \A i \in 1 .. Len(t) : f[i] = RemoveFirst(f[i - 1], t[i])
<1> DEFINE f == CHOOSE f : Leaves(s, t, Len(t), f)
<1>1. Leaves(s, t, Len(t), f)
  BY LeavesExist
<1>2. Without(s, t) = f[Len(t)]
  BY DEF Without, Leaves, Left
<1> HIDE DEF f
<1>3. \A i \in 0 .. Len(t) : f[i] = Left(s, t, f, i)
  BY <1>1 DEF Leaves
<1>4. f[0] = s
  <2>1. 0 \in 0 .. Len(t)
    OBVIOUS
  <2> QED
    BY <1>3, <2>1 DEF Left
<1>5. \A i \in 1 .. Len(t) : i \in 0 .. Len(t) /\ i # 0
  OBVIOUS
<1>6. \A i \in 1 .. Len(t) : f[i] = RemoveFirst(f[i - 1], t[i])
  BY <1>3, <1>5 DEF Left
<1> QED
  BY <1>2, <1>4, <1>6

LEMMA OccurrencesWithout ==
  ASSUME NEW E, NEW s \in Seq(E), NEW t \in Seq(E)
  PROVE  /\ Without(s, t) \in Seq(E)
         /\ \A x : Occurrences(Without(s, t), x) = Less(Occurrences(s, x), Occurrences(t, x))
<1>1. Len(t) \in Nat /\ \A i \in 1 .. Len(t) : t[i] \in E
  BY LenProperties, ElementOfSeq
<1>2. PICK f : /\ Without(s, t) = f[Len(t)]
               /\ f[0] = s
               /\ \A i \in 1 .. Len(t) : f[i] = RemoveFirst(f[i - 1], t[i])
  BY <1>1, WithoutBySearch
<1> DEFINE Searched(i) == SubSeq(t, 1, i)
           Good(i) == /\ f[i] \in Seq(E)
                      /\ \A x : Occurrences(f[i], x) = Less(Occurrences(s, x), Occurrences(Searched(i), x))
           T == {i \in 0 .. Len(t) : ~Good(i)}
<1>3. Good(0)
  <2>1. Searched(0) = <<>>
    BY SubSeqEmpty
  <2>2. ASSUME NEW x PROVE Occurrences(<<>>, x) = 0 /\ Occurrences(s, x) \in Nat
    <3>1. Occurrences(s, x) \in Nat
      BY PlacesFinite
    <3>2. Places(<<>>, x) = {}
      BY DEF Places
    <3> QED
      BY <3>1, <3>2, FS_EmptySet DEF Places, Occurrences
  <2>3. \A x : Occurrences(s, x) = Less(Occurrences(s, x), Occurrences(<<>>, x))
    BY <2>2 DEF Less
  <2> QED
    BY <1>2, <2>1, <2>3
<1>4. ASSUME NEW i \in 1 .. Len(t), Good(i - 1) PROVE Good(i)
  <2>1. f[i] = RemoveFirst(f[i - 1], t[i]) /\ f[i - 1] \in Seq(E) /\ t[i] \in E
    BY <1>1, <1>2, <1>4
  <2>2. /\ f[i] \in Seq(E)
        /\ \A x : Occurrences(f[i], x) = Less(Occurrences(f[i - 1], x), IF x = t[i] THEN 1 ELSE 0)
    <3> DEFINE p == f[i - 1]
               e == t[i]
    <3>1. p \in Seq(E) /\ e \in E /\ f[i] = RemoveFirst(p, e)
      BY <2>1
    <3> HIDE DEF p, e
    <3>2. /\ f[i] \in Seq(E)
          /\ \A x : Occurrences(f[i], x) = Less(Occurrences(p, x), IF x = e THEN 1 ELSE 0)
      BY <3>1, OccurrencesRemoved
    <3> QED
      BY <3>2 DEF p, e
  <2>3. Searched(i) = Searched(i - 1) \o <<t[i]>>
    BY <1>1, SubSeqRecursiveSecond
  <2>4. Searched(i - 1) \in Seq(E) /\ <<t[i]>> \in Seq(E)
    <3>1. \A j \in 1 .. i - 1 : t[j] \in E
      BY <1>1
    <3>2. 1 \in Int /\ i - 1 \in Int
      BY <1>1
    <3> QED
      BY <2>1, <3>1, <3>2, SubSeqProperties
  <2>5. ASSUME NEW x
        PROVE  Occurrences(f[i], x) = Less(Occurrences(s, x), Occurrences(Searched(i), x))
    <3> DEFINE a == Occurrences(s, x)
               b == Occurrences(Searched(i - 1), x)
               c == IF x = t[i] THEN 1 ELSE 0
    <3>1. Occurrences(Searched(i), x) = b + Occurrences(<<t[i]>>, x)
      <4> DEFINE u == Searched(i - 1)
                 w == <<t[i]>>
      <4>1. u \in Seq(E) /\ w \in Seq(E) /\ Searched(i) = u \o w
        BY <2>3, <2>4
      <4> HIDE DEF u, w, Searched
      <4>2. Occurrences(u \o w, x) = Occurrences(u, x) + Occurrences(w, x)
        BY <4>1, OccurrencesConcat
      <4> QED
        BY <4>1, <4>2 DEF u, w
    <3>2. Occurrences(<<t[i]>>, x) = c
      BY OccurrencesOfOne
    <3>3. a \in Nat /\ b \in Nat
      BY <2>4, PlacesFinite
    <3>4. Occurrences(f[i], x) = Less(Less(a, b), c)
      BY <1>4, <2>2
    <3>5. c \in Nat
      OBVIOUS
    <3> HIDE DEF a, b, c, Searched
    <3>6. Less(Less(a, b), c) = Less(a, b + c)
      BY <3>3, <3>5 DEF Less
    <3> QED
      BY <3>1, <3>2, <3>4, <3>6 DEF a
  <2> QED
    BY <2>2, <2>5
<1> HIDE DEF Good
<1>5. T = {}
  <2> SUFFICES ASSUME T # {} PROVE FALSE
    OBVIOUS
  <2>1. PICK i \in T : \A k \in T : i <= k
    <3>1. T \subseteq Nat
      OBVIOUS
    <3> HIDE DEF T
    <3> QED
      BY <3>1, LeastNatural
  <2>2. i # 0 /\ i \in 0 .. Len(t)
    BY <1>3, <2>1
  <2>3. i \in 1 .. Len(t) /\ i - 1 \in 0 .. Len(t) /\ i - 1 \notin T
    BY <1>1, <2>1, <2>2
  <2>4. Good(i - 1)
    BY <2>3
  <2> QED
    BY <1>4, <2>1, <2>3, <2>4
<1>6. Good(Len(t))
  BY <1>1, <1>5
<1>7. Searched(Len(t)) = t
  BY SubSeqFull
<1> QED
  BY <1>2, <1>6, <1>7 DEF Good

GraphOver(V) == [nodes : SUBSET V, edges : Seq(V \X V \X Int)]

\* How often an edge occurs decides which graphs have the same edges.
LEMMA SameByOccurrences ==
  ASSUME NEW V, NEW g \in GraphOver(V), NEW h \in GraphOver(V)
  PROVE  SameEdges(g, h) <=> \A x : Occurrences(g.edges, x) = Occurrences(h.edges, x)
<1> DEFINE E == V \X V \X Int
<1>0. g.edges \in Seq(E) /\ h.edges \in Seq(E)
  BY DEF GraphOver
<1> HIDE DEF E
<1>1. ASSUME SameEdges(g, h), NEW x
      PROVE  Occurrences(g.edges, x) = Occurrences(h.edges, x)
  <2>1. CASE x \in ToSet(g.edges) \union ToSet(h.edges)
    BY <1>1, <2>1 DEF SameEdges
  <2>2. CASE x \notin ToSet(g.edges) \union ToSet(h.edges)
    <3>1. ASSUME NEW s \in Seq(E), x \notin ToSet(s) PROVE Occurrences(s, x) = 0
      <4>1. \A i \in 1 .. Len(s) : i \in DOMAIN s
        BY LenProperties
      <4> QED
        BY <3>1, <4>1, NotOccurring DEF ToSet
    <3> QED
      BY <1>0, <2>2, <3>1
  <2> QED
    BY <2>1, <2>2
<1>2. (\A x : Occurrences(g.edges, x) = Occurrences(h.edges, x)) => SameEdges(g, h)
  BY DEF SameEdges
<1> QED
  BY <1>1, <1>2

LEMMA OccurrencesCount ==
  ASSUME NEW V, NEW g \in GraphOver(V)
  PROVE  /\ g.edges \in Seq(V \X V \X Int) /\ g.nodes \subseteq V
         /\ \A x : Occurrences(g.edges, x) \in Nat
<1>1. g.edges \in Seq(V \X V \X Int) /\ g.nodes \subseteq V
  BY DEF GraphOver
<1> QED
  BY <1>1, PlacesFinite

LEMMA MergedOccurrences ==
  ASSUME NEW V, NEW g \in GraphOver(V), NEW h \in GraphOver(V)
  PROVE  /\ MergeGraphs(g, h) \in GraphOver(V)
         /\ \A x : Occurrences(MergeGraphs(g, h).edges, x)
                     = Occurrences(g.edges, x) + Occurrences(h.edges, x)
<1> DEFINE E == V \X V \X Int
           s == g.edges
           t == h.edges
<1>1. s \in Seq(E) /\ t \in Seq(E) /\ g.nodes \union h.nodes \in SUBSET V
  BY OccurrencesCount
<1>2. MergeGraphs(g, h) = [nodes |-> g.nodes \union h.nodes, edges |-> s \o t]
  BY DEF MergeGraphs, Graph
<1> HIDE DEF s, t
<1>3. s \o t \in Seq(E)
  BY <1>1, ConcatProperties
<1>4. MergeGraphs(g, h) \in GraphOver(V)
  BY <1>1, <1>2, <1>3 DEF GraphOver
<1> HIDE DEF E
<1>5. \A x : Occurrences(s \o t, x) = Occurrences(s, x) + Occurrences(t, x)
  BY <1>1, OccurrencesConcat
<1> QED
  BY <1>2, <1>4, <1>5 DEF s, t

LEMMA DiffOccurrences ==
  ASSUME NEW V, NEW g \in GraphOver(V), NEW h \in GraphOver(V)
  PROVE  /\ DiffGraphs(g, h) \in GraphOver(V)
         /\ \A x : Occurrences(DiffGraphs(g, h).edges, x)
                     = Less(Occurrences(g.edges, x), Occurrences(h.edges, x))
<1> DEFINE E == V \X V \X Int
           s == g.edges
           t == h.edges
<1>1. s \in Seq(E) /\ t \in Seq(E) /\ g.nodes \union h.nodes \in SUBSET V
  BY OccurrencesCount
<1>2. DiffGraphs(g, h) = [nodes |-> g.nodes \union h.nodes, edges |-> Without(s, t)]
  BY DEF DiffGraphs, Graph
<1> HIDE DEF s, t
<1>3. /\ Without(s, t) \in Seq(E)
      /\ \A x : Occurrences(Without(s, t), x) = Less(Occurrences(s, x), Occurrences(t, x))
  BY <1>1, OccurrencesWithout
<1>4. DiffGraphs(g, h) \in GraphOver(V)
  BY <1>1, <1>2, <1>3 DEF GraphOver
<1> QED
  BY <1>2, <1>3, <1>4 DEF s, t

\* What is added and then removed leaves the graph as it was, also when it had
\* some of the edges before: add_dependency and remove_dependency of the same
\* assignment, whatever it reads.
THEOREM RemovalUndoesAddition ==
  ASSUME NEW V, NEW g \in GraphOver(V), NEW h \in GraphOver(V)
  PROVE  SameEdges(DiffGraphs(MergeGraphs(g, h), h), g)
<1> DEFINE m == MergeGraphs(g, h)
<1>1. /\ m \in GraphOver(V)
      /\ \A x : Occurrences(m.edges, x) = Occurrences(g.edges, x) + Occurrences(h.edges, x)
  BY MergedOccurrences
<1>0. \A x : Occurrences(g.edges, x) \in Nat /\ Occurrences(h.edges, x) \in Nat
  BY OccurrencesCount
<1> HIDE DEF m
<1>2. /\ DiffGraphs(m, h) \in GraphOver(V)
      /\ \A x : Occurrences(DiffGraphs(m, h).edges, x)
                  = Less(Occurrences(m.edges, x), Occurrences(h.edges, x))
  BY <1>1, DiffOccurrences
<1>3. ASSUME NEW x
      PROVE  Occurrences(DiffGraphs(m, h).edges, x) = Occurrences(g.edges, x)
  BY <1>0, <1>1, <1>2 DEF Less
<1>4. SameEdges(DiffGraphs(m, h), g)
  BY <1>2, <1>3, SameByOccurrences
<1> QED
  BY <1>4 DEF m

\* When a property takes the place of another, as in the simplification of a
\* defer, the graph becomes that of the other assignments and the new property,
\* however many edges the old one had in common with them.
THEOREM ReplacementIsExact ==
  ASSUME NEW V, NEW g \in GraphOver(V), NEW others \in GraphOver(V),
         NEW old \in GraphOver(V), NEW new \in GraphOver(V),
         SameEdges(g, MergeGraphs(others, old))
  PROVE  SameEdges(MergeGraphs(DiffGraphs(g, old), new), MergeGraphs(others, new))
<1> DEFINE m == MergeGraphs(others, old)
           n == MergeGraphs(others, new)
           d == DiffGraphs(g, old)
           r == MergeGraphs(d, new)
<1>1. /\ m \in GraphOver(V)
      /\ \A x : Occurrences(m.edges, x) = Occurrences(others.edges, x) + Occurrences(old.edges, x)
  BY MergedOccurrences
<1>0. \A x : Occurrences(others.edges, x) \in Nat /\ Occurrences(old.edges, x) \in Nat
  BY OccurrencesCount
<1>2. /\ n \in GraphOver(V)
      /\ \A x : Occurrences(n.edges, x) = Occurrences(others.edges, x) + Occurrences(new.edges, x)
  BY MergedOccurrences
<1>3. /\ d \in GraphOver(V)
      /\ \A x : Occurrences(d.edges, x) = Less(Occurrences(g.edges, x), Occurrences(old.edges, x))
  BY DiffOccurrences
<1>4. SameEdges(g, m)
  OBVIOUS
<1> HIDE DEF m, n, d
<1>5. /\ r \in GraphOver(V)
      /\ \A x : Occurrences(r.edges, x) = Occurrences(d.edges, x) + Occurrences(new.edges, x)
  BY <1>3, MergedOccurrences
<1> HIDE DEF r
<1>6. \A x : Occurrences(g.edges, x) = Occurrences(m.edges, x)
  BY <1>1, <1>4, SameByOccurrences
<1>7. ASSUME NEW x PROVE Occurrences(d.edges, x) = Occurrences(others.edges, x)
  BY <1>0, <1>1, <1>3, <1>6 DEF Less
<1>8. ASSUME NEW x PROVE Occurrences(r.edges, x) = Occurrences(n.edges, x)
  BY <1>2, <1>5, <1>7
<1>9. SameEdges(r, n)
  BY <1>2, <1>5, <1>8, SameByOccurrences
<1> QED
  BY <1>9 DEF r, n, d

-----------------------------------------------------------------------------
(* How far back a variable is read: what the clean-up of the runtime keeps *)
(* of it.                                                                  *)

Sizes(g, v) == {Size(g.edges[i][3]) : i \in {j \in DOMAIN g.edges : g.edges[j][2] = v}} \union {0}

\* The weights of finitely many edges have a bound.
LEMMA SizesBounded ==
  ASSUME NEW V, NEW g \in GraphOver(V), NEW v
  PROVE  Sizes(g, v) \subseteq Nat /\ \E b \in Nat : \A d \in Sizes(g, v) : d <= b
<1> DEFINE E == V \X V \X Int
           s == g.edges
           Bounded(n) == \E b \in Nat : \A i \in 1 .. n : Size(s[i][3]) <= b
           T == {n \in 0 .. Len(s) : ~Bounded(n)}
<1>1. s \in Seq(E) /\ Len(s) \in Nat /\ DOMAIN s = 1 .. Len(s)
  BY OccurrencesCount, LenProperties
<1>2. ASSUME NEW i \in 1 .. Len(s) PROVE Size(s[i][3]) \in Nat
  <2>1. s[i] \in E
    BY <1>1, ElementOfSeq
  <2>2. s[i][3] \in Int
    BY <2>1
  <2> QED
    BY <2>2 DEF Size
<1> HIDE DEF s
<1>3. Bounded(0)
  BY 0 \in Nat
<1>4. ASSUME NEW n \in 1 .. Len(s), Bounded(n - 1) PROVE Bounded(n)
  <2>1. PICK b \in Nat : \A i \in 1 .. n - 1 : Size(s[i][3]) <= b
    BY <1>4
  <2>2. Size(s[n][3]) \in Nat
    BY <1>2
  <2>3. PICK c \in Nat : b <= c /\ Size(s[n][3]) <= c
    <3>1. CASE Size(s[n][3]) <= b
      BY <3>1
    <3>2. CASE ~(Size(s[n][3]) <= b)
      BY <2>2, <3>2
    <3> QED
      BY <3>1, <3>2
  <2>4. ASSUME NEW i \in 1 .. n PROVE Size(s[i][3]) <= c
    <3>1. CASE i = n
      BY <2>3, <3>1
    <3>2. CASE i # n
      <4>1. i \in 1 .. n - 1 /\ i \in 1 .. Len(s)
        BY <1>1, <3>2
      <4> QED
        BY <1>2, <2>1, <2>3, <4>1
    <3> QED
      BY <3>1, <3>2
  <2> QED
    BY <2>4
<1> HIDE DEF Bounded
<1>5. T = {}
  <2> SUFFICES ASSUME T # {} PROVE FALSE
    OBVIOUS
  <2>1. PICK n \in T : \A k \in T : n <= k
    <3>1. T \subseteq Nat
      BY <1>1
    <3> HIDE DEF T
    <3> QED
      BY <3>1, LeastNatural
  <2>2. n \in 1 .. Len(s) /\ n - 1 \in 0 .. Len(s) /\ n - 1 \notin T
    BY <1>1, <1>3, <2>1
  <2> QED
    BY <1>4, <2>1, <2>2
<1>6. Bounded(Len(s))
  BY <1>1, <1>5
<1>7. PICK b \in Nat : \A i \in 1 .. Len(s) : Size(s[i][3]) <= b
  BY <1>6 DEF Bounded
<1>8. \A d \in Sizes(g, v) : d = 0 \/ \E i \in 1 .. Len(s) : d = Size(s[i][3])
  BY <1>1 DEF Sizes, s
<1> HIDE DEF T, Bounded
<1>9. ASSUME NEW d \in Sizes(g, v) PROVE d \in Nat /\ d <= b
  <2>1. CASE d = 0
    BY <2>1
  <2>2. CASE \E i \in 1 .. Len(s) : d = Size(s[i][3])
    BY <1>2, <1>7, <2>2
  <2> QED
    BY <1>8, <2>1, <2>2
<1> QED
  BY <1>9

\* longest_time_dependency is at least the distance of every read of the
\* variable, and one of them unless it is 0.
THEOREM TimeCoversReads ==
  ASSUME NEW V, NEW g \in GraphOver(V), NEW v
  PROVE  /\ LongestTimeDependency(g, v) \in Nat
         /\ \A e \in ToSet(g.edges) : e[2] = v => Size(e[3]) <= LongestTimeDependency(g, v)
         /\ \/ LongestTimeDependency(g, v) = 0
            \/ \E e \in ToSet(g.edges) : e[2] = v /\ Size(e[3]) = LongestTimeDependency(g, v)
<1> DEFINE S == Sizes(g, v)
           T == {c \in Nat : \A d \in S : d <= c}
<1>1. S \subseteq Nat /\ 0 \in S /\ T # {}
  BY SizesBounded DEF Sizes
<1>2. PICK m \in T : \A c \in T : m <= c
  <2>1. T \subseteq Nat
    OBVIOUS
  <2> HIDE DEF T
  <2> QED
    BY <1>1, <2>1, LeastNatural
<1> HIDE DEF S
<1>3. m \in S
  <2> SUFFICES ASSUME m \notin S PROVE FALSE
    OBVIOUS
  <2>1. m \in Nat /\ m # 0
    BY <1>1, <1>2
  <2>2. ASSUME NEW d \in S PROVE d <= m - 1
    <3>1. d \in Nat /\ d <= m /\ d # m
      BY <1>1, <1>2
    <3> QED
      BY <2>1, <3>1
  <2>3. m - 1 \in T
    BY <2>1, <2>2
  <2> QED
    BY <1>2, <2>1, <2>3
<1>4. LongestTimeDependency(g, v) = CHOOSE n \in S : \A d \in S : d <= n
  BY DEF LongestTimeDependency, Sizes, S
<1>5. LongestTimeDependency(g, v) \in S /\ \A d \in S : d <= LongestTimeDependency(g, v)
  BY <1>2, <1>3, <1>4
<1>6. ASSUME NEW e \in ToSet(g.edges), e[2] = v PROVE Size(e[3]) \in S
  BY <1>6 DEF S, Sizes, ToSet
<1>7. \A d \in S : d = 0 \/ \E e \in ToSet(g.edges) : e[2] = v /\ Size(e[3]) = d
  BY DEF S, Sizes, ToSet
<1> QED
  BY <1>1, <1>5, <1>6, <1>7

\* Equal edges mean equal times.
LEMMA TimeOfSameEdges ==
  ASSUME NEW V, NEW g \in GraphOver(V), NEW h \in GraphOver(V), SameEdges(g, h), NEW v
  PROVE  LongestTimeDependency(g, v) = LongestTimeDependency(h, v)
<1>1. ASSUME NEW k \in GraphOver(V), NEW x
      PROVE  x \in ToSet(k.edges) <=> Occurrences(k.edges, x) # 0
  <2>1. k.edges \in Seq(V \X V \X Int)
    BY OccurrencesCount
  <2>2. DOMAIN k.edges = 1 .. Len(k.edges)
    BY <2>1, LenProperties
  <2> QED
    BY <2>1, <2>2, NotOccurring DEF ToSet
<1>2. ToSet(g.edges) = ToSet(h.edges)
  <2>1. \A x : Occurrences(g.edges, x) = Occurrences(h.edges, x)
    BY SameByOccurrences
  <2>2. \A x : x \in ToSet(g.edges) <=> x \in ToSet(h.edges)
    BY <1>1, <2>1
  <2> QED
    BY <2>2
<1>3. \A k : Sizes(k, v) = {Size(e[3]) : e \in {x \in ToSet(k.edges) : x[2] = v}} \union {0}
  BY DEF Sizes, ToSet
<1>4. Sizes(g, v) = Sizes(h, v)
  BY <1>2, <1>3
<1> QED
  BY <1>4 DEF LongestTimeDependency, Sizes

\* After a property has taken the place of another, the runtime keeps of each
\* variable what it would if the specification had said so from the start.
THEOREM ReplacementKeepsTime ==
  ASSUME NEW V, NEW g \in GraphOver(V), NEW others \in GraphOver(V),
         NEW old \in GraphOver(V), NEW new \in GraphOver(V),
         SameEdges(g, MergeGraphs(others, old)), NEW v
  PROVE  LongestTimeDependency(MergeGraphs(DiffGraphs(g, old), new), v)
           = LongestTimeDependency(MergeGraphs(others, new), v)
<1>1. SameEdges(MergeGraphs(DiffGraphs(g, old), new), MergeGraphs(others, new))
  BY ReplacementIsExact
<1>2. DiffGraphs(g, old) \in GraphOver(V)
  BY DiffOccurrences
<1>3. MergeGraphs(DiffGraphs(g, old), new) \in GraphOver(V)
  BY <1>2, MergedOccurrences
<1>4. MergeGraphs(others, new) \in GraphOver(V)
  BY MergedOccurrences
<1> QED
  BY <1>1, <1>3, <1>4, TimeOfSameEdges
=============================================================================
