----------------------------- MODULE PexRecord_proofs ---------------------------
(***************************************************************************)
(* Proofs about peer entries: what the two fingerprints tell apart and     *)
(* what a verdict depends on, for records of any parts in any order.       *)
(***************************************************************************)
EXTENDS PexRecord, FiniteSetTheorems, TLAPS

LEMMA LeastOf ==
  ASSUME NEW T \in SUBSET Nat, T # {}
  PROVE  \E n \in T : \A m \in T : n <= m
<1>1. PICK n \in T : \A m \in T : <<m, n>> \notin OpToRel(<, Nat)
  BY WFMin, NatLessThanWellFounded, Zenon
<1>2. ASSUME NEW m \in T PROVE n <= m
  <2>1. m \in Nat /\ n \in Nat
    OBVIOUS
  <2>2. ~(m < n)
    BY <1>1, <2>1 DEF OpToRel
  <2> QED
    BY <2>1, <2>2
<1> QED
  BY <1>2, Zenon

-----------------------------------------------------------------------------
(* Sorting.  R is a strict total order on C, a set of pairs.               *)

IsOrder(R, C) ==
    /\ \A x \in C : <<x, x>> \notin R
    /\ \A x, y, z \in C : <<x, y>> \in R /\ <<y, z>> \in R => <<x, z>> \in R
    /\ \A x, y \in C : x = y \/ <<x, y>> \in R \/ <<y, x>> \in R

HasGreatest(s, n, R) == \E m \in 1..n : \A i \in 1..n : <<s[i], s[m]>> \in R \/ s[i] = s[m]

LEMMA GreatestElement ==
  ASSUME NEW C, NEW R, IsOrder(R, C), NEW s \in Seq(C), NEW n \in 1..Len(s)
  PROVE  HasGreatest(s, n, R)
<1> USE DEF HasGreatest
<1> DEFINE Great(k, m) == \A i \in 1..k : <<s[i], s[m]>> \in R \/ s[i] = s[m]
           Failing == {k \in 1..Len(s) : ~\E m \in 1..k : Great(k, m)}
<1>1. Len(s) \in Nat /\ \A i \in 1..Len(s) : s[i] \in C
  OBVIOUS
<1>2. SUFFICES ASSUME Failing # {} PROVE FALSE
  OBVIOUS
<1>3. PICK k \in Failing : \A j \in Failing : k <= j
  <2>1. Failing \in SUBSET Nat
    BY <1>1
  <2> QED
    BY <1>2, <2>1, LeastOf
<1>4. CASE k = 1
  <2>1. Great(1, 1)
    OBVIOUS
  <2> QED
    BY <1>4, <2>1
<1>5. CASE k # 1
  <2>1. k \in 1..Len(s) /\ k - 1 \in 1..Len(s) /\ k - 1 \notin Failing /\ k \in Nat
    <3>1. k \in 1..Len(s) /\ \A j \in Failing : k <= j
      BY <1>3
    <3> HIDE DEF Failing
    <3>2. k \in Nat /\ k - 1 \in 1..Len(s) /\ ~(k <= k - 1)
      BY <3>1, <1>5, <1>1
    <3> QED
      BY <3>1, <3>2
  <2>2. PICK m \in 1..k - 1 : Great(k - 1, m)
    BY <2>1
  <2>3. m \in 1..k /\ k \in 1..k /\ s[m] \in C /\ s[k] \in C
    BY <2>1, <1>1
  <2>4. \A i \in 1..k : i = k \/ i \in 1..k - 1
    BY <2>1
  <2>5. CASE <<s[k], s[m]>> \in R \/ s[k] = s[m]
    <3>1. Great(k, m)
      BY <2>2, <2>4, <2>5
    <3> QED
      BY <2>3, <3>1
  <2>6. CASE <<s[m], s[k]>> \in R
    <3>1. ASSUME NEW i \in 1..k PROVE <<s[i], s[k]>> \in R \/ s[i] = s[k]
      <4>1. CASE i = k
        BY <4>1
      <4>2. CASE i \in 1..k - 1
        <5>1. i \in 1..Len(s)
          BY <2>1, <1>1
        <5>2. s[i] \in C /\ (<<s[i], s[m]>> \in R \/ s[i] = s[m])
          BY <5>1, <4>2, <2>2, <1>1
        <5> QED
          BY <5>2, <2>3, <2>6 DEF IsOrder
      <4> QED
        BY <4>1, <4>2, <2>4
    <3>2. Great(k, k)
      BY <3>1
    <3> QED
      BY <2>3, <3>2
  <2> QED
    BY <2>3, <2>5, <2>6 DEF IsOrder
<1> QED
  BY <1>4, <1>5

Moved(s, p) == [i \in 1..Len(s) |-> s[p[i]]]

(* Every sequence can be put in order: put its greatest element last, and the
   others, with the last one in its place, in order before it. *)
LEMMA CanBeSorted ==
  ASSUME NEW C, NEW R, IsOrder(R, C), NEW s \in Seq(C)
  PROVE  \E p \in Bijection(1..Len(s), 1..Len(s)) : InOrder(Moved(s, p), R)
<1> DEFINE Sortable(u) == \E p \in Bijection(1..Len(u), 1..Len(u)) : InOrder(Moved(u, p), R)
           Failing == {n \in Nat : \E u \in Seq(C) : Len(u) = n /\ ~Sortable(u)}
<1>1. SUFFICES ASSUME Failing # {} PROVE FALSE
  OBVIOUS
<1>2. PICK n \in Failing : \A j \in Failing : n <= j
  <2>1. Failing \in SUBSET Nat
    OBVIOUS
  <2> QED
    BY <1>1, <2>1, LeastOf
<1>3. PICK u \in Seq(C) : Len(u) = n /\ ~Sortable(u)
  BY <1>2
<1>4. n \in Nat
  BY <1>2
<1>5. CASE n = 0
  <2> DEFINE q == [i \in 1..0 |-> i]
  <2>1. 1..0 = {}
    OBVIOUS
  <2>2. q \in Bijection(1..0, 1..0)
    BY <2>1 DEF Bijection, Injection, Surjection, IsInjective
  <2>3. InOrder(Moved(u, q), R)
    BY <1>3, <1>5, <2>1 DEF InOrder, Moved
  <2> HIDE DEF q
  <2> QED
    BY <2>2, <2>3, <1>3, <1>5
<1>6. CASE n # 0
  <2>1. n \in 1..Len(u) /\ n - 1 \in Nat /\ n - 1 \notin Failing
    BY <1>2, <1>3, <1>4, <1>6
  <2>2. PICK m \in 1..n : \A i \in 1..n : <<u[i], u[m]>> \in R \/ u[i] = u[m]
    <3>1. HasGreatest(u, n, R)
      BY <2>1, GreatestElement
    <3> QED
      BY <3>1 DEF HasGreatest
  <2> DEFINE v == [i \in 1..n - 1 |-> IF i = m THEN u[n] ELSE u[i]]
  <2>3. v \in Seq(C) /\ Len(v) = n - 1
    <3>1. \A i \in 1..n : u[i] \in C
      BY <1>3
    <3>2. \A i \in 1..n - 1 : v[i] \in C
      BY <3>1, <1>4, <2>1
    <3> QED
      BY <3>2, <2>1
  <2>4. PICK p \in Bijection(1..n - 1, 1..n - 1) : InOrder(Moved(v, p), R)
    BY <2>1, <2>3
  <2>5. /\ p \in [1..n - 1 -> 1..n - 1]
        /\ \A i, j \in 1..n - 1 : p[i] = p[j] => i = j
        /\ \A j \in 1..n - 1 : \E i \in 1..n - 1 : p[i] = j
    BY <2>4 DEF Bijection, Injection, Surjection, IsInjective
  <2> DEFINE q == [i \in 1..n |-> IF i = n THEN m ELSE IF p[i] = m THEN n ELSE p[i]]
  <2>6. n \in 1..n /\ \A i \in 1..n : i = n \/ i \in 1..n - 1
    BY <2>1, <1>4
  <2>7. \A i \in 1..n - 1 : i \in 1..n /\ i # n
    BY <1>4
  <2>8. /\ q[n] = m /\ \A i \in 1..n - 1 : q[i] = IF p[i] = m THEN n ELSE p[i]
        /\ DOMAIN q = 1..n
    BY <2>6, <2>7
  <2> HIDE DEF q
  <2>9. q \in Bijection(1..n, 1..n)
    <3>1. q \in [1..n -> 1..n]
      <4>1. q = [i \in 1..n |-> q[i]]
        BY DEF q
      <4>2. \A i \in 1..n : q[i] \in 1..n
        BY <2>2, <2>5, <2>6, <2>7, <2>8
      <4> QED
        BY <4>1, <4>2
    <3>2. ASSUME NEW i \in 1..n, NEW j \in 1..n, q[i] = q[j] PROVE i = j
      <4>1. CASE i = n
        <5>1. \A k \in 1..n - 1 : q[k] # m
          BY <2>5, <2>7, <2>8
        <5> QED
          BY <4>1, <5>1, <2>6, <2>8, <3>2
      <4>2. CASE j = n
        <5>1. \A k \in 1..n - 1 : q[k] # m
          BY <2>5, <2>7, <2>8
        <5> QED
          BY <4>2, <5>1, <2>6, <2>8, <3>2
      <4>3. CASE i # n /\ j # n
        <5>1. i \in 1..n - 1 /\ j \in 1..n - 1 /\ p[i] \in 1..n - 1 /\ p[j] \in 1..n - 1
          BY <4>3, <2>5, <2>6
        <5>2. p[i] # n /\ p[j] # n
          BY <5>1, <2>7
        <5>3. p[i] = p[j]
          BY <5>1, <5>2, <3>2, <2>8
        <5> QED
          BY <5>1, <5>3, <2>5
      <4> QED
        BY <4>1, <4>2, <4>3
    <3>3. ASSUME NEW j \in 1..n PROVE \E i \in 1..n : q[i] = j
      <4>1. CASE j = m
        BY <4>1, <2>6, <2>8
      <4>2. CASE j # m /\ j = n
        <5>1. m \in 1..n - 1
          BY <4>2, <2>2, <2>6
        <5>2. PICK i \in 1..n - 1 : p[i] = m
          BY <5>1, <2>5
        <5> QED
          BY <5>2, <4>2, <2>7, <2>8
      <4>3. CASE j # m /\ j # n
        <5>1. j \in 1..n - 1
          BY <4>3, <2>6
        <5>2. PICK i \in 1..n - 1 : p[i] = j
          BY <5>1, <2>5
        <5> QED
          BY <5>2, <4>3, <2>7, <2>8
      <4> QED
        BY <4>1, <4>2, <4>3
    <3> QED
      BY <3>1, <3>2, <3>3, <2>8 DEF Bijection, Injection, Surjection, IsInjective
  <2>10. \A i \in 1..n - 1 : u[q[i]] = v[p[i]]
    <3> TAKE i \in 1..n - 1
    <3>1. p[i] \in 1..n - 1
      BY <2>5
    <3>2. v[p[i]] = IF p[i] = m THEN u[n] ELSE u[p[i]]
      BY <3>1
    <3> HIDE DEF v
    <3> QED
      BY <3>2, <2>8
  <2> HIDE DEF v
  <2>11. InOrder(Moved(u, q), R)
    <3> DEFINE w == Moved(u, q)
    <3>1. DOMAIN w = 1..n /\ \A i \in 1..n : w[i] = u[q[i]]
      BY <1>3 DEF Moved
    <3> HIDE DEF w
    <3>2. ASSUME NEW i \in 1..n, NEW j \in 1..n, i < j
          PROVE  <<w[i], w[j]>> \in R \/ w[i] = w[j]
      <4>1. CASE j = n
        <5>1. q[i] \in 1..n
          BY <2>9 DEF Bijection, Injection
        <5> QED
          BY <5>1, <4>1, <2>2, <2>6, <2>8, <3>1
      <4>2. CASE j # n
        <5>1. i \in 1..n - 1 /\ j \in 1..n - 1
          BY <4>2, <3>2, <1>4
        <5>2. w[i] = v[p[i]] /\ w[j] = v[p[j]]
          BY <5>1, <3>1, <2>7, <2>10
        <5>3. <<v[p[i]], v[p[j]]>> \in R \/ v[p[i]] = v[p[j]]
          BY <5>1, <2>3, <2>4, <3>2, ZenonT(30) DEF InOrder, Moved
        <5> QED
          BY <5>2, <5>3
      <4> QED
        BY <4>1, <4>2
    <3>3. InOrder(w, R)
      BY <3>1, <3>2 DEF InOrder
    <3> QED
      BY <3>3 DEF w
  <2> QED
    BY <2>9, <2>11, <1>3
<1> QED
  BY <1>5, <1>6

LEMMA SortMoves ==
  ASSUME NEW C, NEW R, IsOrder(R, C), NEW s \in Seq(C)
  PROVE  \E p \in Bijection(1..Len(s), 1..Len(s)) :
             sort(s, R) = Moved(s, p) /\ InOrder(sort(s, R), R)
<1> DEFINE B == Bijection(1..Len(s), 1..Len(s))
           q == CHOOSE p \in B : InOrder(Moved(s, p), R)
<1>1. \E p \in B : InOrder(Moved(s, p), R)
  BY CanBeSorted
<1>2. sort(s, R) = Moved(s, q)
  BY DEF sort, Moved
<1>3. q \in B /\ InOrder(Moved(s, q), R)
  BY <1>1
<1> HIDE DEF q, B
<1>4. \E p \in B : sort(s, R) = Moved(s, p) /\ InOrder(sort(s, R), R)
  BY <1>2, <1>3
<1> QED
  BY <1>4 DEF B

Count(s, x) == Cardinality({i \in DOMAIN s : s[i] = x})

(* Sorting keeps the elements, each as often as it was there. *)
LEMMA SortKeeps ==
  ASSUME NEW C, NEW R, IsOrder(R, C), NEW s \in Seq(C)
  PROVE  /\ sort(s, R) \in Seq(C) /\ Len(sort(s, R)) = Len(s) /\ InOrder(sort(s, R), R)
         /\ \A x : Count(sort(s, R), x) = Count(s, x)
         /\ \A i \in DOMAIN sort(s, R) : sort(s, R)[i] \in ToSet(s)
<1> DEFINE n == Len(s)
           u == sort(s, R)
<1>1. PICK p \in Bijection(1..n, 1..n) : u = Moved(s, p) /\ InOrder(u, R)
  BY SortMoves
<1>2. n \in Nat /\ DOMAIN s = 1..n /\ \A i \in 1..n : s[i] \in C
  OBVIOUS
<1>3. p \in [1..n -> 1..n] /\ IsInjective(p) /\ \A j \in 1..n : \E i \in 1..n : p[i] = j
  BY <1>1 DEF Bijection, Injection, Surjection
<1> HIDE DEF n, u
<1>4. u = [i \in 1..n |-> s[p[i]]]
  BY <1>1 DEF Moved, n
<1>5. u \in Seq(C) /\ Len(u) = n /\ DOMAIN u = 1..n /\ \A i \in 1..n : u[i] = s[p[i]]
  <2>1. u \in [1..n -> C]
    BY <1>2, <1>3, <1>4
  <2> QED
    BY <2>1, <1>2, <1>4
<1>6. ASSUME NEW x PROVE Count(u, x) = Count(s, x)
  <2> DEFINE S == {i \in 1..n : u[i] = x}
             T == {j \in 1..n : s[j] = x}
             g == [i \in S |-> p[i]]
  <2>1. IsFiniteSet(S)
    <3>1. IsFiniteSet(1..n)
      BY <1>2, FS_Interval
    <3> QED
      BY <3>1, FS_Subset
  <2>2. g \in [S -> T] /\ \A i \in S : g[i] = p[i]
    BY <1>3, <1>5
  <2>3. IsInjective(g)
    BY <1>3, <2>2 DEF IsInjective
  <2>4. \A j \in T : \E i \in S : g[i] = j
    <3> TAKE j \in T
    <3>1. PICK i \in 1..n : p[i] = j
      BY <1>3
    <3>2. i \in S
      BY <3>1, <1>5
    <3> QED
      BY <3>1, <3>2, <2>2
  <2>5. g \in Bijection(S, T)
    BY <2>2, <2>3, <2>4 DEF Bijection, Injection, Surjection
  <2>6. Cardinality(T) = Cardinality(S)
    <3>1. ExistsBijection(S, T)
      BY <2>5 DEF ExistsBijection
    <3> HIDE DEF S, T
    <3> QED
      BY <2>1, <3>1, FS_Bijection
  <2> QED
    BY <2>6, <1>2, <1>5 DEF Count
<1>7. \A i \in 1..n : u[i] \in ToSet(s)
  BY <1>2, <1>3, <1>5 DEF ToSet
<1> QED
  BY <1>1, <1>5, <1>6, <1>7 DEF u, n

(* Two sorted sequences with the same elements cannot part: what comes next in
   one would come later in the other, and be there once less. *)
LEMMA NoParting ==
  ASSUME NEW C, NEW R, IsOrder(R, C), NEW a \in Seq(C), NEW b \in Seq(C), InOrder(a, R),
         NEW i \in 1..Len(b), \A j \in 1..i - 1 : j <= Len(a) /\ a[j] = b[j],
         i > Len(a) \/ <<b[i], a[i]>> \in R,
         Count(a, b[i]) = Count(b, b[i])
  PROVE  FALSE
<1> DEFINE x == b[i]
           S == {j \in DOMAIN a : a[j] = x}
           T == {j \in DOMAIN b : b[j] = x}
<1>1. /\ DOMAIN a = 1..Len(a) /\ Len(a) \in Nat /\ DOMAIN b = 1..Len(b) /\ Len(b) \in Nat
      /\ x \in C /\ (\A j \in 1..Len(a) : a[j] \in C) /\ i \in Nat
  OBVIOUS
<1>2. ASSUME NEW j \in S PROVE j < i
  <2>1. SUFFICES ASSUME j >= i PROVE FALSE
    BY <1>1
  <2>2. j \in 1..Len(a) /\ i \in 1..Len(a) /\ a[j] = x /\ <<x, a[i]>> \in R
    BY <1>1, <2>1
  <2>3. a[i] = a[j] \/ <<a[i], a[j]>> \in R
    BY <1>1, <2>1, <2>2 DEF InOrder
  <2>4. a[i] \in C
    BY <2>2, <1>1
  <2>5. <<x, x>> \in R
    BY <2>2, <2>3, <2>4, <1>1 DEF IsOrder
  <2> QED
    BY <2>5, <1>1 DEF IsOrder
<1>3. S \subseteq T /\ i \in T /\ i \notin S
  <2>1. ASSUME NEW j \in S PROVE j \in T
    <3>1. j \in 1..i - 1
      BY <1>1, <1>2
    <3>2. b[j] = x /\ j \in 1..Len(b)
      BY <3>1, <1>1
    <3> QED
      BY <3>2, <1>1
  <2>2. i \in T
    BY <1>1
  <2>3. i \notin S
    BY <1>1, <1>2
  <2> QED
    BY <2>1, <2>2, <2>3
<1>4. IsFiniteSet(T)
  <2>1. IsFiniteSet(1..Len(b))
    BY <1>1, FS_Interval
  <2> QED
    BY <2>1, <1>1, FS_Subset
<1>5. Cardinality(S) = Cardinality(T)
  BY DEF Count
<1> HIDE DEF S, T
<1>6. S = T
  BY <1>3, <1>4, <1>5, FS_Subset
<1> QED
  BY <1>3, <1>6

LEMMA SortedUnique ==
  ASSUME NEW C, NEW R, IsOrder(R, C), NEW a \in Seq(C), NEW b \in Seq(C),
         InOrder(a, R), InOrder(b, R), \A x : Count(a, x) = Count(b, x)
  PROVE  a = b
<1> DEFINE Same(j) == j <= Len(a) /\ j <= Len(b) /\ a[j] = b[j]
           Top == IF Len(a) <= Len(b) THEN Len(b) ELSE Len(a)
           Failing == {j \in 1..Top : ~Same(j)}
<1>1. /\ Len(a) \in Nat /\ Len(b) \in Nat /\ Top \in Nat /\ Len(a) <= Top /\ Len(b) <= Top
      /\ (\A j \in 1..Len(a) : a[j] \in C) /\ (\A j \in 1..Len(b) : b[j] \in C)
  OBVIOUS
<1>2. Failing = {}
  <2> SUFFICES ASSUME Failing # {} PROVE FALSE
    OBVIOUS
  <2>1. PICK i \in Failing : \A j \in Failing : i <= j
    <3>1. Failing \in SUBSET Nat
      BY <1>1
    <3> QED
      BY <3>1, LeastOf
  <2>2. i \in 1..Top /\ ~Same(i)
    BY <2>1
  <2>3. \A j \in 1..i - 1 : Same(j)
    <3> TAKE j \in 1..i - 1
    <3>1. j \in 1..Top /\ ~(i <= j)
      BY <2>2, <1>1
    <3> HIDE DEF Same
    <3> QED
      BY <3>1, <2>1
  <2>4. CASE i > Len(a)
    <3>1. i \in 1..Len(b)
      BY <2>2, <2>4, <1>1
    <3> QED
      BY <3>1, <2>3, <2>4, NoParting
  <2>5. CASE i > Len(b)
    <3>1. i \in 1..Len(a)
      BY <2>2, <2>5, <1>1
    <3> QED
      BY <3>1, <2>3, <2>5, NoParting
  <2>6. CASE i <= Len(a) /\ i <= Len(b)
    <3>1. i \in 1..Len(a) /\ i \in 1..Len(b) /\ a[i] # b[i]
      BY <2>2, <2>6, <1>1
    <3>2. <<a[i], b[i]>> \in R \/ <<b[i], a[i]>> \in R
      BY <3>1, <1>1 DEF IsOrder
    <3>3. CASE <<a[i], b[i]>> \in R
      BY <3>1, <3>3, <2>3, NoParting
    <3>4. CASE <<b[i], a[i]>> \in R
      BY <3>1, <3>4, <2>3, NoParting
    <3> QED
      BY <3>2, <3>3, <3>4
  <2> QED
    BY <2>2, <2>4, <2>5, <2>6, <1>1
<1>3. Len(a) = Len(b)
  <2>1. \A j \in 1..Top : Same(j)
    BY <1>2
  <2> QED
    BY <2>1, <1>1
<1>4. \A j \in 1..Len(a) : a[j] = b[j]
  BY <1>2, <1>1
<1> QED
  BY <1>3, <1>4

LEMMA BagCounts ==
  ASSUME NEW s, NEW u, ToBag(s) = ToBag(u), NEW x
  PROVE  Count(s, x) = Count(u, x)
<1>1. Range(s) = DOMAIN ToBag(s) /\ Range(u) = DOMAIN ToBag(u)
  BY DEF ToBag
<1>2. Range(s) = Range(u)
  BY <1>1
<1>3. CASE x \in Range(s)
  <2>1. ToBag(s)[x] = Count(s, x) /\ ToBag(u)[x] = Count(u, x)
    BY <1>2, <1>3 DEF ToBag, Count
  <2> QED
    BY <2>1
<1>4. CASE x \notin Range(s)
  <2>1. {i \in DOMAIN s : s[i] = x} = {} /\ {i \in DOMAIN u : u[i] = x} = {}
    BY <1>2, <1>4 DEF Range
  <2> QED
    BY <2>1 DEF Count
<1> QED
  BY <1>3, <1>4

LEMMA CountsBag ==
  ASSUME NEW C, NEW s \in Seq(C), NEW u \in Seq(C), \A x : Count(s, x) = Count(u, x)
  PROVE  ToBag(s) = ToBag(u)
<1>1. ASSUME NEW v \in Seq(C), NEW w \in Seq(C), NEW x \in Range(v), Count(v, x) = Count(w, x)
      PROVE  x \in Range(w)
  <2> DEFINE S == {i \in DOMAIN v : v[i] = x}
  <2>1. SUFFICES ASSUME x \notin Range(w) PROVE FALSE
    OBVIOUS
  <2>2. {i \in DOMAIN w : w[i] = x} = {}
    BY <2>1 DEF Range
  <2>3. Cardinality(S) = 0
    BY <2>2, <1>1, FS_EmptySet DEF Count
  <2>4. S # {}
    BY DEF Range
  <2>5. IsFiniteSet(S)
    <3>1. DOMAIN v = 1..Len(v) /\ Len(v) \in Nat
      OBVIOUS
    <3>2. IsFiniteSet(1..Len(v))
      BY <3>1, FS_Interval
    <3> QED
      BY <3>1, <3>2, FS_Subset
  <2> HIDE DEF S
  <2> QED
    BY <2>3, <2>4, <2>5, FS_EmptySet
<1>2. Range(s) = Range(u)
  <2>1. ASSUME NEW x \in Range(s) PROVE x \in Range(u)
    <3>1. Count(s, x) = Count(u, x)
      OBVIOUS
    <3> QED
      BY <3>1, <1>1
  <2>2. ASSUME NEW x \in Range(u) PROVE x \in Range(s)
    <3>1. Count(u, x) = Count(s, x)
      OBVIOUS
    <3> QED
      BY <3>1, <1>1
  <2> QED
    BY <2>1, <2>2
<1>3. ToBag(s) = [x \in Range(s) |-> Count(s, x)] /\ ToBag(u) = [x \in Range(u) |-> Count(u, x)]
  BY DEF ToBag, Count
<1> QED
  BY <1>2, <1>3

(* Sequences sort alike exactly when they have the same elements, each as
   often. *)
LEMMA SortAlike ==
  ASSUME NEW C, NEW R, IsOrder(R, C), NEW s \in Seq(C), NEW u \in Seq(C)
  PROVE  sort(s, R) = sort(u, R) <=> ToBag(s) = ToBag(u)
<1>1. /\ \A x : Count(sort(s, R), x) = Count(s, x)
      /\ sort(s, R) \in Seq(C) /\ InOrder(sort(s, R), R)
  BY SortKeeps
<1>2. /\ \A x : Count(sort(u, R), x) = Count(u, x)
      /\ sort(u, R) \in Seq(C) /\ InOrder(sort(u, R), R)
  BY SortKeeps
<1>3. ASSUME sort(s, R) = sort(u, R) PROVE ToBag(s) = ToBag(u)
  <2>1. \A x : Count(s, x) = Count(u, x)
    BY <1>1, <1>2, <1>3
  <2> QED
    BY <2>1, CountsBag
<1>4. ASSUME ToBag(s) = ToBag(u) PROVE sort(s, R) = sort(u, R)
  <2>1. \A x : Count(s, x) = Count(u, x)
    BY <1>4, BagCounts
  <2>2. \A x : Count(sort(s, R), x) = Count(sort(u, R), x)
    BY <1>1, <1>2, <2>1
  <2> QED
    BY <1>1, <1>2, <2>2, SortedUnique
<1> QED
  BY <1>3, <1>4

-----------------------------------------------------------------------------
(* The orders of the code: strings by their bytes, addresses by host, port *)
(* and kind.                                                               *)

LEMMA StringOrder ==
  /\ \A s \in String : ~StrLess(s, s)
  /\ \A s, t, v \in String : StrLess(s, t) /\ StrLess(t, v) => StrLess(s, v)
  /\ \A s, t \in String : s = t \/ StrLess(s, t) \/ StrLess(t, s)
<1> USE DEF String
<1>1. \A s \in String : ~StrLess(s, s)
  BY DEF StrLess
<1>2. ASSUME NEW s \in String, NEW t \in String, NEW v \in String, StrLess(s, t), StrLess(t, v)
      PROVE  StrLess(s, v)
  <2>1. /\ Len(s) \in Nat /\ Len(t) \in Nat /\ Len(v) \in Nat
        /\ (\A k \in 1..Len(s) : s[k] \in Nat) /\ (\A k \in 1..Len(t) : t[k] \in Nat)
        /\ (\A k \in 1..Len(v) : v[k] \in Nat)
    OBVIOUS
  <2>2. PICK i \in 1..Len(t) : /\ \A k \in 1..i - 1 : k <= Len(s) /\ s[k] = t[k]
                               /\ i > Len(s) \/ s[i] < t[i]
    BY <1>2 DEF StrLess
  <2>3. PICK j \in 1..Len(v) : /\ \A k \in 1..j - 1 : k <= Len(t) /\ t[k] = v[k]
                               /\ j > Len(t) \/ t[j] < v[j]
    BY <1>2 DEF StrLess
  <2>4. CASE i < j
    <3>1. i \in 1..j - 1 /\ i \in 1..Len(v)
      BY <2>1, <2>4
    <3>2. t[i] = v[i]
      BY <3>1, <2>3
    <3>3. i > Len(s) \/ s[i] < v[i]
      BY <3>2, <2>2
    <3>4. \A k \in 1..i - 1 : k <= Len(s) /\ s[k] = v[k]
      <4> TAKE k \in 1..i - 1
      <4>1. k \in 1..j - 1
        BY <2>4, <2>1
      <4> QED
        BY <4>1, <2>2, <2>3
    <3> QED
      BY <3>1, <3>3, <3>4 DEF StrLess
  <2>5. CASE i = j
    <3>1. t[i] < v[i]
      BY <2>1, <2>3, <2>5
    <3>2. i > Len(s) \/ s[i] < v[i]
      <4>1. CASE i > Len(s)
        BY <4>1
      <4>2. CASE ~(i > Len(s)) /\ s[i] < t[i]
        <5>1. s[i] \in Nat /\ t[i] \in Nat /\ v[i] \in Nat
          BY <4>2, <2>1, <2>5
        <5> QED
          BY <5>1, <4>2, <3>1, SMTT(30)
      <4> QED
        BY <4>1, <4>2, <2>2
    <3>3. \A k \in 1..i - 1 : k <= Len(s) /\ s[k] = v[k]
      BY <2>2, <2>3, <2>5
    <3> QED
      BY <3>2, <3>3, <2>5 DEF StrLess
  <2>6. CASE i > j
    <3>1. j \in 1..i - 1 /\ j \in 1..Len(t)
      BY <2>1, <2>6
    <3>2. j <= Len(s) /\ s[j] = t[j]
      BY <3>1, <2>2
    <3>3. s[j] < v[j]
      BY <3>1, <3>2, <2>1, <2>3
    <3>4. \A k \in 1..j - 1 : k <= Len(s) /\ s[k] = v[k]
      <4> TAKE k \in 1..j - 1
      <4>1. k \in 1..i - 1
        BY <2>6, <2>1
      <4> QED
        BY <4>1, <2>2, <2>3
    <3> QED
      BY <3>3, <3>4 DEF StrLess
  <2> QED
    BY <2>1, <2>4, <2>5, <2>6
<1>3. ASSUME NEW s \in String, NEW t \in String, s # t
      PROVE  StrLess(s, t) \/ StrLess(t, s)
  <2> DEFINE Top == IF Len(s) <= Len(t) THEN Len(t) ELSE Len(s)
             Same(k) == k <= Len(s) /\ k <= Len(t) /\ s[k] = t[k]
             Failing == {k \in 1..Top : ~Same(k)}
  <2>1. /\ Len(s) \in Nat /\ Len(t) \in Nat /\ Top \in Nat /\ Len(s) <= Top /\ Len(t) <= Top
        /\ (\A k \in 1..Len(s) : s[k] \in Nat) /\ (\A k \in 1..Len(t) : t[k] \in Nat)
    OBVIOUS
  <2>2. Failing # {}
    <3> SUFFICES ASSUME Failing = {} PROVE FALSE
      OBVIOUS
    <3>1. \A k \in 1..Top : Same(k)
      OBVIOUS
    <3>2. Len(s) = Len(t)
      BY <3>1, <2>1
    <3>3. \A k \in 1..Len(s) : s[k] = t[k]
      BY <3>1, <2>1
    <3>4. s = t
      BY <3>2, <3>3
    <3> QED
      BY <3>4, <1>3
  <2>3. PICK i \in Failing : \A k \in Failing : i <= k
    <3>1. Failing \in SUBSET Nat
      BY <2>1
    <3> QED
      BY <2>2, <3>1, LeastOf
  <2>4. i \in 1..Top /\ ~Same(i)
    BY <2>3
  <2>5. \A k \in 1..i - 1 : Same(k)
    <3> TAKE k \in 1..i - 1
    <3>1. k \in 1..Top /\ ~(i <= k)
      BY <2>4, <2>1
    <3> HIDE DEF Same
    <3> QED
      BY <3>1, <2>3
  <2>6. CASE i > Len(s)
    <3>1. i \in 1..Len(t)
      BY <2>1, <2>4, <2>6
    <3> QED
      BY <3>1, <2>5, <2>6 DEF StrLess
  <2>7. CASE i > Len(t)
    <3>1. i \in 1..Len(s)
      BY <2>1, <2>4, <2>7
    <3> QED
      BY <3>1, <2>5, <2>7 DEF StrLess
  <2>8. CASE i <= Len(s) /\ i <= Len(t)
    <3>1. i \in 1..Len(s) /\ i \in 1..Len(t) /\ s[i] # t[i]
      BY <2>1, <2>4, <2>8
    <3>2. s[i] < t[i] \/ t[i] < s[i]
      BY <3>1, <2>1
    <3>3. CASE s[i] < t[i]
      BY <3>1, <3>3, <2>5 DEF StrLess
    <3>4. CASE t[i] < s[i]
      BY <3>1, <3>4, <2>5 DEF StrLess
    <3> QED
      BY <3>2, <3>3, <3>4
  <2> QED
    BY <2>1, <2>4, <2>6, <2>7, <2>8
<1> QED
  BY <1>1, <1>2, <1>3

LEMMA FlagsOrdered == IsOrder(FlagOrder, FlagChoices)
<1>1. \A f \in FlagChoices : f \in String
  BY RecordAssumption
<1>2. \A f, g \in FlagChoices : <<f, g>> \in FlagOrder <=> StrLess(f, g)
  BY DEF FlagOrder
<1> QED
  BY <1>1, <1>2, StringOrder DEF IsOrder

LEMMA KindRanks ==
  /\ \A k \in ToSet(AddressKind) : KindRank(k) \in 1..5
  /\ \A k, l \in ToSet(AddressKind) : KindRank(k) = KindRank(l) => k = l
<1>1. DOMAIN AddressKind = 1..5
  BY DEF AddressKind
<1>2. \A k \in ToSet(AddressKind) : \E i \in DOMAIN AddressKind : AddressKind[i] = k
  BY DEF ToSet
<1>3. \A k \in ToSet(AddressKind) :
          KindRank(k) \in DOMAIN AddressKind /\ AddressKind[KindRank(k)] = k
  BY <1>2 DEF KindRank
<1> QED
  BY <1>1, <1>3

LEMMA AddressesOrdered == IsOrder(AddressOrder, AddressChoices)
<1>1. ASSUME NEW a \in AddressChoices
      PROVE  /\ a.host \in String /\ a.port \in Nat /\ KindRank(a.kind) \in Nat
             /\ a = [host |-> a.host, port |-> a.port, kind |-> a.kind]
             /\ a.kind \in ToSet(AddressKind)
  <2>1. a \in [host : String, port : Nat, kind : ToSet(AddressKind)]
    BY RecordAssumption
  <2> QED
    BY <2>1, KindRanks
<1>2. \A a, b \in AddressChoices : <<a, b>> \in AddressOrder <=> AddressLess(a, b)
  BY DEF AddressOrder
<1>3. ASSUME NEW a \in AddressChoices PROVE ~AddressLess(a, a)
  BY <1>1, StringOrder DEF AddressLess
<1>4. ASSUME NEW a \in AddressChoices, NEW b \in AddressChoices, NEW c \in AddressChoices,
             AddressLess(a, b), AddressLess(b, c)
      PROVE  AddressLess(a, c)
  <2>1. /\ a.host \in String /\ b.host \in String /\ c.host \in String
        /\ a.port \in Nat /\ b.port \in Nat /\ c.port \in Nat
        /\ KindRank(a.kind) \in Nat /\ KindRank(b.kind) \in Nat /\ KindRank(c.kind) \in Nat
    BY <1>1
  <2>2. CASE StrLess(a.host, b.host) \/ StrLess(b.host, c.host)
    <3>1. StrLess(a.host, c.host)
      BY <1>4, <2>1, <2>2, StringOrder DEF AddressLess
    <3> QED
      BY <3>1 DEF AddressLess
  <2>3. CASE ~StrLess(a.host, b.host) /\ ~StrLess(b.host, c.host)
    BY <1>4, <2>1, <2>3 DEF AddressLess
  <2> QED
    BY <2>2, <2>3
<1>5. ASSUME NEW a \in AddressChoices, NEW b \in AddressChoices
      PROVE  a = b \/ AddressLess(a, b) \/ AddressLess(b, a)
  <2>1. /\ a.host \in String /\ b.host \in String /\ a.port \in Nat /\ b.port \in Nat
        /\ KindRank(a.kind) \in Nat /\ KindRank(b.kind) \in Nat
        /\ a.kind \in ToSet(AddressKind) /\ b.kind \in ToSet(AddressKind)
    BY <1>1
  <2>2. CASE a.host # b.host
    BY <2>1, <2>2, StringOrder DEF AddressLess
  <2>3. CASE a.host = b.host /\ a.port # b.port
    BY <2>1, <2>3 DEF AddressLess
  <2>4. CASE a.host = b.host /\ a.port = b.port /\ a.kind # b.kind
    <3>1. KindRank(a.kind) # KindRank(b.kind)
      BY <2>1, <2>4, KindRanks
    <3> QED
      BY <2>1, <2>4, <3>1 DEF AddressLess
  <2>5. CASE a.host = b.host /\ a.port = b.port /\ a.kind = b.kind
    BY <1>1, <2>5
  <2> QED
    BY <2>2, <2>3, <2>4, <2>5
<1> QED
  BY <1>2, <1>3, <1>4, <1>5 DEF IsOrder

-----------------------------------------------------------------------------
(* Joined text.                                                            *)

(* A separator is one byte. *)
IsMark(s) == Len(s) = 1

Pair(x, sep, p) == x \o sep \o p

JoinStep(s, sep, f, k) ==
    IF k = 0 THEN <<>> ELSE IF k = 1 THEN s[1] ELSE Pair(f[k - 1], sep, s[k])

IsJoin(s, sep, f) == f = [k \in 0..Len(s) |-> JoinStep(s, sep, f, k)]

Joinable(s, sep) == \E f \in [0..Len(s) -> String] : IsJoin(s, sep, f)

LEMMA JoinExists ==
  ASSUME NEW sep \in String, IsMark(sep), NEW s \in Seq(String)
  PROVE  Joinable(s, sep)
<1> DEFINE Failing == {n \in Nat : \E u \in Seq(String) : Len(u) = n /\ ~Joinable(u, sep)}
<1>1. SUFFICES ASSUME Failing # {} PROVE FALSE
  OBVIOUS
<1>2. PICK n \in Failing : \A j \in Failing : n <= j
  <2>1. Failing \in SUBSET Nat
    OBVIOUS
  <2> QED
    BY <1>1, <2>1, LeastOf
<1>3. PICK u \in Seq(String) : Len(u) = n /\ ~Joinable(u, sep)
  BY <1>2
<1>4. n \in Nat
  BY <1>2
<1>5. CASE n = 0
  <2> DEFINE f == [k \in 0..0 |-> <<>>]
  <2>1. f \in [0..0 -> String] /\ \A k \in 0..0 : f[k] = JoinStep(u, sep, f, k)
    BY DEF String, JoinStep
  <2> HIDE DEF f
  <2>2. f = [k \in 0..0 |-> JoinStep(u, sep, f, k)]
    BY <2>1
  <2>3. IsJoin(u, sep, f)
    BY <2>2, <1>3, <1>5 DEF IsJoin
  <2> QED
    BY <2>1, <2>3, <1>3, <1>5 DEF Joinable
<1>6. CASE n # 0
  <2> DEFINE v == SubSeq(u, 1, n - 1)
  <2>1. v \in Seq(String) /\ Len(v) = n - 1 /\ \A i \in 1..n - 1 : v[i] = u[i]
    BY <1>3, <1>4, <1>6
  <2>2. n - 1 \in Nat /\ n - 1 \notin Failing
    BY <1>2, <1>4, <1>6
  <2> HIDE DEF v
  <2>3. PICK g \in [0..n - 1 -> String] : IsJoin(v, sep, g)
    BY <2>1, <2>2 DEF Joinable
  <2> DEFINE f == [k \in 0..n |-> IF k = n THEN JoinStep(u, sep, g, n) ELSE g[k]]
  <2>4. /\ DOMAIN f = 0..n /\ f[n] = JoinStep(u, sep, g, n)
        /\ \A k \in 0..n - 1 : f[k] = g[k]
    BY <1>4
  <2>5. JoinStep(u, sep, g, n) \in String
    <3>1. u[n] \in String /\ g[n - 1] \in String /\ sep \in String
      BY <1>3, <1>4, <1>6, <2>2, <2>3 DEF String
    <3>2. Pair(g[n - 1], sep, u[n]) \in String
      BY <3>1 DEF String, Pair
    <3> QED
      BY <3>1, <3>2, <1>6 DEF JoinStep
  <2>6. f = [k \in 0..n |-> f[k]]
    OBVIOUS
  <2> HIDE DEF f
  <2>7. \A k \in 0..n : k = n \/ k \in 0..n - 1
    BY <1>4
  <2>8. f \in [0..n -> String]
    <3>1. \A k \in 0..n : f[k] \in String
      BY <2>3, <2>4, <2>5, <2>7
    <3> QED
      BY <3>1, <2>6
  <2>9. \A k \in 0..n : f[k] = JoinStep(u, sep, f, k)
    <3> TAKE k \in 0..n
    <3>1. CASE k = n
      <4>1. n - 1 \in 0..n - 1
        BY <2>2
      <4>2. f[n - 1] = g[n - 1]
        BY <4>1, <2>4
      <4> QED
        BY <3>1, <4>2, <2>4 DEF JoinStep
    <3>2. CASE k \in 0..n - 1
      <4>1. g[k] = JoinStep(v, sep, g, k)
        BY <3>2, <2>1, <2>3 DEF IsJoin
      <4>2. CASE k = 0
        BY <4>1, <4>2, <3>2, <2>4 DEF JoinStep
      <4>3. CASE k # 0
        <5>1. k - 1 \in 0..n - 1 /\ k \in 1..n - 1 /\ 1 \in 1..n - 1
          BY <3>2, <4>3, <1>4
        <5>2. g[k - 1] = f[k - 1] /\ v[k] = u[k] /\ v[1] = u[1] /\ f[k] = g[k]
          BY <5>1, <3>2, <2>1, <2>4
        <5> QED
          BY <4>1, <4>3, <5>2 DEF JoinStep
      <4> QED
        BY <4>2, <4>3
    <3> QED
      BY <3>1, <3>2, <2>7
  <2>10. f = [k \in 0..n |-> JoinStep(u, sep, f, k)]
    BY <2>6, <2>9
  <2>11. IsJoin(u, sep, f)
    BY <2>10, <1>3 DEF IsJoin
  <2> QED
    BY <2>8, <2>11, <1>3 DEF Joinable
<1> QED
  BY <1>5, <1>6

(* What is joined of a sequence depends on what was joined alone. *)
Agree(f, g, n) == \A k \in 0..n : f[k] = g[k]

LEMMA JoinAgrees ==
  ASSUME NEW sep \in String, IsMark(sep), NEW s \in Seq(String), NEW u \in Seq(String),
         NEW f, NEW g,
         IsJoin(s, sep, f), IsJoin(u, sep, g),
         Len(u) <= Len(s), \A i \in 1..Len(u) : s[i] = u[i]
  PROVE  Agree(f, g, Len(u))
<1> USE DEF Agree
<1> DEFINE n == Len(u)
           Differ == {k \in 0..n : f[k] # g[k]}
<1>1. n \in Nat /\ Len(s) \in Nat /\ n <= Len(s)
  OBVIOUS
<1>2. /\ \A k \in 0..n : g[k] = JoinStep(u, sep, g, k)
      /\ \A k \in 0..n : f[k] = JoinStep(s, sep, f, k)
  <2>1. \A k \in 0..n : k \in 0..Len(s)
    BY <1>1
  <2>2. \A k \in 0..Len(s) : f[k] = JoinStep(s, sep, f, k)
    BY DEF IsJoin
  <2>3. \A k \in 0..n : g[k] = JoinStep(u, sep, g, k)
    BY DEF IsJoin
  <2> QED
    BY <2>1, <2>2, <2>3
<1>3. SUFFICES ASSUME Differ # {} PROVE FALSE
  OBVIOUS
<1>4. PICK k \in Differ : \A j \in Differ : k <= j
  <2>1. Differ \in SUBSET Nat
    BY <1>1
  <2> QED
    BY <1>3, <2>1, LeastOf
<1>5. k \in 0..n /\ f[k] # g[k]
  BY <1>4
<1>6. CASE k = 0
  BY <1>2, <1>5, <1>6 DEF JoinStep
<1>7. CASE k # 0
  <2>1. k - 1 \in 0..n /\ ~(k <= k - 1) /\ k \in 1..n /\ 1 \in 1..n
    BY <1>1, <1>5, <1>7
  <2>2. k - 1 \notin Differ
    <3> HIDE DEF Differ
    <3> QED
      BY <1>4, <2>1
  <2>3. f[k - 1] = g[k - 1] /\ s[k] = u[k] /\ s[1] = u[1]
    BY <2>1, <2>2
  <2>4. f[k] = JoinStep(s, sep, f, k) /\ g[k] = JoinStep(u, sep, g, k)
    BY <1>2, <1>5
  <2> QED
    BY <1>5, <2>3, <2>4 DEF JoinStep
<1> QED
  BY <1>6, <1>7

LEMMA JoinIs ==
  ASSUME NEW sep \in String, IsMark(sep), NEW s \in Seq(String), NEW f, IsJoin(s, sep, f)
  PROVE  join(s, sep) = f[Len(s)]
<1> DEFINE h == CHOOSE h : h = [k \in 0..Len(s) |-> JoinStep(s, sep, h, k)]
<1>1. join(s, sep) = h[Len(s)]
  BY DEF join, JoinStep, Pair
<1>2. f = [k \in 0..Len(s) |-> JoinStep(s, sep, f, k)]
  BY DEF IsJoin
<1>3. IsJoin(s, sep, h)
  BY <1>2 DEF IsJoin
<1> HIDE DEF h
<1>4. Len(s) \in 0..Len(s) /\ Len(s) <= Len(s)
  OBVIOUS
<1>5. h[Len(s)] = f[Len(s)]
  BY <1>3, <1>4, JoinAgrees DEF Agree
<1> QED
  BY <1>1, <1>5

LEMMA JoinParts ==
  ASSUME NEW sep \in String, IsMark(sep), NEW s \in Seq(String)
  PROVE  /\ join(s, sep) \in String
         /\ Len(s) = 0 => join(s, sep) = <<>>
         /\ Len(s) = 1 => join(s, sep) = s[1]
         /\ Len(s) > 1 => join(s, sep) = Pair(join(SubSeq(s, 1, Len(s) - 1), sep), sep, s[Len(s)])
<1> DEFINE n == Len(s)
<1>1. n \in Nat
  OBVIOUS
<1>2. PICK f \in [0..n -> String] : IsJoin(s, sep, f)
  BY JoinExists DEF Joinable
<1>3. join(s, sep) = f[n]
  BY <1>2, JoinIs
<1>4. f[n] = JoinStep(s, sep, f, n)
  BY <1>1, <1>2 DEF IsJoin
<1>5. join(s, sep) \in String
  BY <1>1, <1>2, <1>3
<1>6. ASSUME n > 1 PROVE join(s, sep) = Pair(join(SubSeq(s, 1, n - 1), sep), sep, s[n])
  <2> DEFINE u == SubSeq(s, 1, n - 1)
  <2>1. u \in Seq(String) /\ Len(u) = n - 1 /\ n - 1 \in Nat /\ \A i \in 1..Len(u) : s[i] = u[i]
    BY <1>1, <1>6
  <2> HIDE DEF u
  <2>2. PICK g \in [0..n - 1 -> String] : IsJoin(u, sep, g)
    BY <2>1, JoinExists DEF Joinable
  <2>3. join(u, sep) = g[n - 1]
    BY <2>1, <2>2, JoinIs
  <2>4. Agree(f, g, Len(u))
    <3>1. Len(u) <= Len(s)
      BY <1>1, <2>1
    <3> QED
      BY <3>1, <1>2, <2>1, <2>2, JoinAgrees
  <2>5. f[n - 1] = join(u, sep)
    BY <2>1, <2>3, <2>4 DEF Agree
  <2>6. f[n] = Pair(f[n - 1], sep, s[n])
    BY <1>4, <1>6, <1>1 DEF JoinStep
  <2> QED
    BY <1>3, <2>5, <2>6 DEF u
<1> QED
  BY <1>3, <1>4, <1>5, <1>6 DEF JoinStep


LEMMA SameSequence ==
  ASSUME NEW C, NEW x \in Seq(C), NEW y \in Seq(C), Len(x) = Len(y),
         \A i \in 1..Len(x) : x[i] = y[i]
  PROVE  x = y
OBVIOUS

IsText(z, sep, x, p) ==
    /\ Len(z) = Len(x) + 1 + Len(p) /\ DOMAIN z = 1..Len(z) /\ z[Len(x) + 1] = sep[1]
    /\ \A i \in 1..Len(x) : z[i] = x[i]
    /\ \A i \in 1..Len(p) : z[Len(x) + 1 + i] = p[i]

LEMMA Concat ==
  ASSUME NEW x \in Seq(Nat), NEW y \in Seq(Nat)
  PROVE  /\ x \o y \in Seq(Nat) /\ Len(x \o y) = Len(x) + Len(y)
         /\ \A i \in 1..Len(x) : (x \o y)[i] = x[i]
         /\ \A i \in 1..Len(y) : (x \o y)[Len(x) + i] = y[i]
<1>1. \A i \in 1..Len(y) : (x \o y)[Len(x) + i] = y[i]
  BY SMTT(30)
<1> QED
  BY <1>1

LEMMA Text ==
  ASSUME NEW sep \in String, IsMark(sep), NEW x \in String, NEW p \in String
  PROVE  IsText(Pair(x, sep, p), sep, x, p)
<1> USE DEF String
<1> DEFINE z == Pair(x, sep, p)
           v == x \o sep
<1>1. /\ v \in Seq(Nat) /\ Len(v) = Len(x) + Len(sep)
      /\ \A i \in 1..Len(x) : v[i] = x[i]
      /\ \A i \in 1..Len(sep) : v[Len(x) + i] = sep[i]
  BY Concat
<1> HIDE DEF v
<1>2. /\ z \in Seq(Nat) /\ Len(z) = Len(v) + Len(p)
      /\ \A i \in 1..Len(v) : z[i] = v[i]
      /\ \A i \in 1..Len(p) : z[Len(v) + i] = p[i]
  BY <1>1, Concat, Zenon DEF Pair, v
<1> HIDE DEF z
<1>3. Len(x) \in Nat /\ Len(p) \in Nat
  OBVIOUS
<1>4. Len(v) = Len(x) + 1 /\ v[Len(x) + 1] = sep[1]
  <2>1. Len(sep) = 1 /\ 1 \in 1..Len(sep)
    BY DEF IsMark
  <2> QED
    BY <1>1, <2>1
<1>5. Len(x) + 1 \in 1..Len(v) /\ \A i \in 1..Len(x) : i \in 1..Len(v)
  BY <1>3, <1>4
<1>6. DOMAIN z = 1..Len(z)
  BY <1>2
<1>7. z[Len(x) + 1] = sep[1]
  BY <1>2, <1>4, <1>5
<1>8. \A i \in 1..Len(x) : z[i] = x[i]
  BY <1>1, <1>2, <1>5
<1>9. \A i \in 1..Len(p) : z[Len(x) + 1 + i] = p[i]
  <2>1. \A i \in 1..Len(p) : z[Len(v) + i] = p[i]
    BY <1>2
  <2> QED
    BY <2>1, <1>4
<1>10. Len(z) = Len(x) + 1 + Len(p)
  BY <1>2, <1>4
<1> QED
  BY <1>6, <1>7, <1>8, <1>9, <1>10 DEF IsText, z

LEMMA LastPart ==
  ASSUME NEW sep \in String, IsMark(sep), NEW x \in String, NEW y \in String,
         NEW p \in String, NEW q \in String,
         Without(p, sep), Without(q, sep), Pair(x, sep, p) = Pair(y, sep, q)
  PROVE  x = y /\ p = q
<1> DEFINE z == Pair(x, sep, p)
           w == Pair(y, sep, q)
<1>1. /\ Len(x) \in Nat /\ Len(y) \in Nat /\ Len(p) \in Nat /\ Len(q) \in Nat
      /\ DOMAIN p = 1..Len(p) /\ DOMAIN q = 1..Len(q)
  BY DEF String
<1>2. IsText(z, sep, x, p)
  BY Text
<1>3. IsText(w, sep, y, q)
  BY Text
<1>4. z = w
  OBVIOUS
<1> HIDE DEF z, w
<1> USE DEF IsText
<1>5. Len(x) = Len(y)
  <2>1. ASSUME Len(x) > Len(y) PROVE FALSE
    <3> DEFINE i == Len(x) - Len(y)
    <3>1. i \in 1..Len(q)
      BY <1>1, <1>2, <1>3, <1>4, <2>1
    <3>2. Len(y) + 1 + i = Len(x) + 1
      BY <1>1
    <3>3. w[Len(y) + 1 + i] = q[i]
      BY <3>1, <1>3
    <3>4. q[i] = sep[1]
      BY <3>2, <3>3, <1>2, <1>4
    <3> QED
      BY <3>1, <3>4, <1>1 DEF Without
  <2>2. ASSUME Len(x) < Len(y) PROVE FALSE
    <3> DEFINE i == Len(y) - Len(x)
    <3>1. i \in 1..Len(p)
      BY <1>1, <1>2, <1>3, <1>4, <2>2
    <3>2. Len(x) + 1 + i = Len(y) + 1
      BY <1>1
    <3>3. z[Len(x) + 1 + i] = p[i]
      BY <3>1, <1>2
    <3>4. p[i] = sep[1]
      BY <3>2, <3>3, <1>3, <1>4
    <3> QED
      BY <3>1, <3>4, <1>1 DEF Without
  <2> QED
    BY <1>1, <2>1, <2>2
<1>6. x = y
  <2>1. \A i \in 1..Len(x) : x[i] = y[i]
    BY <1>2, <1>3, <1>4, <1>5
  <2> QED
    BY <2>1, <1>5, SameSequence DEF String
<1>7. p = q
  <2>1. Len(p) = Len(q)
    <3>1. Len(x) + 1 + Len(p) = Len(x) + 1 + Len(q)
      BY <1>2, <1>3, <1>4, <1>5
    <3>2. \A k, m, n \in Nat : k + 1 + m = k + 1 + n => m = n
      OBVIOUS
    <3> QED
      BY <3>1, <3>2, <1>1
  <2>2. ASSUME NEW i \in 1..Len(p) PROVE p[i] = q[i]
    <3>1. p[i] = z[Len(x) + 1 + i] /\ q[i] = w[Len(y) + 1 + i]
      BY <2>1, <1>2, <1>3
    <3> QED
      BY <3>1, <1>4, <1>5
  <2> QED
    BY <2>1, <2>2, SameSequence DEF String
<1> QED
  BY <1>6, <1>7

(* Nonempty parts that hold no separator can be read back from their text. *)
Separate(sep) == {t \in String : t # <<>> /\ Without(t, sep)}

LEMMA Positive == \A n \in Nat : n = 0 \/ n = 1 \/ n > 1
OBVIOUS

LEMMA JoinInjective ==
  ASSUME NEW sep \in String, IsMark(sep),
         NEW a \in Seq(Separate(sep)), NEW b \in Seq(Separate(sep)),
         join(a, sep) = join(b, sep)
  PROVE  a = b
<1> DEFINE Wrong(s, u) == join(s, sep) = join(u, sep) /\ s # u
           Parted == {n \in Nat : \E s, u \in Seq(Separate(sep)) : Len(s) = n /\ Wrong(s, u)}
<1>1. SUFFICES ASSUME Parted # {} PROVE FALSE
  <2>1. Parted = {}
    BY <1>1
  <2> QED
    BY <2>1
<1>2. PICK n \in Parted : \A j \in Parted : n <= j
  <2>1. Parted \in SUBSET Nat
    OBVIOUS
  <2> QED
    BY <1>1, <2>1, LeastOf
<1>3. PICK s \in Seq(Separate(sep)), u \in Seq(Separate(sep)) :
          Len(s) = n /\ join(s, sep) = join(u, sep) /\ s # u
  BY <1>2
<1>4. n \in Nat /\ Len(u) \in Nat
  BY <1>2
<1>5. ASSUME NEW t \in Seq(Separate(sep))
      PROVE  t \in Seq(String) /\ \A i \in 1..Len(t) : t[i] \in Separate(sep)
  <2>1. Separate(sep) \subseteq String
    BY DEF Separate
  <2> QED
    BY <2>1
<1>6. \A t \in Seq(Separate(sep)) : join(t, sep) \in String
  BY <1>5, JoinParts
<1>7. ASSUME NEW t \in Seq(Separate(sep)), Len(t) = 0 PROVE join(t, sep) = <<>> /\ t = <<>>
  <2>1. join(t, sep) = <<>>
    BY <1>5, <1>7, JoinParts
  <2>2. t = <<>>
    BY <1>7
  <2> QED
    BY <2>1, <2>2
<1>8. ASSUME NEW t \in Seq(Separate(sep)), Len(t) = 1
      PROVE  join(t, sep) # <<>> /\ Without(join(t, sep), sep) /\ t = <<join(t, sep)>>
  <2>1. join(t, sep) = t[1]
    BY <1>5, <1>8, JoinParts
  <2>2. t[1] \in Separate(sep)
    <3>1. 1 \in 1..Len(t)
      BY <1>8
    <3> QED
      BY <3>1, <1>5
  <2>3. t = <<t[1]>>
    <3> DEFINE one == <<t[1]>>
    <3>1. one \in Seq(Separate(sep)) /\ Len(one) = 1 /\ one[1] = t[1]
      BY <2>2
    <3> HIDE DEF one
    <3>2. t = one
      BY <3>1, <1>8, SameSequence
    <3> QED
      BY <3>2 DEF one
  <2> QED
    BY <2>1, <2>2, <2>3 DEF Separate
<1>9. ASSUME NEW t \in Seq(Separate(sep)), Len(t) > 1
      PROVE  /\ join(t, sep) = Pair(join(SubSeq(t, 1, Len(t) - 1), sep), sep, t[Len(t)])
             /\ join(t, sep) # <<>> /\ ~Without(join(t, sep), sep)
  <2> DEFINE x == join(SubSeq(t, 1, Len(t) - 1), sep)
             y == join(t, sep)
             p == t[Len(t)]
  <2>1. Len(t) \in Nat /\ SubSeq(t, 1, Len(t) - 1) \in Seq(Separate(sep)) /\ Len(t) \in 1..Len(t)
    BY <1>9
  <2>2. y = Pair(x, sep, p)
    BY <1>5, <1>9, JoinParts
  <2>3. x \in String
    BY <2>1, <1>6
  <2>4. p \in String
    BY <2>1, <1>5 DEF Separate
  <2> HIDE DEF x, y, p
  <2>5. IsText(y, sep, x, p)
    BY <2>2, <2>3, <2>4, Text
  <2>6. Len(x) \in Nat /\ Len(p) \in Nat
    BY <2>3, <2>4 DEF String
  <2>7. Len(x) + 1 \in DOMAIN y
    BY <2>5, <2>6 DEF IsText
  <2>8. y # <<>> /\ ~Without(y, sep)
    BY <2>5, <2>7 DEF Without, IsText
  <2> QED
    BY <2>2, <2>8 DEF x, y, p
<1>10. CASE n = 0
  <2>1. s = <<>> /\ join(s, sep) = <<>>
    BY <1>3, <1>7, <1>10
  <2>2. ~(Len(u) = 1) /\ ~(Len(u) > 1)
    BY <2>1, <1>3, <1>8, <1>9
  <2>3. Len(u) = 0
    BY <2>2, <1>4, Positive
  <2> QED
    BY <2>1, <2>3, <1>3, <1>7
<1>11. CASE n = 1
  <2>1. s = <<join(s, sep)>> /\ join(s, sep) # <<>> /\ Without(join(s, sep), sep)
    BY <1>3, <1>8, <1>11
  <2>2. ~(Len(u) = 0) /\ ~(Len(u) > 1)
    BY <2>1, <1>3, <1>7, <1>9
  <2>3. Len(u) = 1
    BY <2>2, <1>4, Positive
  <2> QED
    BY <2>1, <2>3, <1>3, <1>8
<1>12. CASE n > 1
  <2> DEFINE v == SubSeq(s, 1, n - 1)
             m == Len(u)
             w == SubSeq(u, 1, m - 1)
  <2>1. m > 1
    <3>1. join(s, sep) # <<>> /\ ~Without(join(s, sep), sep)
      BY <1>3, <1>9, <1>12
    <3>2. ~(m = 0) /\ ~(m = 1)
      BY <3>1, <1>3, <1>7, <1>8
    <3> QED
      BY <3>2, <1>4, Positive
  <2>2. /\ v \in Seq(Separate(sep)) /\ Len(v) = n - 1 /\ n - 1 \in Nat
        /\ \A i \in 1..n - 1 : v[i] = s[i]
    BY <1>3, <1>4, <1>12
  <2>3. /\ w \in Seq(Separate(sep)) /\ Len(w) = m - 1 /\ m - 1 \in Nat
        /\ \A i \in 1..m - 1 : w[i] = u[i]
    BY <1>4, <2>1
  <2>4. n \in 1..n /\ m \in 1..m
    BY <1>4, <1>12, <2>1
  <2>5. join(s, sep) = Pair(join(v, sep), sep, s[n]) /\ join(u, sep) = Pair(join(w, sep), sep, u[m])
    BY <1>3, <1>9, <1>12, <2>1
  <2>6. /\ join(v, sep) \in String /\ join(w, sep) \in String /\ s[n] \in String /\ u[m] \in String
        /\ Without(s[n], sep) /\ Without(u[m], sep)
    BY <1>3, <1>5, <1>6, <2>2, <2>3, <2>4 DEF Separate
  <2> HIDE DEF v, w, m
  <2>7. join(v, sep) = join(w, sep) /\ s[n] = u[m]
    BY <1>3, <2>5, <2>6, LastPart, ZenonT(30)
  <2>8. v = w
    <3>1. n - 1 \notin Parted
      <4>1. ~(n <= n - 1)
        BY <1>4
      <4> HIDE DEF Parted
      <4> QED
        BY <4>1, <1>2
    <3> QED
      BY <3>1, <2>2, <2>3, <2>7
  <2>9. n = m
    BY <2>2, <2>3, <2>8, <1>4 DEF m
  <2>10. \A i \in 1..n : s[i] = u[i]
    <3>1. \A i \in 1..n : i = n \/ i \in 1..n - 1
      BY <1>4
    <3> QED
      BY <3>1, <2>2, <2>3, <2>7, <2>8, <2>9
  <2>11. s = u
    BY <2>9, <2>10, <1>3, SMTT(30) DEF m
  <2> QED
    BY <2>11, <1>3
<1> QED
  BY <1>4, <1>10, <1>11, <1>12

(* What the parts do not hold, their text does not hold. *)
LEMMA PairWithout ==
  ASSUME NEW sep \in String, IsMark(sep), NEW d \in String, IsMark(d), sep[1] # d[1],
         NEW x \in String, NEW p \in String,
         Without(x, d), Without(p, d)
  PROVE  Pair(x, sep, p) \in String /\ Without(Pair(x, sep, p), d)
<1> DEFINE z == Pair(x, sep, p)
<1>1. z \in String
  BY DEF String, Pair
<1>2. IsText(z, sep, x, p)
  BY Text
<1>3. /\ Len(x) \in Nat /\ Len(p) \in Nat
      /\ DOMAIN x = 1..Len(x) /\ DOMAIN p = 1..Len(p)
  BY DEF String
<1> HIDE DEF z
<1>4. ASSUME NEW i \in DOMAIN z PROVE z[i] # d[1]
  <2>1. i \in 1..Len(x) + 1 + Len(p)
    BY <1>2 DEF IsText
  <2>2. CASE i \in 1..Len(x)
    BY <2>2, <1>2, <1>3 DEF IsText, Without
  <2>3. CASE i = Len(x) + 1
    BY <2>3, <1>2 DEF IsText
  <2>4. CASE i > Len(x) + 1
    <3> DEFINE k == i - (Len(x) + 1)
    <3>1. k \in 1..Len(p) /\ i = Len(x) + 1 + k
      BY <1>3, <2>1, <2>4
    <3> HIDE DEF k
    <3>2. z[i] = p[k]
      BY <3>1, <1>2 DEF IsText
    <3> QED
      BY <3>1, <3>2, <1>3 DEF Without
  <2> QED
    BY <1>3, <2>1, <2>2, <2>3, <2>4
<1> QED
  BY <1>1, <1>4 DEF Without, z

LEMMA JoinWithout ==
  ASSUME NEW sep \in String, IsMark(sep), NEW d \in String, IsMark(d), sep[1] # d[1],
         NEW s \in Seq(String),
         \A i \in 1..Len(s) : Without(s[i], d)
  PROVE  Without(join(s, sep), d)
<1> DEFINE Good(u) == \A i \in 1..Len(u) : Without(u[i], d)
           Failing == {n \in Nat : \E u \in Seq(String) :
                          Len(u) = n /\ Good(u) /\ ~Without(join(u, sep), d)}
<1>1. SUFFICES ASSUME Failing # {} PROVE FALSE
  <2>1. Len(s) \in Nat /\ Len(s) \notin Failing
    BY <1>1
  <2> QED
    BY <2>1
<1>2. PICK n \in Failing : \A j \in Failing : n <= j
  <2>1. Failing \in SUBSET Nat
    OBVIOUS
  <2> QED
    BY <1>1, <2>1, LeastOf
<1>3. PICK u \in Seq(String) : Len(u) = n /\ Good(u) /\ ~Without(join(u, sep), d)
  BY <1>2
<1>4. n \in Nat
  BY <1>2
<1>5. CASE n = 0
  <2>1. join(u, sep) = <<>>
    BY <1>3, <1>5, JoinParts
  <2> QED
    BY <2>1, <1>3 DEF Without
<1>6. CASE n = 1
  <2>1. u \in Seq(String) /\ Len(u) = 1 /\ 1 \in 1..Len(u)
    BY <1>3, <1>6
  <2>2. join(u, sep) = u[1]
    BY <2>1, JoinParts
  <2> QED
    BY <2>1, <2>2, <1>3
<1>7. CASE n > 1
  <2> DEFINE v == SubSeq(u, 1, n - 1)
  <2>1. /\ v \in Seq(String) /\ Len(v) = n - 1 /\ n - 1 \in Nat /\ n \in 1..n
        /\ \A i \in 1..n - 1 : v[i] = u[i] /\ i \in 1..n
    BY <1>3, <1>4, <1>7
  <2>2. join(u, sep) = Pair(join(v, sep), sep, u[n])
    BY <1>3, <1>7, JoinParts
  <2> HIDE DEF v
  <2>3. Good(v) /\ Without(u[n], d) /\ u[n] \in String
    BY <1>3, <2>1
  <2>4. Without(join(v, sep), d)
    <3>1. n - 1 \notin Failing
      <4>1. ~(n <= n - 1)
        BY <1>4
      <4> HIDE DEF Failing
      <4> QED
        BY <4>1, <1>2
    <3> QED
      BY <3>1, <2>1, <2>3
  <2>5. join(v, sep) \in String
    BY <2>1, JoinParts
  <2>6. Without(Pair(join(v, sep), sep, u[n]), d)
    BY <2>3, <2>4, <2>5, PairWithout
  <2> QED
    BY <2>2, <2>6, <1>3
<1> QED
  BY <1>4, <1>5, <1>6, <1>7, Positive

(* A text of three parts. *)
Three(x, y, z, sep) == join(<<x, y, z>>, sep)

LEMMA JoinThree ==
  ASSUME NEW sep \in String, IsMark(sep), NEW x \in String, NEW y \in String, NEW z \in String
  PROVE  /\ Three(x, y, z, sep) = Pair(Pair(x, sep, y), sep, z)
         /\ Pair(x, sep, y) \in String /\ Three(x, y, z, sep) \in String
         /\ Three(x, y, z, sep) # <<>>
<1> DEFINE s == <<x, y, z>>
           u == <<x, y>>
           v == <<x>>
<1>1. /\ s \in Seq(String) /\ Len(s) = 3 /\ s[1] = x /\ s[2] = y /\ s[3] = z
      /\ u \in Seq(String) /\ Len(u) = 2 /\ u[1] = x /\ u[2] = y
      /\ v \in Seq(String) /\ Len(v) = 1 /\ v[1] = x
  OBVIOUS
<1> HIDE DEF s, u, v
<1>2. SubSeq(s, 1, Len(s) - 1) = u /\ SubSeq(u, 1, Len(u) - 1) = v
  <2> DEFINE a == SubSeq(s, 1, Len(s) - 1)
             b == SubSeq(u, 1, Len(u) - 1)
  <2>1. /\ a \in Seq(String) /\ Len(a) = 2 /\ \A i \in 1..2 : a[i] = s[i]
        /\ b \in Seq(String) /\ Len(b) = 1 /\ \A i \in 1..1 : b[i] = u[i]
    BY <1>1
  <2> HIDE DEF a, b
  <2>2. \A i \in 1..2 : a[i] = u[i]
    BY <1>1, <2>1
  <2>3. \A i \in 1..1 : b[i] = v[i]
    BY <1>1, <2>1
  <2>4. a = u /\ b = v
    BY <1>1, <2>1, <2>2, <2>3, SameSequence
  <2> QED
    BY <2>4 DEF a, b
<1>3. join(v, sep) = x
  BY <1>1, JoinParts
<1>4. join(u, sep) = Pair(x, sep, y)
  <2>1. Len(u) > 1
    BY <1>1
  <2>2. join(u, sep) = Pair(join(SubSeq(u, 1, Len(u) - 1), sep), sep, u[Len(u)])
    BY <1>1, <2>1, JoinParts
  <2> QED
    BY <2>2, <1>1, <1>2, <1>3
<1>5. join(s, sep) = Pair(join(u, sep), sep, z)
  <2>1. Len(s) > 1
    BY <1>1
  <2>2. join(s, sep) = Pair(join(SubSeq(s, 1, Len(s) - 1), sep), sep, s[Len(s)])
    BY <1>1, <2>1, JoinParts
  <2> QED
    BY <2>2, <1>1, <1>2
<1>6. join(u, sep) \in String /\ join(s, sep) \in String
  BY <1>1, JoinParts
<1>7. join(s, sep) # <<>>
  <2>1. IsText(join(s, sep), sep, join(u, sep), z)
    BY <1>5, <1>6, Text
  <2>2. Len(join(u, sep)) \in Nat /\ Len(z) \in Nat
    BY <1>6 DEF String
  <2> QED
    BY <2>1, <2>2 DEF IsText
<1> QED
  BY <1>4, <1>5, <1>6, <1>7 DEF s, Three

LEMMA ThreeParts ==
  ASSUME NEW sep \in String, IsMark(sep), NEW x \in String, NEW y \in String, NEW z \in String,
         NEW x1 \in String, NEW y1 \in String, NEW z1 \in String,
         Without(y, sep), Without(z, sep), Without(y1, sep), Without(z1, sep),
         Three(x, y, z, sep) = Three(x1, y1, z1, sep)
  PROVE  x = x1 /\ y = y1 /\ z = z1
<1> DEFINE u == Pair(x, sep, y)
           v == Pair(x1, sep, y1)
<1>1. u \in String /\ v \in String
  BY JoinThree
<1>2. Pair(u, sep, z) = Pair(v, sep, z1)
  <2>1. Three(x, y, z, sep) = Pair(Pair(x, sep, y), sep, z)
    BY JoinThree
  <2>2. Three(x1, y1, z1, sep) = Pair(Pair(x1, sep, y1), sep, z1)
    BY JoinThree
  <2> QED
    BY <2>1, <2>2, Zenon
<1> HIDE DEF u, v
<1>3. u = v /\ z = z1
  BY <1>1, <1>2, LastPart
<1>4. x = x1 /\ y = y1
  <2>1. Pair(x, sep, y) = Pair(x1, sep, y1)
    BY <1>3 DEF u, v
  <2> QED
    BY <2>1, LastPart
<1> QED
  BY <1>3, <1>4

LEMMA ThreeWithout ==
  ASSUME NEW sep \in String, IsMark(sep), NEW d \in String, IsMark(d), sep[1] # d[1],
         NEW x \in String, NEW y \in String, NEW z \in String,
         Without(x, d), Without(y, d), Without(z, d)
  PROVE  Without(Three(x, y, z, sep), d)
<1> DEFINE u == Pair(x, sep, y)
<1>1. u \in String /\ Without(u, d)
  BY PairWithout
<1>2. Three(x, y, z, sep) = Pair(u, sep, z)
  <2>1. Three(x, y, z, sep) = Pair(Pair(x, sep, y), sep, z)
    BY JoinThree
  <2> QED
    BY <2>1, Zenon
<1> HIDE DEF u
<1>3. Without(Pair(u, sep, z), d)
  BY <1>1, PairWithout
<1> QED
  BY <1>2, <1>3

-----------------------------------------------------------------------------
(* The record as it is built, and what the link was told of it.            *)

Payments == ClaimChoices \cup {None}

Entries ==
    [ peer_id : Ids, addresses : Seq(AddressChoices), network_id : Networks, last_seen : Nat,
      via : Vias, flags : Seq(FlagChoices), payment : Payments ]

Contents == [addresses : Seq(AddressChoices), flags : Seq(FlagChoices), payment : Payments]

RecordInv ==
    /\ entry \in Entries
    /\ sent = None \/ (sent \in Contents /\ told = fingerprint_hash(sent))

LEMMA NewEntries ==
  ASSUME NEW id \in Ids, NEW n \in Networks, NEW t \in Seen, NEW v \in Vias
  PROVE  NewEntry(id, n, t, v) \in Entries
<1>1. t \in Nat
  BY RecordAssumption
<1>2. <<>> \in Seq(AddressChoices) /\ <<>> \in Seq(FlagChoices)
  OBVIOUS
<1> QED
  BY <1>1, <1>2 DEF NewEntry, Entries, Payments

LEMMA RecordInvariance == RecordSpec => []RecordInv
<1>1. RecordInit => RecordInv
  BY NewEntries DEF RecordInit, RecordInv
<1>2. ASSUME RecordInv, [RecordNext]_recordVars PROVE RecordInv'
  <2>1. entry \in Entries
    BY <1>2 DEF RecordInv
  <2>2. CASE Rebuild
    <3>1. entry' \in Entries
      <4>1. entry.peer_id \in Ids
        BY <2>1 DEF Entries
      <4> QED
        BY <2>2, <4>1, NewEntries DEF Rebuild
    <3> QED
      BY <1>2, <2>2, <3>1 DEF Rebuild, RecordInv
  <2>3. ASSUME NEW a \in AddressChoices, with_address(a) PROVE RecordInv'
    <3>1. Append(entry.addresses, a) \in Seq(AddressChoices)
      BY <2>1 DEF Entries
    <3>2. entry' \in Entries
      BY <2>1, <2>3, <3>1 DEF with_address, Entries
    <3> QED
      BY <1>2, <2>3, <3>2 DEF with_address, RecordInv
  <2>4. ASSUME NEW f \in FlagChoices, with_flag(f) PROVE RecordInv'
    <3>1. Append(entry.flags, f) \in Seq(FlagChoices)
      BY <2>1 DEF Entries
    <3>2. entry' \in Entries
      BY <2>1, <2>4, <3>1 DEF with_flag, Entries
    <3> QED
      BY <1>2, <2>4, <3>2 DEF with_flag, RecordInv
  <2>5. ASSUME NEW claim \in ClaimChoices, with_payment(claim) PROVE RecordInv'
    <3>1. entry' \in Entries
      BY <2>1, <2>5 DEF with_payment, Entries, Payments
    <3> QED
      BY <1>2, <2>5, <3>1 DEF with_payment, RecordInv
  <2>6. CASE Tell
    <3>1. sent' \in Contents /\ entry' \in Entries
      BY <2>1, <2>6 DEF Tell, Entries, Contents
    <3>2. told' = fingerprint_hash(entry)
      BY <2>6 DEF Tell
    <3>3. /\ sent'.addresses = entry.addresses /\ sent'.flags = entry.flags
          /\ sent'.payment = entry.payment
      BY <2>6 DEF Tell
    <3>4. told' = fingerprint_hash(sent')
      BY <3>2, <3>3 DEF fingerprint_hash
    <3>5. (told = fingerprint_hash(sent))' <=> told' = fingerprint_hash(sent')
      BY DEF fingerprint_hash
    <3> QED
      BY <3>1, <3>4, <3>5 DEF RecordInv
  <2>7. CASE UNCHANGED recordVars
    BY <1>2, <2>7 DEF recordVars, RecordInv
  <2> QED
    BY <1>2, <2>2, <2>3, <2>4, <2>5, <2>6, <2>7 DEF RecordNext
<1> QED
  BY <1>1, <1>2, PTL DEF RecordSpec

LEMMA WirePartsTell ==
  \A c, d \in Payments : WireParts(c) = WireParts(d) => c = d
<1>1. \A c \in ClaimChoices : c # None /\ WireParts(c) = <<c.address, c.spki, c.sig>>
  BY RecordAssumption DEF WireParts
<1>2. WireParts(None) = <<>>
  BY DEF WireParts
<1>3. ASSUME NEW c \in ClaimChoices, NEW d \in ClaimChoices, WireParts(c) = WireParts(d)
      PROVE  c = d
  <2>1. c.address = d.address /\ c.spki = d.spki /\ c.sig = d.sig
    BY <1>1, <1>3
  <2>2. /\ c = [address |-> c.address, spki |-> c.spki, sig |-> c.sig]
        /\ d = [address |-> d.address, spki |-> d.spki, sig |-> d.sig]
    BY RecordAssumption
  <2> QED
    BY <2>1, <2>2, Zenon
<1> QED
  BY <1>1, <1>2, <1>3 DEF Payments

(* A record is told again exactly when its content has changed, for any
   addresses, flags and claims, in any order and number (entry.rs:333). *)
THEOREM ToldForContent == RecordSpec => []ToldMeansSameContent
<1>1. ASSUME RecordInv PROVE ToldMeansSameContent
  <2>1. SUFFICES ASSUME sent # None
                 PROVE  told = fingerprint_hash(entry)
                            <=> /\ ToBag(sent.addresses) = ToBag(entry.addresses)
                                /\ ToBag(sent.flags) = ToBag(entry.flags)
                                /\ sent.payment = entry.payment
    BY DEF ToldMeansSameContent
  <2>2. /\ sent.addresses \in Seq(AddressChoices) /\ entry.addresses \in Seq(AddressChoices)
        /\ sent.flags \in Seq(FlagChoices) /\ entry.flags \in Seq(FlagChoices)
        /\ sent.payment \in Payments /\ entry.payment \in Payments
    BY <1>1, <2>1 DEF RecordInv, Entries, Contents
  <2>3. told = fingerprint_hash(sent)
    BY <1>1, <2>1 DEF RecordInv
  <2>4. fingerprint_hash(sent) = fingerprint_hash(entry)
            <=> /\ sort(sent.addresses, AddressOrder) = sort(entry.addresses, AddressOrder)
                /\ sort(sent.flags, FlagOrder) = sort(entry.flags, FlagOrder)
                /\ WireParts(sent.payment) = WireParts(entry.payment)
    BY DEF fingerprint_hash
  <2>5. sort(sent.addresses, AddressOrder) = sort(entry.addresses, AddressOrder)
            <=> ToBag(sent.addresses) = ToBag(entry.addresses)
    BY <2>2, AddressesOrdered, SortAlike
  <2>6. sort(sent.flags, FlagOrder) = sort(entry.flags, FlagOrder)
            <=> ToBag(sent.flags) = ToBag(entry.flags)
    BY <2>2, FlagsOrdered, SortAlike
  <2>7. WireParts(sent.payment) = WireParts(entry.payment) <=> sent.payment = entry.payment
    BY <2>2, WirePartsTell
  <2> QED
    BY <2>3, <2>4, <2>5, <2>6, <2>7
<1> QED
  BY <1>1, RecordInvariance, PTL

(* The text of an address tells it, and that of a claim the claim. *)
LEMMA AddressTextTells ==
  /\ \A a \in AddressChoices : AddressText(a) \in String /\ AddressText(a) # <<>>
  /\ \A a \in AddressChoices : Without(a.host, Comma) => Without(AddressText(a), Comma)
  /\ \A a, b \in AddressChoices : AddressText(a) = AddressText(b) => a = b
<1>1. ASSUME NEW a \in AddressChoices
      PROVE  /\ a = [host |-> a.host, port |-> a.port, kind |-> a.kind]
             /\ a.host \in String /\ PortText[a.port] \in String /\ KindText[a.kind] \in String
             /\ a.port \in DOMAIN PortText /\ a.kind \in DOMAIN KindText
             /\ Without(PortText[a.port], Comma) /\ Without(PortText[a.port], Pipe)
             /\ Without(KindText[a.kind], Comma) /\ Without(KindText[a.kind], Pipe)
  <2>1. a \in [host : String, port : Nat, kind : ToSet(AddressKind)]
    BY RecordAssumption
  <2>2. a.port \in DOMAIN PortText /\ a.kind \in DOMAIN KindText
    BY <2>1, TextAssumption
  <2> QED
    BY <2>1, <2>2, TextAssumption DEF Names
<1> DEFINE Line(a) == Three(a.host, PortText[a.port], KindText[a.kind], Pipe)
<1>0. \A a : AddressText(a) = Line(a)
  BY DEF AddressText, Three
<1>2. Comma \in String /\ IsMark(Comma) /\ Pipe \in String /\ IsMark(Pipe) /\ Pipe[1] # Comma[1]
  BY DEF Comma, Pipe, IsMark, String
<1>3. \A a \in AddressChoices : AddressText(a) \in String /\ AddressText(a) # <<>>
  BY <1>1, <1>2, <1>0, JoinThree
<1>4. ASSUME NEW a \in AddressChoices, Without(a.host, Comma)
      PROVE  Without(AddressText(a), Comma)
  BY <1>1, <1>2, <1>4, <1>0, ThreeWithout
<1>5. ASSUME NEW a \in AddressChoices, NEW b \in AddressChoices, AddressText(a) = AddressText(b)
      PROVE  a = b
  <2>1. /\ a.host = b.host /\ PortText[a.port] = PortText[b.port]
        /\ KindText[a.kind] = KindText[b.kind]
    <3>1. Three(a.host, PortText[a.port], KindText[a.kind], Pipe)
              = Three(b.host, PortText[b.port], KindText[b.kind], Pipe)
      BY <1>0, <1>5
    <3>2. /\ a.host \in String /\ PortText[a.port] \in String /\ KindText[a.kind] \in String
          /\ b.host \in String /\ PortText[b.port] \in String /\ KindText[b.kind] \in String
          /\ Without(PortText[a.port], Pipe) /\ Without(KindText[a.kind], Pipe)
          /\ Without(PortText[b.port], Pipe) /\ Without(KindText[b.kind], Pipe)
      BY <1>1
    <3> DEFINE x == a.host
               y == PortText[a.port]
               z == KindText[a.kind]
               x1 == b.host
               y1 == PortText[b.port]
               z1 == KindText[b.kind]
    <3> HIDE DEF x, y, z, x1, y1, z1
    <3>3. /\ x \in String /\ y \in String /\ z \in String
          /\ x1 \in String /\ y1 \in String /\ z1 \in String
          /\ Without(y, Pipe) /\ Without(z, Pipe) /\ Without(y1, Pipe) /\ Without(z1, Pipe)
          /\ Three(x, y, z, Pipe) = Three(x1, y1, z1, Pipe)
      BY <3>1, <3>2 DEF x, y, z, x1, y1, z1
    <3>4. Pipe \in String /\ IsMark(Pipe)
      BY <1>2
    <3>5. x = x1 /\ y = y1 /\ z = z1
      BY <3>3, <3>4, ThreeParts
    <3> QED
      BY <3>5 DEF x, y, z, x1, y1, z1
  <2>2. a.port = b.port /\ a.kind = b.kind
    BY <1>1, <2>1, TextAssumption DEF Names, IsInjective
  <2> QED
    BY <1>1, <2>1, <2>2, Zenon
<1> QED
  BY <1>3, <1>4, <1>5

LEMMA ClaimText ==
  ASSUME NEW c \in ClaimChoices
  PROVE  /\ c.address \in String /\ PartText[c.spki] \in String /\ PartText[c.sig] \in String
         /\ PaymentText(c) = Three(c.address, PartText[c.spki], PartText[c.sig], Pipe)
         /\ PaymentText(c) \in String /\ PaymentText(c) # <<>>
         /\ PlainClaim(c) => Without(PaymentText(c), Hash)
<1>1. c # None
  BY RecordAssumption
<1>2. PaymentText(c) = Three(c.address, PartText[c.spki], PartText[c.sig], Pipe)
  BY <1>1 DEF PaymentText, Three
<1>3. c.address \in String /\ PartText[c.spki] \in String /\ PartText[c.sig] \in String
  BY TextAssumption
<1>4. Pipe \in String /\ IsMark(Pipe) /\ Hash \in String /\ IsMark(Hash) /\ Pipe[1] # Hash[1]
  BY DEF Pipe, Hash, IsMark, String
<1>5. PaymentText(c) \in String /\ PaymentText(c) # <<>>
  <2>1. LET t == Three(c.address, PartText[c.spki], PartText[c.sig], Pipe)
        IN  t \in String /\ t # <<>>
    BY <1>3, <1>4, JoinThree
  <2> QED
    BY <1>2, <2>1, Zenon
<1>6. ASSUME PlainClaim(c) PROVE Without(PaymentText(c), Hash)
  <2>1. /\ Without(c.address, Hash) /\ Without(PartText[c.spki], Hash)
        /\ Without(PartText[c.sig], Hash)
    BY <1>6 DEF PlainClaim
  <2> QED
    BY <2>1, <1>2, <1>3, <1>4, ThreeWithout
<1> QED
  BY <1>2, <1>3, <1>5, <1>6

PlainPayment(c) == c # None => PlainClaim(c)

LEMMA PaymentTextTells ==
  /\ \A c \in Payments : PaymentText(c) \in String
  /\ \A c \in Payments : PlainPayment(c) => Without(PaymentText(c), Hash)
  /\ \A c, d \in Payments :
         PlainPayment(c) /\ PlainPayment(d) /\ PaymentText(c) = PaymentText(d) => c = d
<1>1. PaymentText(None) = <<>> /\ Without(<<>>, Hash) /\ <<>> \in String
  BY DEF PaymentText, Without, String
<1>2. \A c \in Payments : PaymentText(c) \in String
  BY <1>1, ClaimText DEF Payments
<1>3. \A c \in ClaimChoices : c # None
  BY RecordAssumption
<1>4. \A c \in Payments : PlainPayment(c) => Without(PaymentText(c), Hash)
  BY <1>1, <1>3, ClaimText DEF Payments, PlainPayment
<1>5. ASSUME NEW c \in ClaimChoices, NEW d \in ClaimChoices, PlainClaim(c), PlainClaim(d),
             PaymentText(c) = PaymentText(d)
      PROVE  c = d
  <2>1. /\ Without(PartText[c.spki], Pipe) /\ Without(PartText[c.sig], Pipe)
        /\ Without(PartText[d.spki], Pipe) /\ Without(PartText[d.sig], Pipe)
    BY <1>5 DEF PlainClaim
  <2>2. Pipe \in String /\ IsMark(Pipe)
    BY DEF Pipe, IsMark, String
  <2>3. /\ c.address = d.address /\ PartText[c.spki] = PartText[d.spki]
        /\ PartText[c.sig] = PartText[d.sig]
    <3>1. Three(c.address, PartText[c.spki], PartText[c.sig], Pipe)
              = Three(d.address, PartText[d.spki], PartText[d.sig], Pipe)
      BY <1>5, ClaimText
    <3>2. /\ c.address \in String /\ PartText[c.spki] \in String /\ PartText[c.sig] \in String
          /\ d.address \in String /\ PartText[d.spki] \in String /\ PartText[d.sig] \in String
      BY ClaimText
    <3> DEFINE x == c.address
               y == PartText[c.spki]
               z == PartText[c.sig]
               x1 == d.address
               y1 == PartText[d.spki]
               z1 == PartText[d.sig]
    <3> HIDE DEF x, y, z, x1, y1, z1
    <3>3. /\ x \in String /\ y \in String /\ z \in String
          /\ x1 \in String /\ y1 \in String /\ z1 \in String
          /\ Without(y, Pipe) /\ Without(z, Pipe) /\ Without(y1, Pipe) /\ Without(z1, Pipe)
          /\ Three(x, y, z, Pipe) = Three(x1, y1, z1, Pipe)
      BY <2>1, <3>1, <3>2 DEF x, y, z, x1, y1, z1
    <3>4. x = x1 /\ y = y1 /\ z = z1
      BY <2>2, <3>3, ThreeParts
    <3> QED
      BY <3>4 DEF x, y, z, x1, y1, z1
  <2>4. c.spki = d.spki /\ c.sig = d.sig
    BY <2>3, TextAssumption DEF IsInjective
  <2>5. /\ c = [address |-> c.address, spki |-> c.spki, sig |-> c.sig]
        /\ d = [address |-> d.address, spki |-> d.spki, sig |-> d.sig]
    BY RecordAssumption
  <2> QED
    BY <2>3, <2>4, <2>5, Zenon
<1>6. ASSUME NEW c \in Payments, NEW d \in Payments, PlainPayment(c), PlainPayment(d),
             PaymentText(c) = PaymentText(d)
      PROVE  c = d
  BY <1>1, <1>3, <1>5, <1>6, ClaimText DEF Payments, PlainPayment
<1> QED
  BY <1>2, <1>4, <1>6

-----------------------------------------------------------------------------
(* The text of the addresses of a record.                                  *)

LEMMA TextsOrdered == IsOrder(TextOrder, AddressTexts)
<1>1. AddressTexts \subseteq String
  BY AddressTextTells DEF AddressTexts
<1> QED
  BY <1>1, StringOrder DEF IsOrder, TextOrder

LEMMA TextsOf ==
  ASSUME NEW s \in Seq(AddressChoices)
  PROVE  /\ Texts(s) \in Seq(AddressTexts) /\ DOMAIN Texts(s) = DOMAIN s
         /\ \A i \in DOMAIN s : Texts(s)[i] = AddressText(s[i]) /\ s[i] \in AddressChoices
<1>1. DOMAIN s = 1..Len(s) /\ Len(s) \in Nat /\ \A i \in DOMAIN s : s[i] \in AddressChoices
  OBVIOUS
<1>2. Texts(s) \in [1..Len(s) -> AddressTexts]
  BY <1>1 DEF Texts, AddressTexts
<1> QED
  BY <1>1, <1>2 DEF Texts

(* Addresses and their texts are counted alike. *)
LEMMA TextsCount ==
  ASSUME NEW s \in Seq(AddressChoices)
  PROVE  /\ \A a \in AddressChoices : Count(Texts(s), AddressText(a)) = Count(s, a)
         /\ \A x : x \notin AddressTexts => Count(Texts(s), x) = Cardinality({})
         /\ \A a : a \notin AddressChoices => Count(s, a) = Cardinality({})
<1>1. ASSUME NEW a \in AddressChoices PROVE Count(Texts(s), AddressText(a)) = Count(s, a)
  <2>1. {i \in DOMAIN Texts(s) : Texts(s)[i] = AddressText(a)} = {i \in DOMAIN s : s[i] = a}
    BY TextsOf, AddressTextTells
  <2> QED
    BY <2>1 DEF Count
<1>2. ASSUME NEW x, x \notin AddressTexts PROVE Count(Texts(s), x) = Cardinality({})
  <2>1. {i \in DOMAIN Texts(s) : Texts(s)[i] = x} = {}
    BY <1>2, TextsOf DEF AddressTexts
  <2> QED
    BY <2>1 DEF Count
<1>3. ASSUME NEW a, a \notin AddressChoices PROVE Count(s, a) = Cardinality({})
  <2>1. {i \in DOMAIN s : s[i] = a} = {}
    BY <1>3
  <2> QED
    BY <2>1 DEF Count
<1> QED
  BY <1>1, <1>2, <1>3

(* Sorted as texts or as addresses: the same addresses give the same. *)
LEMMA TextsAlike ==
  ASSUME NEW s \in Seq(AddressChoices), NEW u \in Seq(AddressChoices)
  PROVE  sort(Texts(s), TextOrder) = sort(Texts(u), TextOrder)
             <=> sort(s, AddressOrder) = sort(u, AddressOrder)
<1>1. /\ Texts(s) \in Seq(AddressTexts) /\ Texts(u) \in Seq(AddressTexts)
  BY TextsOf
<1>2. sort(Texts(s), TextOrder) = sort(Texts(u), TextOrder)
          <=> ToBag(Texts(s)) = ToBag(Texts(u))
  BY <1>1, TextsOrdered, SortAlike
<1>3. sort(s, AddressOrder) = sort(u, AddressOrder) <=> ToBag(s) = ToBag(u)
  BY AddressesOrdered, SortAlike
<1>4. ASSUME ToBag(Texts(s)) = ToBag(Texts(u)) PROVE ToBag(s) = ToBag(u)
  <2>1. \A x : Count(Texts(s), x) = Count(Texts(u), x)
    BY <1>1, <1>4, BagCounts
  <2>2. \A a : Count(s, a) = Count(u, a)
    BY <2>1, TextsCount
  <2> QED
    BY <2>2, CountsBag
<1>5. ASSUME ToBag(s) = ToBag(u) PROVE ToBag(Texts(s)) = ToBag(Texts(u))
  <2>1. \A a : Count(s, a) = Count(u, a)
    BY <1>5, BagCounts
  <2>2. ASSUME NEW x PROVE Count(Texts(s), x) = Count(Texts(u), x)
    <3>1. CASE x \in AddressTexts
      BY <2>1, <3>1, TextsCount DEF AddressTexts
    <3>2. CASE x \notin AddressTexts
      BY <3>2, TextsCount
    <3> QED
      BY <3>1, <3>2
  <2> QED
    BY <1>1, <2>2, CountsBag
<1> QED
  BY <1>2, <1>3, <1>4, <1>5

(* The three parts of the text of a record. *)
AddressesText(r) == join(sort(Texts(r.addresses), TextOrder), Comma)
FlagsText(r) == join(sort(r.flags, FlagOrder), Comma)

LEMMA PlainTexts ==
  ASSUME NEW r, r.addresses \in Seq(AddressChoices), r.flags \in Seq(FlagChoices),
         r.payment \in Payments, Plain(r)
  PROVE  /\ sort(Texts(r.addresses), TextOrder) \in Seq(Separate(Comma))
         /\ sort(r.flags, FlagOrder) \in Seq(Separate(Comma))
         /\ AddressesText(r) \in String /\ FlagsText(r) \in String
         /\ PaymentText(r.payment) \in String
         /\ Without(FlagsText(r), Hash) /\ Without(PaymentText(r.payment), Hash)
         /\ PlainPayment(r.payment)
<1> DEFINE x == Texts(r.addresses)
           a == sort(x, TextOrder)
           f == sort(r.flags, FlagOrder)
<1>1. x \in Seq(AddressTexts)
  BY TextsOf
<1>2. \A i \in DOMAIN x : x[i] \in Separate(Comma)
  <2>1. \A i \in DOMAIN r.addresses : Without(r.addresses[i].host, Comma)
    BY DEF Plain
  <2> QED
    BY <2>1, TextsOf, AddressTextTells DEF Separate
<1>3. a \in Seq(AddressTexts) /\ \A i \in DOMAIN a : a[i] \in ToSet(x)
  BY <1>1, TextsOrdered, SortKeeps
<1>4. f \in Seq(FlagChoices) /\ \A i \in DOMAIN f : f[i] \in ToSet(r.flags)
  BY FlagsOrdered, SortKeeps
<1>5. \A i \in DOMAIN r.flags : r.flags[i] \in String /\ PlainFlag(r.flags[i])
  BY RecordAssumption DEF Plain
<1> HIDE DEF x, a, f
<1>6. a \in Seq(Separate(Comma))
  <2>1. \A i \in DOMAIN a : a[i] \in Separate(Comma)
    BY <1>2, <1>3 DEF ToSet
  <2> QED
    BY <2>1, <1>3
<1>7. /\ f \in Seq(Separate(Comma))
      /\ \A i \in DOMAIN f : Without(f[i], Hash)
  <2>1. \A i \in DOMAIN f : f[i] \in String /\ PlainFlag(f[i])
    BY <1>4, <1>5 DEF ToSet
  <2>2. \A i \in DOMAIN f : f[i] \in Separate(Comma) /\ Without(f[i], Hash)
    BY <2>1 DEF Separate, PlainFlag
  <2> QED
    BY <2>2, <1>4
<1>8. a \in Seq(String) /\ f \in Seq(String)
  <2>1. Separate(Comma) \subseteq String
    BY DEF Separate
  <2> QED
    BY <2>1, <1>6, <1>7
<1>9. Comma \in String /\ IsMark(Comma) /\ Hash \in String /\ IsMark(Hash) /\ Comma[1] # Hash[1]
  BY DEF Comma, Hash, IsMark, String
<1>10. join(a, Comma) \in String /\ join(f, Comma) \in String
  BY <1>8, <1>9, JoinParts
<1>11. Without(join(f, Comma), Hash)
  <2>1. \A i \in 1..Len(f) : Without(f[i], Hash)
    BY <1>7, <1>8
  <2> QED
    BY <2>1, <1>8, <1>9, JoinWithout
<1>12. PlainPayment(r.payment)
  BY DEF Plain, PlainPayment
<1> QED
  BY <1>6, <1>7, <1>10, <1>11, <1>12, PaymentTextTells DEF AddressesText, FlagsText, x, a, f

(* Of records that cannot run together, one text means one hash. *)
LEMMA TextMeansHash ==
  ASSUME NEW r, NEW s, Plain(r), Plain(s),
         r.addresses \in Seq(AddressChoices), r.flags \in Seq(FlagChoices), r.payment \in Payments,
         s.addresses \in Seq(AddressChoices), s.flags \in Seq(FlagChoices), s.payment \in Payments,
         fingerprint(r) = fingerprint(s)
  PROVE  fingerprint_hash(r) = fingerprint_hash(s)
<1>1. Hash \in String /\ IsMark(Hash) /\ Comma \in String /\ IsMark(Comma)
  BY DEF Hash, Comma, IsMark, String
<1>2. /\ AddressesText(r) \in String /\ FlagsText(r) \in String
      /\ PaymentText(r.payment) \in String /\ PlainPayment(r.payment)
      /\ Without(FlagsText(r), Hash) /\ Without(PaymentText(r.payment), Hash)
  BY PlainTexts
<1>3. /\ AddressesText(s) \in String /\ FlagsText(s) \in String
      /\ PaymentText(s.payment) \in String /\ PlainPayment(s.payment)
      /\ Without(FlagsText(s), Hash) /\ Without(PaymentText(s.payment), Hash)
  BY PlainTexts
<1>4. Three(AddressesText(r), FlagsText(r), PaymentText(r.payment), Hash)
          = Three(AddressesText(s), FlagsText(s), PaymentText(s.payment), Hash)
  BY DEF fingerprint, AddressesText, FlagsText, Three
<1>5. /\ AddressesText(r) = AddressesText(s) /\ FlagsText(r) = FlagsText(s)
      /\ PaymentText(r.payment) = PaymentText(s.payment)
  BY <1>1, <1>2, <1>3, <1>4, ThreeParts
<1>6. r.payment = s.payment
  BY <1>2, <1>3, <1>5, PaymentTextTells
<1>7. sort(r.flags, FlagOrder) = sort(s.flags, FlagOrder)
  <2>1. sort(r.flags, FlagOrder) \in Seq(Separate(Comma))
    BY PlainTexts
  <2>2. sort(s.flags, FlagOrder) \in Seq(Separate(Comma))
    BY PlainTexts
  <2> QED
    BY <1>1, <1>5, <2>1, <2>2, JoinInjective DEF FlagsText
<1>8. sort(r.addresses, AddressOrder) = sort(s.addresses, AddressOrder)
  <2>1. sort(Texts(r.addresses), TextOrder) \in Seq(Separate(Comma))
    BY PlainTexts
  <2>2. sort(Texts(s.addresses), TextOrder) \in Seq(Separate(Comma))
    BY PlainTexts
  <2>3. sort(Texts(r.addresses), TextOrder) = sort(Texts(s.addresses), TextOrder)
    BY <1>1, <1>5, <2>1, <2>2, JoinInjective DEF AddressesText
  <2> QED
    BY <2>3, TextsAlike
<1> QED
  BY <1>6, <1>7, <1>8 DEF fingerprint_hash

LEMMA HashMeansText ==
  ASSUME NEW r, NEW s, r.payment \in Payments, s.payment \in Payments,
         r.addresses \in Seq(AddressChoices), s.addresses \in Seq(AddressChoices),
         fingerprint_hash(r) = fingerprint_hash(s)
  PROVE  fingerprint(r) = fingerprint(s)
<1>1. /\ sort(r.addresses, AddressOrder) = sort(s.addresses, AddressOrder)
      /\ sort(r.flags, FlagOrder) = sort(s.flags, FlagOrder)
      /\ WireParts(r.payment) = WireParts(s.payment)
  BY DEF fingerprint_hash
<1>2. sort(Texts(r.addresses), TextOrder) = sort(Texts(s.addresses), TextOrder)
  BY <1>1, TextsAlike
<1>3. r.payment = s.payment
  BY <1>1, WirePartsTell
<1> QED
  BY <1>1, <1>2, <1>3 DEF fingerprint

(* The text of a record and its hash draw the same line for all records whose
   parts cannot run together in the text, and the same hash always means the
   same text, for any addresses, flags and claims (entry.rs:322). *)
THEOREM SameLine == RecordSpec => []FingerprintsAgree
<1>1. ASSUME RecordInv PROVE FingerprintsAgree
  <2>1. SUFFICES ASSUME sent # None PROVE FingerprintsAgree
    BY DEF FingerprintsAgree
  <2>2. /\ sent.addresses \in Seq(AddressChoices) /\ entry.addresses \in Seq(AddressChoices)
        /\ sent.flags \in Seq(FlagChoices) /\ entry.flags \in Seq(FlagChoices)
        /\ sent.payment \in Payments /\ entry.payment \in Payments
    BY <1>1, <2>1 DEF RecordInv, Entries, Contents
  <2>3. fingerprint_hash(entry) = fingerprint_hash(sent) => fingerprint(entry) = fingerprint(sent)
    BY <2>2, HashMeansText
  <2>4. Plain(entry) /\ Plain(sent) /\ fingerprint(entry) = fingerprint(sent)
            => fingerprint_hash(entry) = fingerprint_hash(sent)
    BY <2>2, TextMeansHash
  <2> QED
    BY <2>3, <2>4 DEF FingerprintsAgree
<1> QED
  BY <1>1, RecordInvariance, PTL

-----------------------------------------------------------------------------
(* The verdict.                                                            *)

LEMMA LeastFailure ==
  ASSUME NEW S \in SUBSET Nat, S # {}
  PROVE  Min(S) \in S
<1>1. \E n \in S : \A m \in S : n <= m
  BY LeastOf
<1> QED
  BY <1>1 DEF Min

Wrong(e, ctx) ==
    \/ Fails(e, ctx).BadPeerId \/ Fails(e, ctx).SelfOrPartner \/ Fails(e, ctx).TooManyAddresses
    \/ Fails(e, ctx).BadAddress \/ Fails(e, ctx).TooManyFlags \/ Fails(e, ctx).NetworkMismatch
    \/ Fails(e, ctx).BadVia \/ Fails(e, ctx).OversizePayment \/ Fails(e, ctx).TooOld

(* An entry is kept when no check fails. *)
LEMMA KeptWhen ==
  ASSUME NEW e, NEW ctx
  PROVE  validate(e, ctx) = None <=> ~Wrong(e, ctx)
<1> DEFINE failed == {i \in DOMAIN EntrySkip : Fails(e, ctx)[EntrySkip[i]]}
<1>1. DOMAIN EntrySkip = 1..9
  BY DEF EntrySkip
<1>2. failed = {} <=> ~Wrong(e, ctx)
  <2>1. failed = {} <=> \A i \in 1..9 : ~Fails(e, ctx)[EntrySkip[i]]
    BY <1>1
  <2>2. \A i \in 1..9 : \/ i = 1 \/ i = 2 \/ i = 3 \/ i = 4 \/ i = 5 \/ i = 6 \/ i = 7
                        \/ i = 8 \/ i = 9
    OBVIOUS
  <2>3. /\ EntrySkip[1] = "BadPeerId" /\ EntrySkip[2] = "SelfOrPartner"
        /\ EntrySkip[3] = "TooManyAddresses" /\ EntrySkip[4] = "BadAddress"
        /\ EntrySkip[5] = "TooManyFlags" /\ EntrySkip[6] = "NetworkMismatch"
        /\ EntrySkip[7] = "BadVia" /\ EntrySkip[8] = "OversizePayment"
        /\ EntrySkip[9] = "TooOld"
    BY DEF EntrySkip
  <2>4. 1 \in 1..9 /\ 2 \in 1..9 /\ 3 \in 1..9 /\ 4 \in 1..9 /\ 5 \in 1..9 /\ 6 \in 1..9
        /\ 7 \in 1..9 /\ 8 \in 1..9 /\ 9 \in 1..9
    OBVIOUS
  <2> HIDE DEF failed
  <2> QED
    BY <2>1, <2>2, <2>3, <2>4, ZenonT(30) DEF Wrong
<1>3. ASSUME failed # {} PROVE EntrySkip[Min(failed)] # None
  <2>1. Min(failed) \in DOMAIN EntrySkip
    <3>1. failed \in SUBSET Nat
      BY <1>1
    <3> HIDE DEF failed
    <3>2. Min(failed) \in failed
      BY <1>3, <3>1, LeastFailure
    <3> QED
      BY <3>2 DEF failed
  <2>2. EntrySkip[Min(failed)] \in ToSet(EntrySkip)
    BY <2>1 DEF ToSet
  <2> QED
    BY <2>2, RecordAssumption
<1> QED
  BY <1>2, <1>3 DEF validate

(* Whatever is wrong with a claim but its size, the entry is kept or skipped as
   it would be without one (entry.rs:230). *)
THEOREM VerdictIgnoresClaims == RecordSpec => []TwoVerdicts
<1>1. ASSUME RecordInv, NEW ctx \in Contexts, entry.payment # None, within_caps(entry.payment)
      PROVE  validate(entry, ctx) = validate([entry EXCEPT !.payment = None], ctx)
  <2> DEFINE bare == [entry EXCEPT !.payment = None]
  <2>1. /\ bare.peer_id = entry.peer_id /\ bare.addresses = entry.addresses
        /\ bare.network_id = entry.network_id /\ bare.last_seen = entry.last_seen
        /\ bare.via = entry.via /\ bare.flags = entry.flags /\ bare.payment = None
    BY <1>1 DEF RecordInv, Entries
  <2> HIDE DEF bare
  <2>2. Fails(entry, ctx) = Fails(bare, ctx)
    BY <1>1, <2>1 DEF Fails
  <2>3. validate(entry, ctx) = validate(bare, ctx)
    BY <2>2 DEF validate
  <2> QED
    BY <2>3 DEF bare
<1>2. RecordInv => TwoVerdicts
  BY <1>1 DEF TwoVerdicts
<1> QED
  BY <1>2, RecordInvariance, PTL

(* Whether the content is well formed is the same for every receiver of the
   network at every time; the rest of the verdict depends on the peer id and
   the age alone (entry.rs:247). *)
THEOREM VerdictInTwo == RecordSpec => []VerdictFactors
<1> DEFINE At(id, t) == [entry EXCEPT !.peer_id = id, !.last_seen = t]
           WellFormed(ctx) == \E id \in HexIds, c \in Contexts :
               c.network_id = ctx.network_id /\ validate(At(id, c.now), c) = None
           Bad == \/ Len(entry.addresses) > PEX_MAX_ADDRESSES
                  \/ \E a \in ToSet(entry.addresses) : ~is_valid(a)
                  \/ Len(entry.flags) > PEX_MAX_FLAGS
                  \/ \E f \in ToSet(entry.flags) : Len(f) > PEX_MAX_FLAG_LEN
                  \/ ~is_registered(entry.via)
                  \/ entry.payment # None /\ ~within_caps(entry.payment)
<1>1. ASSUME RecordInv, NEW id, NEW t
      PROVE  /\ At(id, t).peer_id = id /\ At(id, t).last_seen = t
             /\ At(id, t).addresses = entry.addresses /\ At(id, t).flags = entry.flags
             /\ At(id, t).network_id = entry.network_id /\ At(id, t).via = entry.via
             /\ At(id, t).payment = entry.payment
  BY <1>1 DEF RecordInv, Entries
<1> HIDE DEF At
<1>2. ASSUME RecordInv, NEW ctx \in Contexts, NEW id
      PROVE  validate(At(id, ctx.now), ctx) = None
                 <=> /\ id \in HexIds /\ id \notin {ctx.receiver, ctx.sender}
                     /\ entry.network_id = ctx.network_id /\ ~Bad
  <2>1. ctx.now \in Nat
    BY RecordAssumption
  <2>2. Wrong(At(id, ctx.now), ctx)
            <=> \/ id \notin HexIds \/ id \in {ctx.receiver, ctx.sender}
                \/ entry.network_id # ctx.network_id \/ Bad
    <3> DEFINE e == At(id, ctx.now)
    <3>1. /\ e.peer_id = id /\ e.last_seen = ctx.now
          /\ e.addresses = entry.addresses /\ e.flags = entry.flags
          /\ e.network_id = entry.network_id /\ e.via = entry.via /\ e.payment = entry.payment
      BY <1>1, <1>2
    <3> HIDE DEF e
    <3>2. ~Fails(e, ctx).TooOld
      <4>1. ~(ctx.now < ctx.now)
        BY <2>1
      <4> QED
        BY <3>1, <4>1 DEF Fails
    <3>3. Wrong(e, ctx)
              <=> \/ e.peer_id \notin HexIds \/ e.peer_id \in {ctx.receiver, ctx.sender}
                  \/ Len(e.addresses) > PEX_MAX_ADDRESSES
                  \/ \E a \in ToSet(e.addresses) : ~is_valid(a)
                  \/ Len(e.flags) > PEX_MAX_FLAGS
                  \/ \E f \in ToSet(e.flags) : Len(f) > PEX_MAX_FLAG_LEN
                  \/ e.network_id # ctx.network_id \/ ~is_registered(e.via)
                  \/ e.payment # None /\ ~within_caps(e.payment)
      BY <3>2 DEF Wrong, Fails
    <3> QED
      BY <3>1, <3>3 DEF e
  <2> QED
    BY <2>2, KeptWhen
<1>3. ASSUME RecordInv, NEW ctx \in Contexts
      PROVE  validate(entry, ctx) = None
                 <=> /\ entry.peer_id \in HexIds \ {ctx.receiver, ctx.sender}
                     /\ entry.network_id = ctx.network_id /\ ~Bad
                     /\ ctx.now <= entry.last_seen + PEX_MAX_ENTRY_AGE
  <2>1. ctx.now \in Nat /\ entry.last_seen \in Nat /\ PEX_MAX_ENTRY_AGE \in Nat
    BY <1>3, RecordAssumption DEF RecordInv, Entries
  <2>2. Wrong(entry, ctx)
            <=> \/ entry.peer_id \notin HexIds \/ entry.peer_id \in {ctx.receiver, ctx.sender}
                \/ entry.network_id # ctx.network_id \/ Bad
                \/ Fails(entry, ctx).TooOld
    BY DEF Wrong, Fails
  <2>3. Fails(entry, ctx).TooOld <=> ~(ctx.now <= entry.last_seen + PEX_MAX_ENTRY_AGE)
    <3>1. Fails(entry, ctx).TooOld
              <=> entry.last_seen < ctx.now /\ ctx.now - entry.last_seen > PEX_MAX_ENTRY_AGE
      BY DEF Fails
    <3>2. \A now, seen, age \in Nat :
              seen < now /\ now - seen > age <=> ~(now <= seen + age)
      OBVIOUS
    <3> QED
      BY <2>1, <3>1, <3>2
  <2> HIDE DEF Bad
  <2> QED
    BY <2>2, <2>3, KeptWhen
<1> HIDE DEF Bad
<1>4. ASSUME RecordInv, NEW ctx \in Contexts
      PROVE  validate(entry, ctx) = None
                 <=> /\ entry.peer_id \in HexIds \ {ctx.receiver, ctx.sender} /\ WellFormed(ctx)
                     /\ ctx.now <= entry.last_seen + PEX_MAX_ENTRY_AGE
  <2>1. ASSUME WellFormed(ctx) PROVE entry.network_id = ctx.network_id /\ ~Bad
    BY <1>2, <1>4, <2>1
  <2>2. ASSUME entry.peer_id \in HexIds \ {ctx.receiver, ctx.sender},
               entry.network_id = ctx.network_id, ~Bad
        PROVE  WellFormed(ctx)
    <3>1. validate(At(entry.peer_id, ctx.now), ctx) = None
      BY <1>2, <1>4, <2>2
    <3> QED
      BY <2>2, <3>1
  <2> HIDE DEF WellFormed
  <2> QED
    BY <1>3, <1>4, <2>1, <2>2
<1>5. RecordInv => VerdictFactors
  BY <1>4 DEF VerdictFactors, At
<1> QED
  BY <1>5, RecordInvariance, PTL

===============================================================================
