-------------------------- MODULE LedgerPeersProofs --------------------------
(* Proofs about the pure part of discovery: the lists it builds, the map of *)
(* a PeerSelector, and the conversions of relays.                           *)
EXTENDS LedgerPeers, FiniteSetTheorems, TLAPS

(* Induction over the naturals is used in this form: a set of naturals that *)
(* is not empty (the counterexamples) has a least element.                  *)
LEMMA LeastNatural ==
  ASSUME NEW T \in SUBSET Nat, T # {}
  PROVE  \E m \in T : \A k \in T : m <= k
<1>1. PICK m \in T : \A k \in T : ~(<<k, m>> \in OpToRel(<, Nat))
  BY NatLessThanWellFounded, WFMin, Zenon
<1>2. \A k \in T : ~(k < m)
  BY <1>1, Zenon DEF OpToRel
<1> QED
  BY <1>2

(* The maximum of a bounded set. *)
LEMMA MaxBounds ==
  ASSUME NEW n \in Nat, NEW S \in SUBSET (0..n), S # {}
  PROVE  Max(S) \in S /\ \A y \in S : y <= Max(S)
<1> DEFINE T == {k \in Nat : n - k \in S}
<1>1. T \in SUBSET Nat /\ T # {}
  <2>1. PICK x \in S : TRUE
    BY Zenon
  <2>2. n - x \in Nat /\ n - (n - x) = x
    OBVIOUS
  <2> QED
    BY Zenon, <2>1, <2>2
<1>2. PICK m \in T : \A k \in T : m <= k
  BY <1>1, LeastNatural, Zenon
<1>3. n - m \in S /\ \A y \in S : n - m >= y
  <2>1. ASSUME NEW y \in S PROVE n - y \in T
    BY n - (n - y) = y
  <2> QED
    BY <1>2, <2>1
<1> QED
  BY <1>3, Zenon DEF Max

-----------------------------------------------------------------------------
(* AppendAll: a list of lists over S becomes a list over S. *)

appends(g, lists, n) ==
  g = [i \in 0..n |-> IF i = 0 THEN <<>> ELSE g[i - 1] \o lists[i]]

LEMMA AppendExists ==
  ASSUME NEW lists, NEW n \in Nat
  PROVE  \E g : appends(g, lists, n)
<1> DEFINE T == {k \in Nat : ~\E g : appends(g, lists, k)}
<1> SUFFICES ASSUME T # {} PROVE FALSE
  BY Zenon
<1>1. PICK m \in T : \A k \in T : m <= k
  BY LeastNatural, Zenon
<1>2. m # 0
  <2>1. appends([i \in 0..0 |-> <<>>], lists, 0)
    BY DEF appends
  <2> QED
    BY Zenon, <2>1
<1>3. m - 1 \in Nat /\ m - 1 \notin T
  BY <1>1, <1>2
<1>4. PICK g : appends(g, lists, m - 1)
  BY Zenon, <1>3
<1> DEFINE h == [i \in 0..m |-> IF i < m THEN g[i] ELSE g[m - 1] \o lists[m]]
<1>5. ASSUME NEW i \in 0..m PROVE h[i] = IF i = 0 THEN <<>> ELSE h[i - 1] \o lists[i]
  <2>1. CASE i < m
    <3>1. i \in 0..(m - 1) /\ (i # 0 => i - 1 \in 0..m /\ i - 1 < m)
      BY <2>1, <1>3
    <3>2. g[i] = IF i = 0 THEN <<>> ELSE g[i - 1] \o lists[i]
      BY <3>1, <1>4, Zenon DEF appends
    <3> QED
      BY <3>1, <3>2, <2>1, Zenon
  <2>2. CASE i = m
    BY <2>2, <1>3
  <2> QED
    BY <2>1, <2>2
<1>6. appends(h, lists, m)
  BY <1>5, Zenon DEF appends
<1> QED
  BY Zenon, <1>6

LEMMA AppendTyped ==
  ASSUME NEW S, NEW lists \in Seq(Seq(S)) PROVE AppendAll(lists) \in Seq(S)
<1> DEFINE n == Len(lists)
           F == CHOOSE g : appends(g, lists, n)
           T == {k \in 0..n : F[k] \notin Seq(S)}
<1>1. n \in Nat /\ \A i \in 1..n : lists[i] \in Seq(S)
  OBVIOUS
<1>2. appends(F, lists, n)
  BY <1>1, AppendExists, Zenon
<1>3. AppendAll(lists) = F[n]
  BY Zenon DEF AppendAll, appends
<1> HIDE DEF F
<1>4. \A i \in 0..n : F[i] = IF i = 0 THEN <<>> ELSE F[i - 1] \o lists[i]
  BY <1>2, Zenon DEF appends
<1>5. T = {}
  <2> SUFFICES ASSUME T # {} PROVE FALSE
    BY Zenon
  <2>0. T \in SUBSET Nat
    BY <1>1
  <2>1. PICK m \in T : \A k \in T : m <= k
    BY <2>0, LeastNatural, Zenon
  <2>2. m # 0
    <3>1. F[0] = <<>> /\ <<>> \in Seq(S)
      BY <1>1, <1>4
    <3> QED
      BY <2>1, <3>1, Zenon
  <2>3. m - 1 \in 0..n /\ m - 1 \notin T /\ m \in 1..n
    BY <2>1, <2>2, <1>1
  <2>4. F[m] = F[m - 1] \o lists[m] /\ F[m - 1] \in Seq(S) /\ lists[m] \in Seq(S)
    BY <2>1, <2>2, <2>3, <1>1, <1>4, Zenon
  <2>5. F[m - 1] \o lists[m] \in Seq(S)
    BY <2>4
  <2> QED
    BY <2>1, <2>4, <2>5, Zenon
<1> QED
  BY <1>1, <1>3, <1>5

-----------------------------------------------------------------------------
(* Sorting: OrderedBy lists a finite set in the order of a relation. *)

StrictOrder(S, R) ==
  /\ \A x \in S : <<x, x>> \notin R
  /\ \A x, y \in S : x # y => <<x, y>> \in R \/ <<y, x>> \in R
  /\ \A x, y, z \in S : <<x, y>> \in R /\ <<y, z>> \in R => <<x, z>> \in R

Down(S, R, x) == {y \in S : <<y, x>> \in R}

(* OrderedBy with the relation as a set of pairs. *)
Ordered(S, R) ==
  LET ranked == {<<Cardinality(Down(S, R, x)) + 1, x>> : x \in S}
      n == Cardinality(S)
  IN SubSeq([k \in 1..n |-> (CHOOSE r \in ranked : r[1] = k)[2]], 1, n)

LEMMA DownGrows ==
  ASSUME NEW S, IsFiniteSet(S), NEW R, StrictOrder(S, R), NEW x \in S, NEW y \in S, <<x, y>> \in R
  PROVE  /\ Cardinality(Down(S, R, x)) \in Nat /\ Cardinality(Down(S, R, y)) \in Nat
         /\ Cardinality(Down(S, R, x)) < Cardinality(Down(S, R, y))
         /\ Cardinality(Down(S, R, y)) < Cardinality(S) /\ Cardinality(S) \in Nat
<1> DEFINE X == Down(S, R, x)
           Y == Down(S, R, y)
<1>1. /\ X \in SUBSET S /\ Y \in SUBSET S /\ x \notin X /\ y \notin Y /\ x \in Y
      /\ \A z \in X : z \in Y
  BY Zenon DEF StrictOrder, Down
<1>2. IsFiniteSet(X) /\ IsFiniteSet(Y)
  BY <1>1, FS_Subset, Zenon
<1>3. /\ Cardinality(X \cup {x}) = Cardinality(X) + 1
      /\ Cardinality(Y \cup {y}) = Cardinality(Y) + 1
  <2> HIDE DEF X, Y
  <2>1. Cardinality(X \cup {x}) = Cardinality(X) + 1
    BY <1>1, <1>2, FS_AddElement, Zenon
  <2>2. Cardinality(Y \cup {y}) = Cardinality(Y) + 1
    BY <1>1, <1>2, FS_AddElement, Zenon
  <2> QED
    BY Zenon, <2>1, <2>2
<1>4. X \cup {x} \in SUBSET Y /\ Y \cup {y} \in SUBSET S
  BY <1>1, Zenon
<1>5. Cardinality(X \cup {x}) <= Cardinality(Y) /\ Cardinality(Y \cup {y}) <= Cardinality(S)
  BY <1>2, <1>4, FS_Subset, Zenon
<1>6. Cardinality(X) \in Nat /\ Cardinality(Y) \in Nat /\ Cardinality(S) \in Nat
  BY <1>2, FS_CardinalityType, Zenon
<1> HIDE DEF X, Y
<1>7. Cardinality(X) < Cardinality(Y) /\ Cardinality(Y) < Cardinality(S)
  BY <1>3, <1>5, <1>6
<1> QED
  BY Zenon, <1>6, <1>7 DEF X, Y

(* The rank of an element is its place in the list. *)
LEMMA OrderedList ==
  ASSUME NEW S, IsFiniteSet(S), NEW R, StrictOrder(S, R)
  PROVE  LET o == Ordered(S, R)
             n == Cardinality(S) IN
         /\ n \in Nat /\ o \in Seq(S) /\ Len(o) = n /\ DOMAIN o = 1..n
         /\ \A k \in 1..n : o[k] \in S /\ Cardinality(Down(S, R, o[k])) = k - 1
         /\ \A x \in S : \E k \in 1..n : o[k] = x
         /\ \A j, k \in 1..n : j < k <=> <<o[j], o[k]>> \in R
<1> DEFINE n == Cardinality(S)
           rank == [x \in S |-> Cardinality(Down(S, R, x)) + 1]
           ranked == {<<Cardinality(Down(S, R, x)) + 1, x>> : x \in S}
           o == [k \in 1..n |-> (CHOOSE r \in ranked : r[1] = k)[2]]
<1>1. n \in Nat
  BY FS_CardinalityType, Zenon
<1>2. ASSUME NEW x \in S
      PROVE  /\ Cardinality(Down(S, R, x)) \in Nat /\ rank[x] \in 1..n
             /\ rank[x] = Cardinality(Down(S, R, x)) + 1
  <2>1. Down(S, R, x) \in SUBSET S /\ x \notin Down(S, R, x)
    BY Zenon DEF StrictOrder, Down
  <2>2. IsFiniteSet(Down(S, R, x))
    BY <2>1, FS_Subset, Zenon
  <2>3. Cardinality(Down(S, R, x) \cup {x}) = Cardinality(Down(S, R, x)) + 1
    BY <2>1, <2>2, FS_AddElement, Zenon
  <2>4. Down(S, R, x) \cup {x} \in SUBSET S
    BY <2>1, Zenon
  <2>5. Cardinality(Down(S, R, x) \cup {x}) <= n
    BY <2>4, FS_Subset, Zenon
  <2>6. Cardinality(Down(S, R, x)) \in Nat
    BY <2>2, FS_CardinalityType, Zenon
  <2> HIDE DEF n
  <2> QED
    BY <2>3, <2>5, <2>6, <1>1
<1>3. \A x, y \in S : <<x, y>> \in R => rank[x] < rank[y]
  <2> SUFFICES ASSUME NEW x \in S, NEW y \in S, <<x, y>> \in R PROVE rank[x] < rank[y]
    BY Zenon
  <2>1. Cardinality(Down(S, R, x)) < Cardinality(Down(S, R, y))
    BY DownGrows, Zenon
  <2> QED
    BY <2>1, <1>2
<1> HIDE DEF n, rank
<1>4. \A x, y \in S : rank[x] = rank[y] => x = y
  <2> SUFFICES ASSUME NEW x \in S, NEW y \in S, rank[x] = rank[y], x # y PROVE FALSE
    BY Zenon
  <2>1. rank[x] < rank[y] \/ rank[y] < rank[x]
    BY <1>3, Zenon DEF StrictOrder
  <2>2. rank[x] \in Int /\ rank[y] \in Int
    BY <1>2
  <2> QED
    BY <2>1, <2>2
<1>5. rank \in Injection(S, 1..n)
  <2>1. rank \in [S -> 1..n]
    <3>1. rank = [x \in S |-> rank[x]]
      BY Zenon DEF rank
    <3> QED
      BY <3>1, <1>2, Zenon
  <2> QED
    BY <2>1, <1>4, Zenon DEF Injection, IsInjective
<1>6. rank \in Surjection(S, 1..n)
  <2>1. IsFiniteSet(1..n) /\ Cardinality(1..n) = n
    BY <1>1, FS_Interval
  <2> QED
    BY <2>1, <1>5, FS_Injection, Zenon DEF n
<1>7. ASSUME NEW k \in 1..n PROVE \E x \in S : rank[x] = k /\ o[k] = x
  <2>1. PICK x \in S : rank[x] = k
    BY <1>6, Zenon DEF Surjection
  <2>2. \A r : r \in ranked /\ r[1] = k <=> r = <<k, x>>
    <3>1. \A y \in S : <<rank[y], y>>[1] = k <=> y = x
      BY Zenon, <2>1, <1>4
    <3>2. ranked = {<<rank[y], y>> : y \in S}
      BY <1>2, Zenon
    <3> HIDE DEF ranked
    <3> QED
      BY Zenon, <3>1, <3>2, <2>1
  <2>3. (CHOOSE r \in ranked : r[1] = k) = <<k, x>>
    BY <2>2, Zenon
  <2>4. o[k] = x
    <3> HIDE DEF ranked
    <3>1. o[k] = (CHOOSE r \in ranked : r[1] = k)[2]
      BY Zenon
    <3> HIDE DEF o
    <3>2. o[k] = <<k, x>>[2]
      BY <3>1, <2>3, Zenon
    <3> QED
      BY Zenon, <3>2
  <2> QED
    BY <2>1, <2>4, Zenon
<1>8. o \in [1..n -> S]
  BY Zenon, <1>7
<1>9. Ordered(S, R) = o
  <2>1. Ordered(S, R) = SubSeq(o, 1, n)
    BY Zenon DEF Ordered, n
  <2> HIDE DEF o
  <2>2. o \in Seq(S) /\ Len(o) = n
    BY <1>1, <1>8
  <2>3. SubSeq(o, 1, n) = o
    BY <2>2, <1>1
  <2> QED
    BY Zenon, <2>1, <2>3
<1> HIDE DEF o
<1>10. o \in Seq(S) /\ Len(o) = n /\ DOMAIN o = 1..n
  BY <1>1, <1>8
<1>11. \A k \in 1..n : o[k] \in S /\ rank[o[k]] = k
  BY Zenon, <1>7
<1>12. \A x \in S : o[rank[x]] = x /\ rank[x] \in 1..n
  BY Zenon, <1>2, <1>4, <1>11
<1>13. \A j, k \in 1..n : j < k <=> <<o[j], o[k]>> \in R
  <2> SUFFICES ASSUME NEW j \in 1..n, NEW k \in 1..n PROVE j < k <=> <<o[j], o[k]>> \in R
    BY Zenon
  <2>1. <<o[j], o[k]>> \in R => j < k
    BY Zenon, <1>3, <1>11
  <2>2. <<o[k], o[j]>> \in R => k < j
    BY Zenon, <1>3, <1>11
  <2>3. j # k => <<o[j], o[k]>> \in R \/ <<o[k], o[j]>> \in R
    BY <1>11, Zenon DEF StrictOrder
  <2> QED
    BY <2>1, <2>2, <2>3
<1>14. \A k \in 1..n : Cardinality(Down(S, R, o[k])) = k - 1
  BY <1>2, <1>11
<1> QED
  BY Zenon, <1>1, <1>9, <1>10, <1>11, <1>12, <1>13, <1>14 DEF n

-----------------------------------------------------------------------------
(* Sums: SumFunctionOnSet adds up a function over a finite set, in whatever *)
(* order.                                                                   *)

pick(s) == CHOOSE x \in s : TRUE

sumsTo(g, f, S, n) ==
  \A s \in SUBSET S : Cardinality(s) <= n =>
    g[s] = IF s = {} THEN 0 ELSE f[pick(s)] + g[s \ {pick(s)}]

sums(g, f, S) ==
  g = [s \in SUBSET S |-> IF s = {} THEN 0 ELSE f[pick(s)] + g[s \ {pick(s)}]]

LEMMA Smaller ==
  ASSUME NEW S, IsFiniteSet(S), NEW s \in SUBSET S
  PROVE  /\ IsFiniteSet(s) /\ Cardinality(s) \in Nat /\ Cardinality(s) <= Cardinality(S)
         /\ Cardinality(s) = 0 <=> s = {}
         /\ \A x \in s : /\ s \ {x} \in SUBSET S /\ Cardinality(s \ {x}) = Cardinality(s) - 1
                         /\ Cardinality(s) # 0
         /\ s # {} => pick(s) \in s
<1>1. IsFiniteSet(s) /\ Cardinality(s) <= Cardinality(S)
  BY FS_Subset, Zenon
<1>2. Cardinality(s) \in Nat
  BY <1>1, FS_CardinalityType, Zenon
<1>3. Cardinality(s) = 0 <=> s = {}
  BY <1>1, FS_EmptySet, Zenon
<1>4. ASSUME NEW x \in s
      PROVE  /\ s \ {x} \in SUBSET S /\ Cardinality(s \ {x}) = Cardinality(s) - 1
             /\ Cardinality(s) # 0
  <2>1. Cardinality(s \ {x}) = Cardinality(s) - 1
    BY <1>1, FS_RemoveElement, Zenon
  <2> QED
    BY <2>1, <1>3, Zenon
<1>5. s # {} => pick(s) \in s
  BY Zenon DEF pick
<1> QED
  BY <1>1, <1>2, <1>3, <1>4, <1>5, Zenon

LEMMA SumExists ==
  ASSUME NEW S, IsFiniteSet(S), NEW f PROVE \E g : sums(g, f, S)
<1> DEFINE good(g, k) == g = [s \in SUBSET S |-> g[s]] /\ sumsTo(g, f, S, k)
           T == {k \in Nat : ~\E g : good(g, k)}
<1>1. T = {}
  <2> SUFFICES ASSUME T # {} PROVE FALSE
    BY Zenon
  <2>1. PICK m \in T : \A k \in T : m <= k
    BY LeastNatural, Zenon
  <2>2. m # 0
    <3> SUFFICES ASSUME m = 0 PROVE FALSE
      BY Zenon
    <3> DEFINE z == [s \in SUBSET S |-> 0]
    <3>1. ASSUME NEW s \in SUBSET S, Cardinality(s) <= 0 PROVE s = {} /\ z[s] = 0
      BY <3>1, Smaller
    <3>2. good(z, 0)
      BY <3>1, Zenon DEF sumsTo
    <3>3. 0 \in T
      BY <2>1, Zenon
    <3> HIDE DEF good
    <3> QED
      BY <3>2, <3>3, Zenon
  <2>3. m \in Nat /\ m - 1 \in Nat /\ m - 1 \notin T
    <3>1. m \in Nat
      BY <2>1, Zenon
    <3> HIDE DEF T
    <3> QED
      BY <3>1, <2>1, <2>2
  <2>4. PICK g : good(g, m - 1)
    BY <2>3, Zenon
  <2> DEFINE h == [s \in SUBSET S |-> IF Cardinality(s) = m THEN f[pick(s)] + g[s \ {pick(s)}] ELSE g[s]]
  <2>5. ASSUME NEW s \in SUBSET S, Cardinality(s) <= m
        PROVE  h[s] = IF s = {} THEN 0 ELSE f[pick(s)] + h[s \ {pick(s)}]
    <3>1. /\ Cardinality(s) \in Nat /\ (Cardinality(s) = 0 <=> s = {})
          /\ s # {} => /\ s \ {pick(s)} \in SUBSET S
                       /\ Cardinality(s \ {pick(s)}) = Cardinality(s) - 1
      BY Smaller, Zenon
    <3>2. CASE s = {}
      <4>1. Cardinality(s) # m /\ Cardinality(s) <= m - 1
        BY <3>1, <3>2, <2>2, <2>3
      <4> QED
        BY <4>1, <3>2, <2>4, Zenon DEF sumsTo
    <3>3. CASE s # {}
      <4>1. /\ Cardinality(s \ {pick(s)}) # m /\ (Cardinality(s) # m => Cardinality(s) <= m - 1)
        BY <3>1, <3>3, <2>3, <2>5
      <4>2. h[s \ {pick(s)}] = g[s \ {pick(s)}]
        BY <3>1, <3>3, <4>1, Zenon
      <4>3. Cardinality(s) # m => g[s] = f[pick(s)] + g[s \ {pick(s)}]
        BY <3>3, <4>1, <2>4, Zenon DEF sumsTo
      <4> QED
        BY <4>2, <4>3, <3>3, Zenon
    <3> QED
      BY <3>2, <3>3, Zenon
  <2>6. h = [s \in SUBSET S |-> h[s]]
    BY Zenon
  <2> HIDE DEF h
  <2>7. good(h, m)
    BY <2>5, <2>6, Zenon DEF sumsTo
  <2> HIDE DEF good
  <2> QED
    BY <2>7, <2>1, Zenon
<1>2. Cardinality(S) \in Nat
  BY FS_CardinalityType, Zenon
<1>3. PICK g : good(g, Cardinality(S))
  BY <1>1, <1>2, Zenon
<1>4. \A s \in SUBSET S : g[s] = IF s = {} THEN 0 ELSE f[pick(s)] + g[s \ {pick(s)}]
  <2>1. \A s \in SUBSET S : Cardinality(s) <= Cardinality(S)
    BY Smaller, Zenon
  <2> QED
    BY <2>1, <1>3, Zenon DEF sumsTo
<1>5. sums(g, f, S)
  BY <1>3, <1>4, Zenon DEF sums
<1> QED
  BY <1>5, Zenon

(* Sums over the subsets of one finite set agree, whichever set they are    *)
(* computed from.                                                           *)
LEMMA SumUnique ==
  ASSUME NEW S, IsFiniteSet(S), NEW U \in SUBSET S, NEW f, NEW g, NEW h,
         sums(g, f, S), sums(h, f, U)
  PROVE  \A s \in SUBSET U : h[s] = g[s]
<1> DEFINE T == {k \in Nat : \E s \in SUBSET U : Cardinality(s) = k /\ h[s] # g[s]}
<1>1. T = {}
  <2> SUFFICES ASSUME T # {} PROVE FALSE
    BY Zenon
  <2>1. PICK m \in T : \A k \in T : m <= k
    BY LeastNatural, Zenon
  <2>2. PICK s \in SUBSET U : Cardinality(s) = m /\ h[s] # g[s]
    BY <2>1, Zenon
  <2>3. s \in SUBSET S
    BY Zenon
  <2>4. /\ Cardinality(s) \in Nat
        /\ s # {} => /\ s \ {pick(s)} \in SUBSET U /\ s \ {pick(s)} \in SUBSET S
                     /\ Cardinality(s \ {pick(s)}) = Cardinality(s) - 1
                     /\ Cardinality(s) # 0
    BY <2>3, Smaller, Zenon
  <2>5. /\ g[s] = IF s = {} THEN 0 ELSE f[pick(s)] + g[s \ {pick(s)}]
        /\ h[s] = IF s = {} THEN 0 ELSE f[pick(s)] + h[s \ {pick(s)}]
    <3>1. g[s] = IF s = {} THEN 0 ELSE f[pick(s)] + g[s \ {pick(s)}]
      BY <2>3, Zenon DEF sums
    <3>2. h[s] = IF s = {} THEN 0 ELSE f[pick(s)] + h[s \ {pick(s)}]
      BY Zenon DEF sums
    <3> QED
      BY <3>1, <3>2, Zenon
  <2>6. s # {}
    BY <2>2, <2>5, Zenon
  <2>7. Cardinality(s \ {pick(s)}) \in Nat /\ ~(m <= Cardinality(s \ {pick(s)}))
    BY <2>2, <2>4, <2>6
  <2>8. h[s \ {pick(s)}] = g[s \ {pick(s)}]
    BY <2>1, <2>4, <2>6, <2>7, Zenon
  <2> QED
    BY <2>2, <2>5, <2>6, <2>8, Zenon
<1>2. ASSUME NEW s \in SUBSET U PROVE h[s] = g[s]
  <2>1. s \in SUBSET S
    BY Zenon
  <2>2. Cardinality(s) \in Nat
    BY <2>1, Smaller, Zenon
  <2> QED
    BY <2>2, <1>1, Zenon
<1> QED
  BY <1>2, Zenon

LEMMA SumIs ==
  ASSUME NEW S, IsFiniteSet(S), NEW f
  PROVE  \E g : sums(g, f, S) /\ \A U \in SUBSET S : SumFunctionOnSet(f, U) = g[U]
<1>1. PICK g : sums(g, f, S)
  BY SumExists, Zenon
<1>2. ASSUME NEW U \in SUBSET S PROVE SumFunctionOnSet(f, U) = g[U]
  <2> DEFINE h == CHOOSE k : sums(k, f, U)
  <2>1. IsFiniteSet(U) /\ U \in SUBSET U
    BY FS_Subset, Zenon
  <2>2. sums(h, f, U)
    BY <2>1, SumExists, Zenon
  <2>3. SumFunctionOnSet(f, U) = h[U]
    BY Zenon DEF SumFunctionOnSet, FoldFunctionOnSet, MapThenFoldSet, sums, pick
  <2> HIDE DEF h
  <2>4. \A s \in SUBSET U : h[s] = g[s]
    BY <2>2, <1>1, SumUnique
  <2>5. h[U] = g[U]
    BY <2>1, <2>4, Zenon
  <2> QED
    BY <2>3, <2>5, Zenon
<1> QED
  BY <1>1, <1>2, Zenon

(* The sum is a natural number, and any element can be taken out first. *)
LEMMA SumLaw ==
  ASSUME NEW S, IsFiniteSet(S), NEW f, \A x \in S : f[x] \in Nat
  PROVE  /\ SumFunctionOnSet(f, {}) = 0
         /\ \A U \in SUBSET S :
              /\ SumFunctionOnSet(f, U) \in Nat
              /\ \A x \in U : /\ SumFunctionOnSet(f, U) = f[x] + SumFunctionOnSet(f, U \ {x})
                              /\ f[x] <= SumFunctionOnSet(f, U)
<1>1. PICK g : sums(g, f, S) /\ \A U \in SUBSET S : SumFunctionOnSet(f, U) = g[U]
  BY SumIs
<1>2. ASSUME NEW U \in SUBSET S
      PROVE  g[U] = IF U = {} THEN 0 ELSE f[pick(U)] + g[U \ {pick(U)}]
  BY Zenon, <1>1 DEF sums
<1> DEFINE lawful(U) == g[U] \in Nat /\ \A x \in U : g[U] = f[x] + g[U \ {x}]
           T == {k \in Nat : \E U \in SUBSET S : Cardinality(U) = k /\ ~lawful(U)}
<1>3. T = {}
  <2> SUFFICES ASSUME T # {} PROVE FALSE
    BY Zenon
  <2>1. PICK m \in T : \A k \in T : m <= k
    BY Zenon, LeastNatural
  <2>2. PICK U \in SUBSET S : Cardinality(U) = m /\ ~lawful(U)
    BY Zenon, <2>1
  <2>3. ASSUME NEW V \in SUBSET S, NEW y \in U, V = U \ {y} PROVE lawful(V)
    <3>1. Cardinality(V) = m - 1 /\ m \in Nat /\ m # 0
      BY Zenon, <2>2, <2>3, Smaller
    <3>2. Cardinality(V) \in Nat /\ ~(m <= Cardinality(V))
      <4> HIDE DEF lawful, T
      <4> QED
        BY <3>1
    <3> HIDE DEF lawful
    <3> QED
      BY Zenon, <2>1, <3>2
  <2> DEFINE c == pick(U)
  <2>4. CASE U = {}
    <3>1. g[U] = 0
      BY Zenon, <1>2, <2>4
    <3>2. g[U] \in Nat
      BY <3>1
    <3> QED
      BY Zenon, <2>2, <2>4, <3>2
  <2>5. CASE U # {}
    <3>1. c \in U /\ U \ {c} \in SUBSET S
      BY Zenon, <2>5, Smaller
    <3>2. lawful(U \ {c})
      <4> HIDE DEF lawful, c
      <4> QED
        BY Zenon, <2>3, <3>1
    <3>3. g[U] = f[c] + g[U \ {c}]
      BY Zenon, <1>2, <2>5
    <3> HIDE DEF c
    <3>4. f[c] \in Nat /\ g[U \ {c}] \in Nat
      BY Zenon, <3>1, <3>2
    <3>5. g[U] \in Nat
      BY <3>3, <3>4
    <3>6. ASSUME NEW x \in U, x # c PROVE g[U] = f[x] + g[U \ {x}]
      <4> DEFINE W == (U \ {c}) \ {x}
      <4>1. U \ {x} \in SUBSET S /\ c \in U \ {x} /\ x \in U \ {c} /\ W = (U \ {x}) \ {c}
        BY Zenon, <3>1, <3>6
      <4>2. lawful(U \ {x})
        <5> HIDE DEF lawful
        <5> QED
          BY Zenon, <2>3, <4>1
      <4>3. g[U \ {x}] = f[c] + g[W]
        BY Zenon, <4>1, <4>2
      <4>4. g[U \ {c}] = f[x] + g[W]
        BY Zenon, <4>1, <3>2
      <4>5. f[x] \in Nat
        BY Zenon
      <4>6. g[W] \in Nat
        <5>1. W \in SUBSET S /\ W = (U \ {c}) \ {x}
          BY Zenon
        <5>2. lawful(W)
          <6>1. Cardinality(W) = m - 2 /\ m - 2 \in Nat /\ m \in Nat
            <7>1. Cardinality(U \ {c}) = m - 1 /\ m \in Nat /\ m # 0
              BY Zenon, <2>2, <3>1, Smaller
            <7>2. Cardinality(W) = Cardinality(U \ {c}) - 1 /\ Cardinality(U \ {c}) # 0
              <8>1. ASSUME NEW V \in SUBSET S, x \in V
                    PROVE  Cardinality(V \ {x}) = Cardinality(V) - 1 /\ Cardinality(V) # 0
                BY Zenon, <8>1, Smaller
              <8> QED
                BY Zenon, <3>1, <4>1, <8>1
            <7> HIDE DEF W, lawful, T
            <7> QED
              BY <7>1, <7>2
          <6>2. Cardinality(W) \in Nat /\ ~(m <= Cardinality(W))
            <7> HIDE DEF W, lawful, T
            <7> QED
              BY <6>1
          <6> HIDE DEF lawful, W
          <6> QED
            BY Zenon, <2>1, <5>1, <6>2
        <5> QED
          BY Zenon, <5>2
      <4> HIDE DEF W, lawful, T
      <4>7. f[c] + (f[x] + g[W]) = f[x] + (f[c] + g[W])
        BY <3>4, <4>5, <4>6
      <4> QED
        BY Zenon, <3>3, <4>3, <4>4, <4>7
    <3>7. lawful(U)
      BY Zenon, <3>3, <3>5, <3>6
    <3> QED
      BY Zenon, <2>2, <3>7
  <2> QED
    BY Zenon, <2>4, <2>5
<1>4. ASSUME NEW U \in SUBSET S PROVE lawful(U)
  <2>1. Cardinality(U) \in Nat
    BY Zenon, Smaller
  <2> HIDE DEF lawful
  <2> QED
    BY Zenon, <1>3, <2>1
<1>5. ASSUME NEW U \in SUBSET S, NEW x \in U PROVE f[x] <= g[U]
  <2>1. U \ {x} \in SUBSET S /\ f[x] \in Nat
    BY Zenon
  <2>2. g[U \ {x}] \in Nat /\ g[U] = f[x] + g[U \ {x}]
    BY Zenon, <1>4, <2>1
  <2> HIDE DEF lawful, T
  <2> QED
    BY <2>1, <2>2
<1>6. g[{}] = 0
  BY Zenon, <1>2
<1> QED
  BY Zenon, <1>1, <1>4, <1>5, <1>6

-----------------------------------------------------------------------------
(* What the conversions return *)

LedgerRelay ==
  [kind : {"", "name", "srv", "address"}, srvName : Nat, hostname : Nat, port : Nat,
   ipv4 : Nat, ipv6 : Nat]
Entry == [pool : Nat, stake : Nat, relays : Seq(LedgerRelay)]
PeerFrom(source) ==
  [source : {source}, host : Nat, port : Nat, addr : Nat \X Nat, pool : Nat, stake : Nat]

(* A list made from another one, element by element. *)
LEMMA MapTyped ==
  ASSUME NEW S, NEW s \in Seq(S), NEW T, NEW f, f = [i \in DOMAIN s |-> f[i]],
         \A i \in DOMAIN s : f[i] \in T
  PROVE  f \in Seq(T) /\ Len(f) = Len(s) /\ DOMAIN f = DOMAIN s
<1>1. DOMAIN s = 1..Len(s) /\ Len(s) \in Nat
  OBVIOUS
<1>2. f \in [1..Len(s) -> T]
  BY Zenon, <1>1
<1> QED
  BY <1>1, <1>2

RelayOf(kind, srvName, hostname, port, ipv4, ipv6) ==
  [kind |-> kind, srvName |-> srvName, hostname |-> hostname, port |-> port,
   ipv4 |-> ipv4, ipv6 |-> ipv6]

LEMMA RelayFields ==
  ASSUME NEW k, NEW s, NEW h, NEW p, NEW a, NEW b, NEW relay, relay = RelayOf(k, s, h, p, a, b)
  PROVE  /\ relay.kind = k /\ relay.srvName = s /\ relay.hostname = h /\ relay.port = p
         /\ relay.ipv4 = a /\ relay.ipv6 = b
         /\ \A x : [relay EXCEPT !.kind = x] = RelayOf(x, s, h, p, a, b)
         /\ \A x : [relay EXCEPT !.srvName = x] = RelayOf(k, x, h, p, a, b)
         /\ \A x : [relay EXCEPT !.hostname = x] = RelayOf(k, s, x, p, a, b)
         /\ \A x : [relay EXCEPT !.port = x] = RelayOf(k, s, h, x, a, b)
         /\ \A x : [relay EXCEPT !.ipv4 = x] = RelayOf(k, s, h, p, x, b)
         /\ \A x : [relay EXCEPT !.ipv6 = x] = RelayOf(k, s, h, p, a, x)
<1>1. /\ relay.kind = k /\ relay.srvName = s /\ relay.hostname = h /\ relay.port = p
      /\ relay.ipv4 = a /\ relay.ipv6 = b
  BY Zenon DEF RelayOf
<1>2. ASSUME NEW x PROVE [relay EXCEPT !.kind = x] = RelayOf(x, s, h, p, a, b)
  BY DEF RelayOf
<1>3. ASSUME NEW x PROVE [relay EXCEPT !.srvName = x] = RelayOf(k, x, h, p, a, b)
  BY DEF RelayOf
<1>4. ASSUME NEW x PROVE [relay EXCEPT !.hostname = x] = RelayOf(k, s, x, p, a, b)
  BY DEF RelayOf
<1>5. ASSUME NEW x PROVE [relay EXCEPT !.port = x] = RelayOf(k, s, h, x, a, b)
  BY DEF RelayOf
<1>6. ASSUME NEW x PROVE [relay EXCEPT !.ipv4 = x] = RelayOf(k, s, h, p, x, b)
  BY DEF RelayOf
<1>7. ASSUME NEW x PROVE [relay EXCEPT !.ipv6 = x] = RelayOf(k, s, h, p, a, x)
  BY DEF RelayOf
<1> QED
  BY Zenon, <1>1, <1>2, <1>3, <1>4, <1>5, <1>6, <1>7

LEMMA RelayTyped ==
  ASSUME NEW k \in {"", "name", "srv", "address"}, NEW s \in Nat, NEW h \in Nat, NEW p \in Nat,
         NEW a \in Nat, NEW b \in Nat
  PROVE  RelayOf(k, s, h, p, a, b) \in LedgerRelay
  BY Zenon DEF RelayOf, LedgerRelay

(* The fields that the conversions fill in, one after the other. *)
FillIPv4(relay, k, p, a) == [relay EXCEPT !.kind = k, !.port = p, !.ipv4 = a]
FillIPv6(relay, k, p, b) == [relay EXCEPT !.kind = k, !.port = p, !.ipv6 = b]
FillName(relay, k, p, h) == [relay EXCEPT !.kind = k, !.port = p, !.hostname = h]
FillSRV(relay, k, s) == [relay EXCEPT !.kind = k, !.srvName = s]
FillAll(relay, p, h, a, b) ==
  [relay EXCEPT !.port = p, !.hostname = h, !.ipv4 = a, !.ipv6 = b]

LEMMA RelayFilled ==
  ASSUME NEW relay, NEW e, relay = RelayOf(e, 0, 0, 0, 0, 0),
         NEW k, NEW s, NEW h, NEW p, NEW a, NEW b
  PROVE  /\ FillIPv4(relay, k, p, a) = RelayOf(k, 0, 0, p, a, 0)
         /\ FillIPv6(relay, k, p, b) = RelayOf(k, 0, 0, p, 0, b)
         /\ FillName(relay, k, p, h) = RelayOf(k, 0, h, p, 0, 0)
         /\ FillSRV(relay, k, s) = RelayOf(k, s, 0, 0, 0, 0)
         /\ FillAll(relay, p, h, a, b) = RelayOf(e, 0, h, p, a, b)
<1> DEFINE kinded == RelayOf(k, 0, 0, 0, 0, 0)
           kindedPort == RelayOf(k, 0, 0, p, 0, 0)
           port == RelayOf(e, 0, 0, p, 0, 0)
           portHost == RelayOf(e, 0, h, p, 0, 0)
           portHost4 == RelayOf(e, 0, h, p, a, 0)
<1>1. /\ kinded = RelayOf(k, 0, 0, 0, 0, 0) /\ kindedPort = RelayOf(k, 0, 0, p, 0, 0)
      /\ port = RelayOf(e, 0, 0, p, 0, 0) /\ portHost = RelayOf(e, 0, h, p, 0, 0)
      /\ portHost4 = RelayOf(e, 0, h, p, a, 0)
  BY Zenon
<1> HIDE DEF kinded, kindedPort, port, portHost, portHost4
<1>2. [relay EXCEPT !.kind = k] = kinded
  BY <1>1, RelayFields
<1>3. [kinded EXCEPT !.port = p] = kindedPort
  BY <1>1, RelayFields
<1>4. /\ [kindedPort EXCEPT !.ipv4 = a] = RelayOf(k, 0, 0, p, a, 0)
      /\ [kindedPort EXCEPT !.ipv6 = b] = RelayOf(k, 0, 0, p, 0, b)
      /\ [kindedPort EXCEPT !.hostname = h] = RelayOf(k, 0, h, p, 0, 0)
  BY <1>1, RelayFields
<1>5. [kinded EXCEPT !.srvName = s] = RelayOf(k, s, 0, 0, 0, 0)
  BY <1>1, RelayFields
<1>6. [relay EXCEPT !.port = p] = port
  BY <1>1, RelayFields
<1>7. [port EXCEPT !.hostname = h] = portHost
  BY <1>1, RelayFields
<1>8. [portHost EXCEPT !.ipv4 = a] = portHost4
  BY <1>1, RelayFields
<1>9. [portHost4 EXCEPT !.ipv6 = b] = RelayOf(e, 0, h, p, a, b)
  BY <1>1, RelayFields
<1>10. [relay EXCEPT !.kind = k, !.port = p, !.ipv4 = a] = RelayOf(k, 0, 0, p, a, 0)
  BY Zenon, <1>2, <1>3, <1>4
<1>11. [relay EXCEPT !.kind = k, !.port = p, !.ipv6 = b] = RelayOf(k, 0, 0, p, 0, b)
  BY Zenon, <1>2, <1>3, <1>4
<1>12. [relay EXCEPT !.kind = k, !.port = p, !.hostname = h] = RelayOf(k, 0, h, p, 0, 0)
  BY Zenon, <1>2, <1>3, <1>4
<1>13. [relay EXCEPT !.kind = k, !.srvName = s] = RelayOf(k, s, 0, 0, 0, 0)
  BY Zenon, <1>2, <1>5
<1>14. [relay EXCEPT !.port = p, !.hostname = h, !.ipv4 = a, !.ipv6 = b]
         = RelayOf(e, 0, h, p, a, b)
  BY Zenon, <1>6, <1>7, <1>8, <1>9
<1> QED
  BY Zenon, <1>10, <1>11, <1>12, <1>13, <1>14
     DEF FillIPv4, FillIPv6, FillName, FillSRV, FillAll

(* What each conversion makes of a relay. *)
Kind(r) == IF r.ipv4 # 0 \/ r.ipv6 # 0 THEN "address"
           ELSE IF r.domain # 0 /\ r.port = 0 THEN "srv" ELSE "name"

LEMMA Conversions ==
  ASSUME NEW r
  PROVE  /\ r.type = "ipv4" => localStateQueryRelayToLedgerRelay(r)
                                 = RelayOf("address", 0, 0, r.port, r.ipv4, 0)
         /\ r.type = "ipv6" => localStateQueryRelayToLedgerRelay(r)
                                 = RelayOf("address", 0, 0, r.port, 0, r.ipv6)
         /\ r.type = "domain" => localStateQueryRelayToLedgerRelay(r)
                                   = RelayOf("name", 0, r.domain, r.port, 0, 0)
         /\ r.type = "srv" => localStateQueryRelayToLedgerRelay(r)
                                = RelayOf("srv", r.domain, 0, 0, 0, 0)
         /\ r.type = "none" => localStateQueryRelayToLedgerRelay(r) = RelayOf("", 0, 0, 0, 0, 0)
         /\ untypedRelay(r) = RelayOf("", 0, r.domain, r.port, r.ipv4, r.ipv6)
         /\ dingoRelayToLedgerRelay(r) = RelayOf(Kind(r), 0, r.domain, r.port, r.ipv4, r.ipv6)
<1> DEFINE e == ""
<1>0. NoRelay = RelayOf(e, 0, 0, 0, 0, 0)
  BY Zenon DEF NoRelay, RelayOf
<1> HIDE DEF e
<1>1. /\ FillIPv4(NoRelay, "address", r.port, r.ipv4) = RelayOf("address", 0, 0, r.port, r.ipv4, 0)
      /\ FillIPv6(NoRelay, "address", r.port, r.ipv6) = RelayOf("address", 0, 0, r.port, 0, r.ipv6)
      /\ FillName(NoRelay, "name", r.port, r.domain) = RelayOf("name", 0, r.domain, r.port, 0, 0)
      /\ FillSRV(NoRelay, "srv", r.domain) = RelayOf("srv", r.domain, 0, 0, 0, 0)
  BY <1>0, RelayFilled
<1>2. FillAll(NoRelay, r.port, r.domain, r.ipv4, r.ipv6)
        = RelayOf(e, 0, r.domain, r.port, r.ipv4, r.ipv6)
  BY <1>0, RelayFilled
<1> DEFINE u == RelayOf("", 0, r.domain, r.port, r.ipv4, r.ipv6)
<1>3. untypedRelay(r) = u
  BY Zenon, <1>2 DEF untypedRelay, FillAll, e
<1>4. /\ u.hostname = r.domain /\ u.port = r.port /\ u.ipv4 = r.ipv4 /\ u.ipv6 = r.ipv6
      /\ [u EXCEPT !.kind = Kind(r)]
           = RelayOf(Kind(r), 0, r.domain, r.port, r.ipv4, r.ipv6)
  <2>1. u = RelayOf(e, 0, r.domain, r.port, r.ipv4, r.ipv6)
    BY Zenon DEF e
  <2> HIDE DEF u
  <2> QED
    BY <2>1, RelayFields
<1>5. dingoRelayToLedgerRelay(r) = [u EXCEPT !.kind = Kind(r)]
  <2> HIDE DEF u
  <2> QED
    BY Zenon, <1>3, <1>4 DEF dingoRelayToLedgerRelay, Kind
<1>6. /\ r.type = "ipv4" => localStateQueryRelayToLedgerRelay(r)
                              = RelayOf("address", 0, 0, r.port, r.ipv4, 0)
      /\ r.type = "ipv6" => localStateQueryRelayToLedgerRelay(r)
                              = RelayOf("address", 0, 0, r.port, 0, r.ipv6)
      /\ r.type = "domain" => localStateQueryRelayToLedgerRelay(r)
                                = RelayOf("name", 0, r.domain, r.port, 0, 0)
      /\ r.type = "srv" => localStateQueryRelayToLedgerRelay(r)
                             = RelayOf("srv", r.domain, 0, 0, 0, 0)
      /\ r.type = "none" => localStateQueryRelayToLedgerRelay(r) = RelayOf("", 0, 0, 0, 0, 0)
  BY Zenon, <1>0, <1>1
     DEF e, localStateQueryRelayToLedgerRelay, FillIPv4, FillIPv6, FillName, FillSRV
<1> QED
  BY Zenon, <1>3, <1>4, <1>5, <1>6

LEMMA ConversionsTyped ==
  ASSUME NEW r \in Relay
  PROVE  /\ localStateQueryRelayToLedgerRelay(r) \in LedgerRelay
         /\ untypedRelay(r) \in LedgerRelay
         /\ dingoRelayToLedgerRelay(r) \in LedgerRelay
<1>1. /\ r.type \in {"ipv4", "ipv6", "domain", "srv", "none"}
      /\ r.domain \in Nat /\ r.ipv4 \in Nat /\ r.ipv6 \in Nat /\ r.port \in Nat /\ 0 \in Nat
  BY Zenon DEF Relay
<1>3. /\ "" \in {"", "name", "srv", "address"} /\ "name" \in {"", "name", "srv", "address"}
      /\ "srv" \in {"", "name", "srv", "address"} /\ "address" \in {"", "name", "srv", "address"}
      /\ Kind(r) \in {"", "name", "srv", "address"}
  BY Zenon DEF Kind
<1>4. untypedRelay(r) \in LedgerRelay
  <2>1. RelayOf("", 0, r.domain, r.port, r.ipv4, r.ipv6) \in LedgerRelay
    BY Zenon, <1>1, <1>3, RelayTyped
  <2> QED
    BY Zenon, <2>1, Conversions
<1>5. dingoRelayToLedgerRelay(r) \in LedgerRelay
  <2>1. RelayOf(Kind(r), 0, r.domain, r.port, r.ipv4, r.ipv6) \in LedgerRelay
    BY Zenon, <1>1, <1>3, RelayTyped
  <2> QED
    BY Zenon, <2>1, Conversions
<1>6. localStateQueryRelayToLedgerRelay(r) \in LedgerRelay
  <2>1. /\ RelayOf("address", 0, 0, r.port, r.ipv4, 0) \in LedgerRelay
        /\ RelayOf("address", 0, 0, r.port, 0, r.ipv6) \in LedgerRelay
        /\ RelayOf("name", 0, r.domain, r.port, 0, 0) \in LedgerRelay
        /\ RelayOf("srv", r.domain, 0, 0, 0, 0) \in LedgerRelay
        /\ RelayOf("", 0, 0, 0, 0, 0) \in LedgerRelay
    BY Zenon, <1>1, <1>3, RelayTyped
  <2> QED
    BY Zenon, <1>1, <2>1, Conversions
<1> QED
  BY Zenon, <1>4, <1>5, <1>6

-----------------------------------------------------------------------------
(* The peers of a relay *)

LEMMA ConcatRange ==
  ASSUME NEW S, NEW s \in Seq(S), NEW t \in Seq(S)
  PROVE  s \o t \in Seq(S) /\ Range(s \o t) = Range(s) \cup Range(t)
<1>1. /\ s \o t \in Seq(S) /\ Len(s \o t) = Len(s) + Len(t) /\ Len(s) \in Nat /\ Len(t) \in Nat
      /\ DOMAIN s = 1..Len(s) /\ DOMAIN t = 1..Len(t) /\ DOMAIN (s \o t) = 1..(Len(s) + Len(t))
  OBVIOUS
<1>2. \A i \in 1..(Len(s) + Len(t)) : (s \o t)[i] = IF i <= Len(s) THEN s[i] ELSE t[i - Len(s)]
  OBVIOUS
<1> DEFINE u == s \o t
<1>3. \A i \in 1..Len(s) : i \in 1..(Len(s) + Len(t)) /\ u[i] = s[i]
  BY <1>1, <1>2
<1>4. \A i \in 1..Len(t) : i + Len(s) \in 1..(Len(s) + Len(t)) /\ u[i + Len(s)] = t[i]
  BY <1>1, <1>2
<1>5. \A i \in 1..(Len(s) + Len(t)) :
        \/ i \in 1..Len(s) /\ u[i] = s[i]
        \/ i - Len(s) \in 1..Len(t) /\ u[i] = t[i - Len(s)]
  BY <1>1, <1>2
<1>6. Range(u) = Range(s) \cup Range(t)
  <2>1. DOMAIN u = 1..(Len(s) + Len(t))
    BY Zenon, <1>1
  <2> HIDE DEF u
  <2>2. /\ Range(u) = {u[i] : i \in 1..(Len(s) + Len(t))}
        /\ Range(s) = {s[i] : i \in 1..Len(s)} /\ Range(t) = {t[i] : i \in 1..Len(t)}
    BY Zenon, <1>1, <2>1 DEF Range
  <2>3. \A x \in Range(u) : x \in Range(s) \/ x \in Range(t)
    BY Zenon, <1>5, <2>2
  <2>4. \A x \in Range(s) : x \in Range(u)
    BY Zenon, <1>3, <2>2
  <2>5. \A x \in Range(t) : x \in Range(u)
    BY Zenon, <1>4, <2>2
  <2> QED
    BY Zenon, <2>3, <2>4, <2>5
<1> QED
  BY Zenon, <1>1, <1>6 DEF u

Given(h) == IF h # 0 THEN <<h>> ELSE <<>>
Hosts(a, b, c) == Given(a) \o Given(b) \o Given(c)

LEMMA HostsGiven ==
  ASSUME NEW a \in Nat, NEW b \in Nat, NEW c \in Nat
  PROVE  Hosts(a, b, c) \in Seq(Nat) /\ Range(Hosts(a, b, c)) = {a, b, c} \ {0}
<1>1. ASSUME NEW h \in Nat PROVE Given(h) \in Seq(Nat) /\ Range(Given(h)) = {h} \ {0}
  <2>1. CASE h = 0
    <3>1. Given(h) = <<>>
      BY Zenon, <2>1 DEF Given
    <3>2. <<>> \in Seq(Nat) /\ Range(<<>>) = {}
      BY DEF Range
    <3> QED
      BY Zenon, <2>1, <3>1, <3>2
  <2>2. CASE h # 0
    <3>1. Given(h) = <<h>>
      BY Zenon, <2>2 DEF Given
    <3>2. <<h>> \in Seq(Nat) /\ Range(<<h>>) = {h}
      BY DEF Range
    <3>3. {h} \ {0} = {h}
      BY Zenon, <2>2
    <3> QED
      BY Zenon, <3>1, <3>2, <3>3
  <2> QED
    BY Zenon, <2>1, <2>2
<1>0. \A s, t \in Seq(Nat) : s \o t \in Seq(Nat) /\ Range(s \o t) = Range(s) \cup Range(t)
  BY Zenon, ConcatRange
<1>2. Given(a) \o Given(b) \in Seq(Nat) /\ Range(Given(a) \o Given(b)) = {a, b} \ {0}
  <2>1. Range(Given(a) \o Given(b)) = Range(Given(a)) \cup Range(Given(b))
    BY Zenon, <1>0, <1>1
  <2>2. Given(a) \o Given(b) \in Seq(Nat)
    BY Zenon, <1>0, <1>1
  <2>3. ({a} \ {0}) \cup ({b} \ {0}) = {a, b} \ {0}
    BY Zenon
  <2> QED
    BY Zenon, <1>1, <2>1, <2>2, <2>3
<1>3. Hosts(a, b, c) \in Seq(Nat) /\ Range(Hosts(a, b, c)) = Range(Given(a) \o Given(b)) \cup Range(Given(c))
  BY Zenon, <1>0, <1>1, <1>2 DEF Hosts
<1>4. ({a, b} \ {0}) \cup ({c} \ {0}) = {a, b, c} \ {0}
  BY Zenon
<1> QED
  BY Zenon, <1>1, <1>2, <1>3, <1>4

(* ledgerRelayPeers: an SRV name as it is, or the hosts with a default port. *)
AddrsOf(lp, relay) == {p.addr : p \in Range(ledgerRelayPeers(lp, relay))}
SrvOf(relay) == IF relay.srvName # 0 THEN relay.srvName ELSE relay.hostname
PortOf(relay) == IF relay.port = 0 THEN 3001 ELSE relay.port

LEMMA RelayPeers ==
  ASSUME NEW lp, lp.pool \in Nat, lp.stake \in Nat, NEW relay \in LedgerRelay
  PROVE  /\ ledgerRelayPeers(lp, relay) \in Seq(PeerFrom("ledger"))
         /\ IsSRV(relay) =>
              AddrsOf(lp, relay) = IF SrvOf(relay) = 0 THEN {} ELSE {<<SrvOf(relay), relay.port>>}
         /\ ~IsSRV(relay) =>
              AddrsOf(lp, relay) = {<<h, PortOf(relay)>> :
                                      h \in {relay.hostname, relay.ipv4, relay.ipv6} \ {0}}
<1> DEFINE P == PeerFrom("ledger")
           peer(h, p) == newPeer(h, p, Base("ledger", lp.pool, lp.stake))
           hosts == Hosts(relay.hostname, relay.ipv4, relay.ipv6)
<1>1. /\ relay.srvName \in Nat /\ relay.hostname \in Nat /\ relay.port \in Nat
      /\ relay.ipv4 \in Nat /\ relay.ipv6 \in Nat
  BY Zenon DEF LedgerRelay
<1>2. SrvOf(relay) \in Nat /\ PortOf(relay) \in Nat
  BY <1>1 DEF SrvOf, PortOf
<1>3. \A h \in Nat, p \in Nat : peer(h, p) \in P /\ peer(h, p).addr = <<h, p>>
  <2>1. lp.pool \in Nat /\ lp.stake \in Nat
    BY Zenon
  <2>2. ASSUME NEW pool \in Nat, NEW stake \in Nat, NEW h \in Nat, NEW p \in Nat
        PROVE  /\ newPeer(h, p, Base("ledger", pool, stake)) \in P
               /\ newPeer(h, p, Base("ledger", pool, stake)).addr = <<h, p>>
    BY Zenon DEF newPeer, Base, PeerFrom
  <2> QED
    BY Zenon, <2>1, <2>2
<1>4. hosts \in Seq(Nat) /\ Range(hosts) = {relay.hostname, relay.ipv4, relay.ipv6} \ {0}
  BY Zenon, <1>1, HostsGiven
<1>5. ledgerRelayPeers(lp, relay) =
        IF IsSRV(relay)
        THEN IF SrvOf(relay) = 0 THEN <<>> ELSE <<peer(SrvOf(relay), relay.port)>>
        ELSE [i \in DOMAIN hosts |-> peer(hosts[i], PortOf(relay))]
  BY Zenon DEF ledgerRelayPeers, Hosts, Given, SrvOf, PortOf
<1> HIDE DEF P, peer, hosts
<1>6. CASE IsSRV(relay) /\ SrvOf(relay) = 0
  <2>1. ledgerRelayPeers(lp, relay) = <<>>
    BY Zenon, <1>5, <1>6
  <2>2. <<>> \in Seq(P) /\ Range(<<>>) = {}
    BY DEF Range
  <2> QED
    BY Zenon, <1>6, <2>1, <2>2 DEF AddrsOf, P
<1>7. CASE IsSRV(relay) /\ SrvOf(relay) # 0
  <2> DEFINE q == peer(SrvOf(relay), relay.port)
  <2>1. ledgerRelayPeers(lp, relay) = <<q>>
    BY Zenon, <1>5, <1>7
  <2>2. q \in P /\ q.addr = <<SrvOf(relay), relay.port>>
    BY Zenon, <1>1, <1>2, <1>3
  <2> HIDE DEF q
  <2>3. <<q>> \in Seq(P) /\ Range(<<q>>) = {q}
    BY <2>2 DEF Range
  <2>4. {p.addr : p \in {q}} = {q.addr}
    BY Zenon
  <2> QED
    BY Zenon, <1>7, <2>1, <2>2, <2>3, <2>4 DEF AddrsOf, P
<1>8. CASE ~IsSRV(relay)
  <2> DEFINE f == [i \in DOMAIN hosts |-> peer(hosts[i], PortOf(relay))]
  <2>1. ledgerRelayPeers(lp, relay) = f
    BY Zenon, <1>5, <1>8
  <2>2. \A i \in DOMAIN hosts : hosts[i] \in Nat
    <3>1. DOMAIN hosts = 1..Len(hosts)
      BY <1>4
    <3> QED
      BY <1>4, <3>1
  <2>3. /\ f = [i \in DOMAIN hosts |-> f[i]] /\ DOMAIN f = DOMAIN hosts
        /\ \A i \in DOMAIN hosts : f[i] \in P /\ f[i].addr = <<hosts[i], PortOf(relay)>>
    BY Zenon, <1>2, <1>3, <2>2
  <2> HIDE DEF f
  <2>4. f \in Seq(P)
    BY Zenon, <1>4, <2>3, MapTyped
  <2>5. AddrsOf(lp, relay) = {f[i].addr : i \in DOMAIN f}
    BY Zenon, <2>1 DEF AddrsOf, Range
  <2>6. {f[i].addr : i \in DOMAIN f} = {<<hosts[i], PortOf(relay)>> : i \in DOMAIN hosts}
    BY Zenon, <2>3
  <2>7. {<<hosts[i], PortOf(relay)>> : i \in DOMAIN hosts}
          = {<<h, PortOf(relay)>> : h \in Range(hosts)}
    BY Zenon DEF Range
  <2> QED
    BY Zenon, <1>4, <1>8, <2>1, <2>4, <2>5, <2>6, <2>7 DEF P
<1> QED
  BY Zenon, <1>6, <1>7, <1>8

(* Two relays with the same names and port, either both SRV names or not.   *)
LEMMA SameAddrs ==
  ASSUME NEW lp, lp.pool \in Nat, lp.stake \in Nat, NEW a \in LedgerRelay, NEW b \in LedgerRelay,
         IsSRV(a) <=> IsSRV(b), a.srvName = b.srvName, a.hostname = b.hostname, a.port = b.port,
         a.ipv4 = b.ipv4, a.ipv6 = b.ipv6
  PROVE  AddrsOf(lp, a) = AddrsOf(lp, b)
<1>1. PortOf(a) = PortOf(b) /\ SrvOf(a) = SrvOf(b)
  BY DEF PortOf, SrvOf
<1>2. CASE IsSRV(a)
  <2>1. /\ AddrsOf(lp, a) = IF SrvOf(a) = 0 THEN {} ELSE {<<SrvOf(a), a.port>>}
        /\ AddrsOf(lp, b) = IF SrvOf(b) = 0 THEN {} ELSE {<<SrvOf(b), b.port>>}
    BY Zenon, <1>2, RelayPeers
  <2> QED
    BY <1>1, <2>1
<1>3. CASE ~IsSRV(a)
  <2>1. /\ AddrsOf(lp, a) = {<<h, PortOf(a)>> : h \in {a.hostname, a.ipv4, a.ipv6} \ {0}}
        /\ AddrsOf(lp, b) = {<<h, PortOf(b)>> : h \in {b.hostname, b.ipv4, b.ipv6} \ {0}}
    BY Zenon, <1>3, RelayPeers
  <2>2. {a.hostname, a.ipv4, a.ipv6} \ {0} = {b.hostname, b.ipv4, b.ipv6} \ {0}
    BY Zenon
  <2> QED
    BY Zenon, <1>1, <2>1, <2>2
<1> QED
  BY Zenon, <1>2, <1>3

(* An untyped relay: a host name without a port is an SRV name. *)
LEMMA UntypedRelay ==
  ASSUME NEW r \in Relay
  PROVE  LET u == untypedRelay(r)
         IN /\ u \in LedgerRelay /\ u.srvName = 0 /\ u.hostname = r.domain /\ u.port = r.port
            /\ u.ipv4 = r.ipv4 /\ u.ipv6 = r.ipv6
            /\ IsSRV(u) <=> r.domain # 0 /\ r.port = 0
<1> DEFINE u == untypedRelay(r)
           e == ""
<1>1. u = RelayOf(e, 0, r.domain, r.port, r.ipv4, r.ipv6) /\ u \in LedgerRelay
  BY Zenon, Conversions, ConversionsTyped
<1> HIDE DEF u, e
<1>2. /\ u.kind = e /\ u.srvName = 0 /\ u.hostname = r.domain /\ u.port = r.port
      /\ u.ipv4 = r.ipv4 /\ u.ipv6 = r.ipv6
  BY <1>1, RelayFields
<1>3. e # "srv"
  BY Zenon DEF e
<1>4. IsSRV(u) <=> r.domain # 0 /\ r.port = 0
  BY Zenon, <1>2, <1>3 DEF IsSRV, e
<1>5. /\ u \in LedgerRelay /\ u.srvName = 0 /\ u.hostname = r.domain /\ u.port = r.port
      /\ u.ipv4 = r.ipv4 /\ u.ipv6 = r.ipv6
      /\ IsSRV(u) <=> r.domain # 0 /\ r.port = 0
  BY Zenon, <1>1, <1>2, <1>4
<1> QED
  BY Zenon, <1>5 DEF u

(* An untyped relay leads somewhere exactly when it has a name. *)
LEMMA NoneLost ==
  ASSUME NEW lp, lp.pool \in Nat, lp.stake \in Nat, NEW r \in Relay
  PROVE  AddrsOf(lp, untypedRelay(r)) = {} <=> r.domain = 0 /\ r.ipv4 = 0 /\ r.ipv6 = 0
<1> DEFINE u == untypedRelay(r)
           hosts == {u.hostname, u.ipv4, u.ipv6} \ {0}
<1>1. /\ u \in LedgerRelay /\ u.srvName = 0 /\ u.hostname = r.domain /\ u.port = r.port
      /\ u.ipv4 = r.ipv4 /\ u.ipv6 = r.ipv6
      /\ IsSRV(u) <=> r.domain # 0 /\ r.port = 0
  BY Zenon, UntypedRelay
<1> HIDE DEF u
<1>2. CASE IsSRV(u)
  <2>1. SrvOf(u) = r.domain /\ r.domain # 0 /\ u.port = 0
    BY Zenon, <1>1, <1>2 DEF SrvOf
  <2>2. AddrsOf(lp, u) = {<<r.domain, 0>>}
    BY Zenon, <1>1, <1>2, <2>1, RelayPeers
  <2> QED
    BY Zenon, <2>1, <2>2 DEF u
<1>3. CASE ~IsSRV(u)
  <2>1. AddrsOf(lp, u) = {<<x, PortOf(u)>> : x \in hosts}
    BY Zenon, <1>1, <1>3, RelayPeers
  <2>2. hosts = {} <=> r.domain = 0 /\ r.ipv4 = 0 /\ r.ipv6 = 0
    BY Zenon, <1>1
  <2> HIDE DEF hosts
  <2>3. AddrsOf(lp, u) = {} <=> hosts = {}
    BY Zenon, <2>1
  <2> QED
    BY Zenon, <2>2, <2>3 DEF u
<1> QED
  BY Zenon, <1>2, <1>3

(* The kind that dingoRelayToLedgerRelay finds changes nothing, but for a   *)
(* host name with an IP address and without a port.                         *)
LEMMA DingoAgrees ==
  ASSUME NEW lp, lp.pool \in Nat, lp.stake \in Nat, NEW r \in Relay,
         r.domain = 0 \/ r.port # 0 \/ (r.ipv4 = 0 /\ r.ipv6 = 0)
  PROVE  AddrsOf(lp, dingoRelayToLedgerRelay(r)) = AddrsOf(lp, untypedRelay(r))
<1> DEFINE u == untypedRelay(r)
           d == dingoRelayToLedgerRelay(r)
<1>1. /\ u \in LedgerRelay /\ u.srvName = 0 /\ u.hostname = r.domain /\ u.port = r.port
      /\ u.ipv4 = r.ipv4 /\ u.ipv6 = r.ipv6
      /\ IsSRV(u) <=> r.domain # 0 /\ r.port = 0
  BY Zenon, UntypedRelay
<1>2. d = RelayOf(Kind(r), 0, r.domain, r.port, r.ipv4, r.ipv6) /\ d \in LedgerRelay
  BY Zenon, Conversions, ConversionsTyped
<1> HIDE DEF u, d
<1>3. /\ d.kind = Kind(r) /\ d.srvName = 0 /\ d.hostname = r.domain /\ d.port = r.port
      /\ d.ipv4 = r.ipv4 /\ d.ipv6 = r.ipv6
  BY <1>2, RelayFields
<1>4. /\ Kind(r) = "srv" <=> r.domain # 0 /\ r.port = 0
      /\ Kind(r) # ""
  BY Zenon DEF Kind
<1>5. IsSRV(d) <=> r.domain # 0 /\ r.port = 0
  BY Zenon, <1>3, <1>4 DEF IsSRV
<1>6. AddrsOf(lp, d) = AddrsOf(lp, u)
  BY Zenon, <1>1, <1>2, <1>3, <1>5, SameAddrs
<1> QED
  BY Zenon, <1>6 DEF u, d

(* Nor does the type that local-state-query reports, where it decides       *)
(* nothing that the names do not.                                           *)
LEMMA QueryAgrees ==
  ASSUME NEW lp, lp.pool \in Nat, lp.stake \in Nat, NEW r \in Relay,
         r.type # "ipv4" => r.ipv4 = 0, r.type # "ipv6" => r.ipv6 = 0,
         r.type \notin {"domain", "srv"} => r.domain = 0,
         r.type = "domain" => r.port # 0, r.type = "srv" => r.port = 0
  PROVE  AddrsOf(lp, localStateQueryRelayToLedgerRelay(r)) = AddrsOf(lp, untypedRelay(r))
<1> DEFINE u == untypedRelay(r)
           q == localStateQueryRelayToLedgerRelay(r)
<1>1. /\ u \in LedgerRelay /\ u.srvName = 0 /\ u.hostname = r.domain /\ u.port = r.port
      /\ u.ipv4 = r.ipv4 /\ u.ipv6 = r.ipv6
      /\ IsSRV(u) <=> r.domain # 0 /\ r.port = 0
  BY Zenon, UntypedRelay
<1>2. q \in LedgerRelay /\ r.type \in {"ipv4", "ipv6", "domain", "srv", "none"}
  BY Zenon, ConversionsTyped DEF Relay
<1>3. CASE r.type = "none"
  <2> DEFINE e == ""
             z == 0
  <2>1. q = RelayOf(e, z, z, z, z, z)
    BY Zenon, <1>3, Conversions
  <2> HIDE DEF u, q, e, z
  <2>2. q.kind = e /\ q.srvName = z /\ q.hostname = z /\ q.ipv4 = z /\ q.ipv6 = z
    BY <2>1, RelayFields
  <2>3. e # "srv"
    BY Zenon DEF e
  <2>4. ~IsSRV(q)
    BY Zenon, <2>2, <2>3 DEF IsSRV, z
  <2>5. {q.hostname, q.ipv4, q.ipv6} \ {0} = {} /\ r.domain = 0 /\ r.ipv4 = 0 /\ r.ipv6 = 0
    BY Zenon, <1>3, <2>2 DEF z
  <2>6. AddrsOf(lp, q) = {<<x, PortOf(q)>> : x \in {}}
    BY Zenon, <1>2, <2>4, <2>5, RelayPeers
  <2>7. AddrsOf(lp, q) = {}
    BY Zenon, <2>6
  <2>8. AddrsOf(lp, u) = {}
    BY Zenon, <2>5, NoneLost DEF u
  <2> QED
    BY Zenon, <2>7, <2>8 DEF u, q
<1>4. CASE r.type = "srv"
  <2> DEFINE z == 0
  <2>1. q = RelayOf("srv", r.domain, z, z, z, z)
    BY Zenon, <1>4, Conversions
  <2> HIDE DEF u, q, z
  <2>2. q.kind = "srv" /\ q.srvName = r.domain /\ q.hostname = z /\ q.port = z
    BY <2>1, RelayFields
  <2>3. IsSRV(q) /\ SrvOf(q) = r.domain
    BY Zenon, <2>2 DEF IsSRV, SrvOf, z
  <2>4. AddrsOf(lp, q) = IF r.domain = 0 THEN {} ELSE {<<r.domain, 0>>}
    BY Zenon, <1>2, <2>2, <2>3, RelayPeers DEF z
  <2>5. CASE r.domain = 0
    <3>1. r.ipv4 = 0 /\ r.ipv6 = 0
      BY Zenon, <1>4
    <3> QED
      BY Zenon, <2>4, <2>5, <3>1, NoneLost DEF u, q
  <2>6. CASE r.domain # 0
    <3>1. IsSRV(u) /\ u.port = 0
      BY Zenon, <1>1, <1>4, <2>6
    <3>2. SrvOf(u) = r.domain
      BY Zenon, <1>1 DEF SrvOf
    <3>3. AddrsOf(lp, u) = {<<r.domain, 0>>}
      BY Zenon, <1>1, <2>6, <3>1, <3>2, RelayPeers
    <3> QED
      BY Zenon, <2>4, <2>6, <3>3 DEF u, q
  <2> QED
    BY Zenon, <2>5, <2>6
<1>5. CASE r.type \in {"ipv4", "ipv6", "domain"}
  <2> DEFINE z == 0
  <2>1. \/ q = RelayOf("address", z, r.domain, r.port, r.ipv4, r.ipv6)
        \/ q = RelayOf("name", z, r.domain, r.port, r.ipv4, r.ipv6)
    <3>1. CASE r.type = "ipv4"
      BY Zenon, <3>1, Conversions
    <3>2. CASE r.type = "ipv6"
      BY Zenon, <3>2, Conversions
    <3>3. CASE r.type = "domain"
      BY Zenon, <3>3, Conversions
    <3> QED
      BY Zenon, <1>5, <3>1, <3>2, <3>3
  <2>2. ~(r.domain # 0 /\ r.port = 0)
    BY Zenon, <1>5
  <2> HIDE DEF u, q, z
  <2>3. /\ q.kind \in {"address", "name"} /\ q.srvName = z /\ q.hostname = r.domain
        /\ q.port = r.port /\ q.ipv4 = r.ipv4 /\ q.ipv6 = r.ipv6
    BY <2>1, RelayFields
  <2>4. ~IsSRV(q)
    BY Zenon, <2>3 DEF IsSRV, z
  <2>5. AddrsOf(lp, q) = AddrsOf(lp, u)
    BY Zenon, <1>1, <1>2, <2>2, <2>3, <2>4, SameAddrs DEF z
  <2> QED
    BY Zenon, <2>5 DEF u, q
<1> QED
  BY Zenon, <1>2, <1>3, <1>4, <1>5

-----------------------------------------------------------------------------
(* The snapshots *)

LEMMA Elements ==
  ASSUME NEW S, NEW s \in Seq(S)
  PROVE  Len(s) \in Nat /\ DOMAIN s = 1..Len(s) /\ \A i \in DOMAIN s : s[i] \in S
<1>1. Len(s) \in Nat /\ DOMAIN s = 1..Len(s)
  OBVIOUS
<1>2. \A i \in 1..Len(s) : s[i] \in S
  OBVIOUS
<1> QED
  BY Zenon, <1>1, <1>2

Pools == [pool : Nat, stake : Nat, share : Rat, relays : Seq(Relay)]

LEMMA EntryTyped ==
  ASSUME NEW pool \in Nat, NEW stake \in Nat, NEW relays \in Seq(LedgerRelay)
  PROVE  [pool |-> pool, stake |-> stake, relays |-> relays] \in Entry
  BY Zenon DEF Entry

LEMMA StakedTyped ==
  ASSUME NEW ledger \in Ledger PROVE stakedProviderSnapshot(ledger) \in Seq(Entry)
<1> DEFINE g(e) == [j \in DOMAIN e.relays |-> untypedRelay(e.relays[j])]
           h(e) == [pool |-> e.pool, stake |-> e.stake, relays |-> g(e)]
           f == [i \in DOMAIN ledger |-> h(ledger[i])]
<1>1. ledger \in Seq(Pools) /\ \A i \in DOMAIN ledger : ledger[i] \in Pools
  BY Zenon, Elements DEF Ledger, Pools
<1>2. ASSUME NEW e \in Pools PROVE h(e) \in Entry
  <2> DEFINE x == g(e)
  <2>1. e.relays \in Seq(Relay) /\ e.pool \in Nat /\ e.stake \in Nat
    BY Zenon DEF Pools
  <2>2. /\ x = [j \in DOMAIN e.relays |-> x[j]]
        /\ \A j \in DOMAIN e.relays : x[j] \in LedgerRelay
    BY Zenon, <2>1, Elements, ConversionsTyped
  <2> HIDE DEF x
  <2>3. x \in Seq(LedgerRelay)
    BY Zenon, <2>1, <2>2, MapTyped
  <2>4. [pool |-> e.pool, stake |-> e.stake, relays |-> x] \in Entry
    BY Zenon, <2>1, <2>3, EntryTyped
  <2> QED
    BY Zenon, <2>4 DEF x
<1>3. stakedProviderSnapshot(ledger) = f
  BY Zenon DEF stakedProviderSnapshot
<1>4. f = [i \in DOMAIN ledger |-> f[i]] /\ \A i \in DOMAIN ledger : f[i] \in Entry
  <2> HIDE DEF h
  <2> QED
    BY Zenon, <1>1, <1>2
<1> HIDE DEF f
<1>5. f \in Seq(Entry)
  BY Zenon, <1>1, <1>4, MapTyped
<1> QED
  BY Zenon, <1>3, <1>5

LEMMA RelayOnlyTyped ==
  ASSUME NEW ledger \in Ledger PROVE relayOnlySnapshot(ledger) \in Seq(Entry)
<1> DEFINE g == [i \in DOMAIN ledger |-> ledger[i].relays]
           relays == AppendAll(g)
           f == [i \in DOMAIN relays |->
                   [pool |-> 0, stake |-> 0, relays |-> <<dingoRelayToLedgerRelay(relays[i])>>]]
<1>1. ledger \in Seq(Pools) /\ \A i \in DOMAIN ledger : ledger[i] \in Pools
  BY Zenon, Elements DEF Ledger, Pools
<1>2. g = [i \in DOMAIN ledger |-> g[i]] /\ \A i \in DOMAIN ledger : g[i] \in Seq(Relay)
  BY Zenon, <1>1 DEF Pools
<1>3. relayOnlySnapshot(ledger) = f
  BY Zenon DEF relayOnlySnapshot
<1> HIDE DEF g
<1>4. g \in Seq(Seq(Relay))
  BY Zenon, <1>1, <1>2, MapTyped
<1>5. relays \in Seq(Relay)
  BY Zenon, <1>4, AppendTyped
<1> HIDE DEF relays
<1>6. \A i \in DOMAIN relays : dingoRelayToLedgerRelay(relays[i]) \in LedgerRelay
  BY Zenon, <1>5, Elements, ConversionsTyped
<1>7. \A r \in LedgerRelay : <<r>> \in Seq(LedgerRelay)
  OBVIOUS
<1>8. 0 \in Nat
  BY Zenon
<1>9. f = [i \in DOMAIN relays |-> f[i]] /\ \A i \in DOMAIN relays : f[i] \in Entry
  BY Zenon, <1>6, <1>7, <1>8, EntryTyped
<1> HIDE DEF f
<1>10. f \in Seq(Entry)
  BY <1>5, <1>9, MapTyped
<1> QED
  BY Zenon, <1>3, <1>10

LEMMA StakeShare ==
  ASSUME NEW r \in Rat
  PROVE  ledgerStakeFromRat(r) \in Nat /\ ledgerStakeFromRat(r) <= MaxWord
<1>1. MaxWord \in Nat
  BY Zenon, LedgerPeersAssumption
<1> DEFINE num == r.num
           den == r.den
           product == num * MaxWord
           scaled == product \div den
<1>2. num \in Nat /\ den \in Nat \ {0}
  BY Zenon DEF Rat
<1>3. CASE num = 0
  <2>1. ledgerStakeFromRat(r) = 0
    BY Zenon, <1>3 DEF ledgerStakeFromRat
  <2> QED
    BY <1>1, <2>1
<1>4. CASE num # 0
  <2>1. ledgerStakeFromRat(r) = IF scaled > MaxWord THEN MaxWord ELSE scaled
    BY Zenon, <1>4 DEF ledgerStakeFromRat
  <2> HIDE DEF num, den
  <2>2. product \in Nat
    BY <1>1, <1>2
  <2> HIDE DEF product
  <2>3. scaled \in Nat
    BY <1>2, <2>2
  <2> HIDE DEF scaled
  <2> QED
    BY <1>1, <2>1, <2>3
<1> QED
  BY Zenon, <1>3, <1>4

LEMMA QueryTyped ==
  ASSUME NEW ledger \in Ledger
  PROVE  convertLocalStateQueryLedgerPeerSnapshot(ledger) \in Seq(Entry)
<1> DEFINE g(i) == [j \in DOMAIN ledger[i].relays |->
                      localStateQueryRelayToLedgerRelay(ledger[i].relays[j])]
           f == [i \in DOMAIN ledger |->
                   [pool |-> 0, stake |-> ledgerStakeFromRat(ledger[i].share), relays |-> g(i)]]
<1>1. ledger \in Seq(Pools) /\ \A i \in DOMAIN ledger : ledger[i] \in Pools
  BY Zenon, Elements DEF Ledger, Pools
<1>2. convertLocalStateQueryLedgerPeerSnapshot(ledger) = f
  BY Zenon DEF convertLocalStateQueryLedgerPeerSnapshot
<1>3. ASSUME NEW i \in DOMAIN ledger
      PROVE  ledgerStakeFromRat(ledger[i].share) \in Nat /\ g(i) \in Seq(LedgerRelay)
  <2> DEFINE e == ledger[i]
             h == [j \in DOMAIN e.relays |-> localStateQueryRelayToLedgerRelay(e.relays[j])]
  <2>1. e.relays \in Seq(Relay) /\ e.share \in Rat
    BY Zenon, <1>1 DEF Pools
  <2>2. /\ h = [j \in DOMAIN e.relays |-> h[j]]
        /\ \A j \in DOMAIN e.relays : h[j] \in LedgerRelay
    BY Zenon, <2>1, Elements, ConversionsTyped
  <2>3. h = g(i)
    BY Zenon
  <2>4. ledgerStakeFromRat(e.share) \in Nat
    BY Zenon, <2>1, StakeShare
  <2> HIDE DEF h, g
  <2>5. h \in Seq(LedgerRelay)
    BY Zenon, <2>1, <2>2, MapTyped
  <2> QED
    BY Zenon, <2>3, <2>4, <2>5
<1>4. 0 \in Nat
  BY Zenon
<1> HIDE DEF g
<1>5. f = [i \in DOMAIN ledger |-> f[i]] /\ \A i \in DOMAIN ledger : f[i] \in Entry
  BY Zenon, <1>3, <1>4, EntryTyped
<1> HIDE DEF f
<1>6. f \in Seq(Entry)
  BY Zenon, <1>1, <1>5, MapTyped
<1> QED
  BY Zenon, <1>2, <1>6

-----------------------------------------------------------------------------
(* The pools *)

RelayPeersOf(e) ==
  AppendAll([j \in DOMAIN e.relays |-> ledgerRelayPeers(e, e.relays[j])])

LEMMA EntryPeers ==
  ASSUME NEW e \in Entry PROVE RelayPeersOf(e) \in Seq(PeerFrom("ledger"))
<1> DEFINE P == PeerFrom("ledger")
           f == [j \in DOMAIN e.relays |-> ledgerRelayPeers(e, e.relays[j])]
<1>1. e.pool \in Nat /\ e.stake \in Nat /\ e.relays \in Seq(LedgerRelay)
  BY Zenon DEF Entry
<1>2. \A j \in DOMAIN e.relays : e.relays[j] \in LedgerRelay
  BY Zenon, <1>1, Elements
<1>3. f = [j \in DOMAIN e.relays |-> f[j]] /\ \A j \in DOMAIN e.relays : f[j] \in Seq(P)
  BY Zenon, <1>1, <1>2, RelayPeers
<1>4. RelayPeersOf(e) = AppendAll(f)
  BY Zenon DEF RelayPeersOf
<1> HIDE DEF f, P
<1>5. f \in Seq(Seq(P))
  BY Zenon, <1>1, <1>3, MapTyped
<1>6. AppendAll(f) \in Seq(P)
  BY Zenon, <1>5, AppendTyped
<1> QED
  BY Zenon, <1>4, <1>6 DEF P

AllPeers(peers) == AppendAll([i \in DOMAIN peers |-> RelayPeersOf(peers[i])])

LEMMA AllPeersTyped ==
  ASSUME NEW peers \in Seq(Entry) PROVE AllPeers(peers) \in Seq(PeerFrom("ledger"))
<1> DEFINE P == PeerFrom("ledger")
           f == [i \in DOMAIN peers |-> RelayPeersOf(peers[i])]
<1>1. f = [i \in DOMAIN peers |-> f[i]] /\ \A i \in DOMAIN peers : f[i] \in Seq(P)
  BY Zenon, Elements, EntryPeers
<1>2. AllPeers(peers) = AppendAll(f)
  BY Zenon DEF AllPeers
<1> HIDE DEF f, P
<1>3. f \in Seq(Seq(P))
  BY Zenon, <1>1, MapTyped
<1>4. AppendAll(f) \in Seq(P)
  BY Zenon, <1>3, AppendTyped
<1> QED
  BY Zenon, <1>2, <1>4 DEF P

LEMMA BigTyped ==
  ASSUME NEW peers \in Seq(Entry) PROVE bigLedgerPeers(peers) \in Seq(PeerFrom("big-ledger"))
<1> DEFINE P == PeerFrom("ledger")
           chosen(i) == ledgerPeerPoolKey(peers[i], i) \in selectedPools(peers)
           f == [i \in DOMAIN peers |-> IF chosen(i) THEN RelayPeersOf(peers[i]) ELSE <<>>]
           all == AppendAll(f)
           h == [i \in DOMAIN all |-> [all[i] EXCEPT !.source = "big-ledger"]]
<1>1. bigLedgerPeers(peers) = h
  BY Zenon DEF bigLedgerPeers, RelayPeersOf
<1> HIDE DEF chosen
<1>2. <<>> \in Seq(P)
  OBVIOUS
<1>3. f = [i \in DOMAIN peers |-> f[i]] /\ \A i \in DOMAIN peers : f[i] \in Seq(P)
  BY Zenon, <1>2, Elements, EntryPeers
<1> HIDE DEF f, P
<1>4. f \in Seq(Seq(P))
  BY Zenon, <1>3, MapTyped
<1>5. all \in Seq(P)
  BY Zenon, <1>4, AppendTyped
<1> HIDE DEF all
<1>6. \A p \in P : [p EXCEPT !.source = "big-ledger"] \in PeerFrom("big-ledger")
  BY Zenon DEF P, PeerFrom
<1>7. \A i \in DOMAIN all : all[i] \in P
  BY Zenon, <1>5, Elements
<1>8. /\ h = [i \in DOMAIN all |-> h[i]]
      /\ \A i \in DOMAIN all : h[i] \in PeerFrom("big-ledger")
  BY Zenon, <1>6, <1>7
<1> HIDE DEF h
<1>9. h \in Seq(PeerFrom("big-ledger"))
  BY Zenon, <1>5, <1>8, MapTyped
<1> QED
  BY Zenon, <1>1, <1>9

(* The order of the ledger peers: by stake, then by address, then as they   *)
(* came.                                                                    *)
Above(p, q) == p.stake > q.stake \/ (p.stake = q.stake /\ Below(p.addr, q.addr))
Before(p, i, q, j) == Above(p, q) \/ (~Above(q, p) /\ i < j)
Lex(a, b, c, i, x, y, z, j) ==
  \/ a > x
  \/ a = x /\ b < y
  \/ a = x /\ b = y /\ c < z
  \/ a = x /\ b = y /\ c = z /\ i < j

LEMMA LexTotal ==
  ASSUME NEW a \in Nat, NEW b \in Nat, NEW c \in Nat, NEW i \in Nat,
         NEW d \in Nat, NEW e \in Nat, NEW f \in Nat, NEW j \in Nat
  PROVE  /\ ~Lex(a, b, c, i, a, b, c, i)
         /\ i # j => Lex(a, b, c, i, d, e, f, j) \/ Lex(d, e, f, j, a, b, c, i)
  BY DEF Lex

LEMMA BeforeIsLex ==
  ASSUME NEW p \in PeerFrom("ledger"), NEW q \in PeerFrom("ledger"), NEW i \in Nat, NEW j \in Nat
  PROVE  /\ p.stake \in Nat /\ p.addr[1] \in Nat /\ p.addr[2] \in Nat
         /\ Before(p, i, q, j) <=> Lex(p.stake, p.addr[1], p.addr[2], i,
                                       q.stake, q.addr[1], q.addr[2], j)
<1>1. p.stake \in Nat /\ q.stake \in Nat /\ p.addr \in Nat \X Nat /\ q.addr \in Nat \X Nat
  BY Zenon DEF PeerFrom
<1>2. p.addr[1] \in Nat /\ p.addr[2] \in Nat /\ q.addr[1] \in Nat /\ q.addr[2] \in Nat
  BY Zenon, <1>1
<1> DEFINE a == p.stake
           b == p.addr[1]
           c == p.addr[2]
           x == q.stake
           y == q.addr[1]
           z == q.addr[2]
<1>3. a \in Nat /\ b \in Nat /\ c \in Nat /\ x \in Nat /\ y \in Nat /\ z \in Nat
  BY Zenon, <1>1, <1>2
<1>4. Before(p, i, q, j) <=> \/ a > x \/ (a = x /\ (b < y \/ (b = y /\ c < z)))
                             \/ /\ ~(x > a \/ (x = a /\ (y < b \/ (y = b /\ z < c))))
                                /\ i < j
  BY Zenon DEF Before, Above, Below
<1>5. Lex(a, b, c, i, x, y, z, j) <=> Lex(p.stake, p.addr[1], p.addr[2], i,
                                       q.stake, q.addr[1], q.addr[2], j)
  BY Zenon
<1> HIDE DEF a, b, c, x, y, z
<1>6. Before(p, i, q, j) <=> Lex(a, b, c, i, x, y, z, j)
  BY <1>3, <1>4 DEF Lex
<1> QED
  BY Zenon, <1>1, <1>2, <1>5, <1>6

(* SliceStable by stake, without the operators that are parameters. *)
Sorted(s) ==
  LET ranked == {<<Cardinality({j \in DOMAIN s : Before(s[j], j, s[i], i)}) + 1, i>> : i \in DOMAIN s}
      n == Cardinality(DOMAIN s)
      order == SubSeq([k \in 1..n |-> (CHOOSE r \in ranked : r[1] = k)[2]], 1, n)
  IN SubSeq([k \in DOMAIN s |-> s[order[k]]], 1, Len(s))

LEMMA PoolsAre ==
  ASSUME NEW peers
  PROVE  /\ BuildLedgerPeerPools(peers).all = Sorted(AllPeers(peers))
         /\ BuildLedgerPeerPools(peers).big = bigLedgerPeers(peers)
  BY Zenon DEF BuildLedgerPeerPools, SliceStable, OrderedBy, Sorted, Before, Above, AllPeers,
     RelayPeersOf

(* Sorting leaves out nothing and adds nothing. *)
LEMMA SortedTyped ==
  ASSUME NEW s \in Seq(PeerFrom("ledger"))
  PROVE  Sorted(s) \in Seq(PeerFrom("ledger")) /\ Range(Sorted(s)) = Range(s)
<1> DEFINE P == PeerFrom("ledger")
           D == DOMAIN s
           R == {r \in D \X D : Before(s[r[1]], r[1], s[r[2]], r[2])}
           a(i) == s[i].stake
           b(i) == s[i].addr[1]
           c(i) == s[i].addr[2]
           lex(i, j) == Lex(a(i), b(i), c(i), i, a(j), b(j), c(j), j)
<1>1. Len(s) \in Nat /\ D = 1..Len(s) /\ \A i \in D : s[i] \in P
  BY Zenon, Elements
<1>2. \A i \in D : i \in Nat
  BY <1>1
<1>3. \A i, j \in D : <<i, j>> \in R <=> Before(s[i], i, s[j], j)
  BY Zenon
<1>4. \A i \in D : a(i) \in Nat /\ b(i) \in Nat /\ c(i) \in Nat
  BY Zenon, <1>1, <1>2, BeforeIsLex
<1>5. \A i, j \in D : <<i, j>> \in R <=> lex(i, j)
  BY Zenon, <1>1, <1>2, <1>3, BeforeIsLex
<1> HIDE DEF a, b, c, D, R
<1>6. \A i \in D : ~lex(i, i)
  BY Zenon, <1>2, <1>4, LexTotal
<1>7. \A i, j \in D : i # j => lex(i, j) \/ lex(j, i)
  <2>1. ASSUME NEW i \in D, NEW j \in D, i # j PROVE lex(i, j) \/ lex(j, i)
    <3>1. /\ a(i) \in Nat /\ b(i) \in Nat /\ c(i) \in Nat /\ i \in Nat
          /\ a(j) \in Nat /\ b(j) \in Nat /\ c(j) \in Nat /\ j \in Nat
      BY Zenon, <1>2, <1>4
    <3> QED
      BY <2>1, <3>1 DEF Lex
  <2> QED
    BY Zenon, <2>1
<1>8. \A i, j, k \in D : lex(i, j) /\ lex(j, k) => lex(i, k)
  <2>1. ASSUME NEW i \in D, NEW j \in D, NEW k \in D, lex(i, j), lex(j, k) PROVE lex(i, k)
    <3>1. /\ a(i) \in Nat /\ b(i) \in Nat /\ c(i) \in Nat /\ i \in Nat
          /\ a(j) \in Nat /\ b(j) \in Nat /\ c(j) \in Nat /\ j \in Nat
          /\ a(k) \in Nat /\ b(k) \in Nat /\ c(k) \in Nat /\ k \in Nat
      BY Zenon, <1>2, <1>4
    <3> QED
      BY <2>1, <3>1 DEF Lex
  <2> QED
    BY Zenon, <2>1
<1> HIDE DEF lex, P
<1>9. StrictOrder(D, R)
  BY Zenon, <1>5, <1>6, <1>7, <1>8 DEF StrictOrder
<1>10. IsFiniteSet(D) /\ Cardinality(D) = Len(s)
  <2>1. 1 \in Int /\ Len(s) \in Int
    BY <1>1
  <2>2. IsFiniteSet(1..Len(s)) /\ Cardinality(1..Len(s)) = IF 1 > Len(s) THEN 0 ELSE Len(s) - 1 + 1
    BY Zenon, <2>1, FS_Interval
  <2>3. (IF 1 > Len(s) THEN 0 ELSE Len(s) - 1 + 1) = Len(s)
    BY <1>1
  <2> QED
    BY Zenon, <1>1, <2>2, <2>3
<1> DEFINE o == Ordered(D, R)
           f == [k \in D |-> s[o[k]]]
<1>11. Sorted(s) = SubSeq(f, 1, Len(s))
  <2>1. \A i \in D : Down(D, R, i) = {j \in D : Before(s[j], j, s[i], i)}
    BY Zenon, <1>3 DEF Down
  <2> DEFINE ranked == {<<Cardinality(Down(D, R, i)) + 1, i>> : i \in D}
             given == {<<Cardinality({j \in D : Before(s[j], j, s[i], i)}) + 1, i>> : i \in D}
  <2>2. given = ranked
    BY Zenon, <2>1
  <2> DEFINE list(Q) == SubSeq([k \in 1..Cardinality(D) |-> (CHOOSE r \in Q : r[1] = k)[2]],
                               1, Cardinality(D))
  <2>3. o = list(ranked)
    BY Zenon DEF Ordered
  <2>4. Sorted(s) = SubSeq([k \in D |-> s[list(given)[k]]], 1, Len(s))
    BY Zenon DEF Sorted, D
  <2> HIDE DEF given, ranked, list, o
  <2>5. list(given) = o
    BY Zenon, <2>2, <2>3
  <2> QED
    BY Zenon, <2>4, <2>5
<1>12. /\ \A k \in 1..Len(s) : o[k] \in D
       /\ \A x \in D : \E k \in 1..Len(s) : o[k] = x
  <2>1. /\ \A k \in 1..Cardinality(D) : o[k] \in D
        /\ \A x \in D : \E k \in 1..Cardinality(D) : o[k] = x
    BY Zenon, <1>9, <1>10, OrderedList
  <2> HIDE DEF o
  <2> QED
    BY Zenon, <1>10, <2>1
<1> HIDE DEF o
<1>13. f = [k \in D |-> f[k]] /\ \A k \in D : f[k] = s[o[k]] /\ f[k] \in P
  BY Zenon, <1>1, <1>12
<1>14. f \in Seq(P) /\ Len(f) = Len(s) /\ DOMAIN f = D
  <2> HIDE DEF f
  <2> QED
    BY Zenon, <1>13, MapTyped DEF P, D
<1> HIDE DEF f
<1>15. SubSeq(f, 1, Len(s)) = f
  BY <1>14
<1>16. Range(f) = Range(s)
  <2>1. \A x \in Range(f) : x \in Range(s)
    <3>1. \A k \in D : f[k] \in {s[i] : i \in D}
      BY Zenon, <1>1, <1>12, <1>13
    <3> QED
      BY Zenon, <1>14, <3>1 DEF Range, D
  <2>2. ASSUME NEW i \in D PROVE s[i] \in Range(f)
    <3>1. PICK k \in D : o[k] = i
      BY Zenon, <1>1, <1>12
    <3>2. f[k] = s[i]
      BY Zenon, <1>13, <3>1
    <3> QED
      BY Zenon, <1>14, <3>2 DEF Range
  <2>3. \A x \in Range(s) : x \in Range(f)
    BY Zenon, <2>2 DEF Range, D
  <2> QED
    BY Zenon, <2>1, <2>3
<1> QED
  BY Zenon, <1>11, <1>14, <1>15, <1>16 DEF P

-----------------------------------------------------------------------------
(* The map of a PeerSelector *)

PeerOf(S) ==
  [source : S, host : Nat, port : Nat, addr : Nat \X Nat, pool : Nat, stake : Nat]
Addressed(p) == IF p.addr = <<0, 0>> THEN newPeer(p.host, p.port, p) ELSE p
Named(peers) == {i \in DOMAIN peers : peers[i].addr # <<0, 0>> \/ peers[i].host # 0}
Key(p) == <<p.source, Addressed(p).addr>>
KeyedAt(peers, k) == {i \in Named(peers) : Key(peers[i]) = k}

(* Every entry has an address and is filed under its own source and address. *)
Filed(m) == \A k \in DOMAIN m : k = <<m[k].source, m[k].addr>> /\ k[2] # <<0, 0>>

LEMMA AddPeersIs ==
  ASSUME NEW m, NEW peers
  PROVE  addPeers(m, peers) =
           [k \in DOMAIN m \cup {Key(peers[i]) : i \in Named(peers)} |->
              IF KeyedAt(peers, k) = {} THEN m[k]
              ELSE Addressed(peers[Max(KeyedAt(peers, k))])]
  BY Zenon DEF addPeers, Key, KeyedAt, Named, Addressed

LEMMA AddressedFields ==
  ASSUME NEW S, NEW p \in PeerOf(S), p.addr # <<0, 0>> \/ p.host # 0
  PROVE  Addressed(p).source = p.source /\ p.source \in S /\ Addressed(p).addr # <<0, 0>>
<1>1. p.host \in Nat /\ p.port \in Nat /\ p.source \in S
  BY Zenon DEF PeerOf
<1>2. CASE p.addr = <<0, 0>>
  <2> DEFINE h == p.host
             w == p.port
             a == <<h, w>>
  <2>1. Addressed(p) = newPeer(h, w, p)
    BY Zenon, <1>2 DEF Addressed
  <2>2. /\ newPeer(h, w, p).source = p.source
        /\ newPeer(h, w, p).addr = <<h, w>>
    BY Zenon DEF newPeer, PeerOf
  <2>3. <<h, w>> # <<0, 0>>
    BY Zenon, <1>2
  <2> QED
    BY Zenon, <1>1, <2>1, <2>2, <2>3
<1>3. CASE p.addr # <<0, 0>>
  BY Zenon, <1>1, <1>3 DEF Addressed
<1> QED
  BY Zenon, <1>2, <1>3

LEMMA Added ==
  ASSUME NEW S, NEW m, NEW peers \in Seq(PeerOf(S))
  PROVE  LET r == addPeers(m, peers) IN
         /\ Filed(m) => Filed(r)
         /\ \A k \in DOMAIN r \ DOMAIN m : k[1] \in S /\ KeyedAt(peers, k) # {}
         /\ \A k : k[1] \notin S => KeyedAt(peers, k) = {}
         /\ \A k \in DOMAIN m : k \in DOMAIN r /\ (k[1] \notin S => r[k] = m[k])
<1> DEFINE r == addPeers(m, peers)
           new == {Key(peers[i]) : i \in Named(peers)}
           at(k) == KeyedAt(peers, k)
<1>1. Len(peers) \in Nat /\ DOMAIN peers = 1..Len(peers) /\ \A i \in DOMAIN peers : peers[i] \in PeerOf(S)
  BY Zenon, Elements
<1>2. /\ DOMAIN r = DOMAIN m \cup new
      /\ \A k \in DOMAIN m \cup new :
           r[k] = IF at(k) = {} THEN m[k] ELSE Addressed(peers[Max(at(k))])
  BY Zenon, AddPeersIs
<1>3. \A i \in Named(peers) :
        /\ i \in DOMAIN peers /\ peers[i] \in PeerOf(S)
        /\ peers[i].addr # <<0, 0>> \/ peers[i].host # 0
  BY Zenon, <1>1 DEF Named
<1>4. \A i \in Named(peers) :
        /\ Addressed(peers[i]).source = peers[i].source /\ peers[i].source \in S
        /\ Addressed(peers[i]).addr # <<0, 0>>
        /\ Key(peers[i]) = <<Addressed(peers[i]).source, Addressed(peers[i]).addr>>
        /\ Key(peers[i])[1] \in S /\ Key(peers[i])[2] # <<0, 0>>
  <2> SUFFICES ASSUME NEW i \in Named(peers)
               PROVE  /\ Addressed(peers[i]).source = peers[i].source /\ peers[i].source \in S
                      /\ Addressed(peers[i]).addr # <<0, 0>>
                      /\ Key(peers[i]) = <<Addressed(peers[i]).source, Addressed(peers[i]).addr>>
                      /\ Key(peers[i])[1] \in S /\ Key(peers[i])[2] # <<0, 0>>
    BY Zenon
  <2>1. /\ Addressed(peers[i]).source = peers[i].source /\ peers[i].source \in S
        /\ Addressed(peers[i]).addr # <<0, 0>>
    BY Zenon, <1>3, AddressedFields
  <2>2. Key(peers[i]) = <<peers[i].source, Addressed(peers[i]).addr>>
    BY Zenon DEF Key
  <2>3. Key(peers[i])[1] = peers[i].source /\ Key(peers[i])[2] = Addressed(peers[i]).addr
    BY <2>2
  <2> QED
    BY Zenon, <2>1, <2>2, <2>3
<1>5. \A k : at(k) # {} => Max(at(k)) \in at(k)
  <2> SUFFICES ASSUME NEW k, at(k) # {} PROVE Max(at(k)) \in at(k)
    BY Zenon
  <2>1. \A i \in at(k) : i \in 1..Len(peers)
    BY Zenon, <1>1, <1>3 DEF KeyedAt
  <2>2. 1..Len(peers) \subseteq 0..Len(peers)
    BY <1>1
  <2>3. at(k) \in SUBSET (0..Len(peers))
    BY Zenon, <2>1, <2>2
  <2> HIDE DEF at
  <2> QED
    BY Zenon, <1>1, <2>3, MaxBounds
<1>6. \A k : \A i \in at(k) : i \in Named(peers) /\ Key(peers[i]) = k
  BY Zenon DEF KeyedAt
<1>7. \A k \in new : at(k) # {} /\ k[1] \in S
  BY Zenon, <1>4 DEF KeyedAt
<1> HIDE DEF r, new, at
<1>8. \A k : k[1] \notin S => at(k) = {}
  BY Zenon, <1>4, <1>6
<1>9. ASSUME Filed(m), NEW k \in DOMAIN r PROVE k = <<r[k].source, r[k].addr>> /\ k[2] # <<0, 0>>
  <2>1. CASE at(k) = {}
    <3>1. k \in DOMAIN m /\ r[k] = m[k]
      BY Zenon, <1>2, <1>7, <1>9, <2>1
    <3> QED
      BY Zenon, <1>9, <3>1 DEF Filed
  <2>2. CASE at(k) # {}
    <3> DEFINE i == Max(at(k))
    <3>1. i \in Named(peers) /\ Key(peers[i]) = k
      BY Zenon, <1>5, <1>6, <2>2
    <3>2. r[k] = Addressed(peers[i])
      BY Zenon, <1>2, <1>9, <2>2
    <3> HIDE DEF i
    <3> QED
      BY Zenon, <1>4, <3>1, <3>2
  <2> QED
    BY Zenon, <2>1, <2>2
<1>10. Filed(m) => Filed(r)
  BY Zenon, <1>9 DEF Filed
<1>11. \A k \in DOMAIN r \ DOMAIN m : k[1] \in S /\ at(k) # {}
  BY Zenon, <1>2, <1>7
<1>12. \A k \in DOMAIN m : k \in DOMAIN r /\ (k[1] \notin S => r[k] = m[k])
  BY Zenon, <1>2, <1>8
<1> QED
  BY Zenon, <1>8, <1>10, <1>11, <1>12 DEF r, at

(* Peers of other sources than those of m go beside it. *)
LEMMA AddedApart ==
  ASSUME NEW S, NEW m, NEW peers \in Seq(PeerOf(S)), \A k \in DOMAIN m : k[1] \notin S
  PROVE  addPeers(m, peers) = Beside(m, addPeers(NewPeerSelector, peers))
<1> DEFINE new == {Key(peers[i]) : i \in Named(peers)}
           at(k) == KeyedAt(peers, k)
           last(k) == Addressed(peers[Max(at(k))])
           A == addPeers(NewPeerSelector, peers)
           f == [k \in DOMAIN m \cup new |-> IF at(k) = {} THEN m[k] ELSE last(k)]
           g == [k \in DOMAIN m \cup DOMAIN A |-> IF k \in DOMAIN m THEN m[k] ELSE A[k]]
<1>1. addPeers(m, peers) = f
  BY Zenon, AddPeersIs
<1>2. DOMAIN NewPeerSelector = {}
  BY Zenon DEF NewPeerSelector
<1>3. DOMAIN A = new /\ \A k \in new : at(k) # {} => A[k] = last(k)
  <2>1. A = [k \in DOMAIN NewPeerSelector \cup new |->
              IF at(k) = {} THEN NewPeerSelector[k] ELSE last(k)]
    BY Zenon, AddPeersIs
  <2>2. DOMAIN NewPeerSelector \cup new = new
    BY Zenon, <1>2
  <2> HIDE DEF A, new, at, last
  <2>3. A = [k \in new |-> IF at(k) = {} THEN NewPeerSelector[k] ELSE last(k)]
    BY Zenon, <2>1, <2>2
  <2> QED
    BY Zenon, <2>3
<1>4. \A k \in new : at(k) # {}
  BY Zenon DEF KeyedAt
<1>5. \A k \in DOMAIN m : at(k) = {}
  BY Zenon, Added
<1> HIDE DEF A, new, at, last
<1>6. f = g
  BY Zenon, <1>3, <1>4, <1>5
<1> QED
  BY Zenon, <1>1, <1>6 DEF A, Beside
=============================================================================
