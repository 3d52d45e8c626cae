--------------------------- MODULE SelectionProofs ---------------------------
(* Proofs about what discovery chooses: the pools whose relays are          *)
(* big-ledger peers, and the peers that Select returns.                     *)
EXTENDS LedgerPeersProofs

(* total - total/10 in bigLedgerPeers is nine tenths, rounded up. *)
LEMMA NineTenths ==
  ASSUME NEW t \in Nat
  PROVE  /\ bigThreshold(t) \in Nat /\ bigThreshold(t) <= t
         /\ \A a \in Nat : a >= bigThreshold(t) <=> 10 * a >= 9 * t
<1> DEFINE q == t \div 10
<1>1. q \in Nat /\ 10 * q <= t /\ t < 10 * q + 10
  OBVIOUS
<1>2. bigThreshold(t) = t - q
  BY Zenon DEF bigThreshold
<1> HIDE DEF q
<1> QED
  BY <1>1, <1>2

-----------------------------------------------------------------------------
(* Sums over the beginning of a list *)

Summable(f, K) == IsFiniteSet(K) /\ \A k \in K : f[k] \in Nat

LEMMA SumSplits ==
  ASSUME NEW K, NEW f, Summable(f, K)
  PROVE  /\ SumFunctionOnSet(f, {}) = 0
         /\ \A U \in SUBSET K :
              /\ SumFunctionOnSet(f, U) \in Nat
              /\ \A x \in U : SumFunctionOnSet(f, U) = f[x] + SumFunctionOnSet(f, U \ {x})
<1>1. IsFiniteSet(K) /\ \A k \in K : f[k] \in Nat
  BY Zenon DEF Summable
<1>2. SumFunctionOnSet(f, {}) = 0
  BY Zenon, <1>1, SumLaw
<1>3. \A U \in SUBSET K :
        /\ SumFunctionOnSet(f, U) \in Nat
        /\ \A x \in U : SumFunctionOnSet(f, U) = f[x] + SumFunctionOnSet(f, U \ {x})
  BY <1>1, SumLaw
<1> QED
  BY Zenon, <1>2, <1>3

First(o, m) == {o[i] : i \in 1..m}

(* o lists elements of K, none twice. *)
Lists(o, n, K) ==
  /\ \A i \in 1..n : o[i] \in K
  /\ \A i, j \in 1..n : i # j => o[i] # o[j]

OneMore(o, m, K) ==
  /\ First(o, m) \in SUBSET K /\ o[m] \in First(o, m)
  /\ First(o, m) \ {o[m]} = First(o, m - 1)

LEMMA FirstOneMore ==
  ASSUME NEW K, NEW n \in Nat, NEW o, Lists(o, n, K)
  PROVE  \A m \in 1..n : OneMore(o, m, K)
<1> SUFFICES ASSUME NEW m \in 1..n
             PROVE  OneMore(o, m, K)
  BY Zenon
<1>1. /\ \A i \in 1..m : i \in 1..n
      /\ \A i \in 1..(m - 1) : i \in 1..m /\ i # m /\ i \in 1..n
      /\ \A i \in 1..m : i # m => i \in 1..(m - 1)
      /\ m \in 1..m
  OBVIOUS
<1>2. First(o, m) \in SUBSET K /\ o[m] \in First(o, m)
  BY Zenon, <1>1 DEF First, Lists
<1>3. \A x \in First(o, m) \ {o[m]} : x \in First(o, m - 1)
  BY Zenon, <1>1 DEF First
<1>4. \A x \in First(o, m - 1) : x \in First(o, m) \ {o[m]}
  BY Zenon, <1>1 DEF First, Lists
<1>5. First(o, m) \ {o[m]} = First(o, m - 1)
  BY Zenon, <1>3, <1>4
<1> QED
  BY Zenon, <1>2, <1>5 DEF OneMore

LEMMA FirstSums ==
  ASSUME NEW K, NEW f, Summable(f, K),
         NEW n \in Nat, NEW o, Lists(o, n, K)
  PROVE  /\ SumFunctionOnSet(f, First(o, 0)) = 0
         /\ \A m \in 1..n : SumFunctionOnSet(f, First(o, m)) =
                              f[o[m]] + SumFunctionOnSet(f, First(o, m - 1))
         /\ \A m \in 0..n : /\ First(o, m) \in SUBSET K
                            /\ SumFunctionOnSet(f, First(o, m)) \in Nat
<1>1. First(o, 0) = {}
  BY DEF First
<1>2. SumFunctionOnSet(f, {}) = 0
  BY Zenon, SumSplits
<1>3. ASSUME NEW m \in 1..n
      PROVE  SumFunctionOnSet(f, First(o, m)) = f[o[m]] + SumFunctionOnSet(f, First(o, m - 1))
  <2>1. /\ First(o, m) \in SUBSET K /\ o[m] \in First(o, m)
        /\ First(o, m) \ {o[m]} = First(o, m - 1)
    <3>1. OneMore(o, m, K)
      BY Zenon, FirstOneMore
    <3> QED
      BY Zenon, <3>1 DEF OneMore
  <2>2. \A U \in SUBSET K :
          /\ SumFunctionOnSet(f, U) \in Nat
          /\ \A x \in U : SumFunctionOnSet(f, U) = f[x] + SumFunctionOnSet(f, U \ {x})
    BY SumSplits
  <2>3. SumFunctionOnSet(f, First(o, m)) =
          f[o[m]] + SumFunctionOnSet(f, First(o, m) \ {o[m]})
    BY Zenon, <2>1, <2>2
  <2> QED
    BY Zenon, <2>1, <2>3
<1>4. ASSUME NEW m \in 0..n PROVE First(o, m) \in SUBSET K
  <2>1. \A i \in 1..m : i \in 1..n
    OBVIOUS
  <2> QED
    BY Zenon, <2>1 DEF First, Lists
<1>5. ASSUME NEW m \in 0..n PROVE SumFunctionOnSet(f, First(o, m)) \in Nat
  BY Zenon, <1>4, SumSplits
<1> QED
  BY Zenon, <1>1, <1>2, <1>3, <1>4, <1>5

(* A part of the list sums to no more than the whole. *)
LEMMA FirstBounded ==
  ASSUME NEW K, NEW f, Summable(f, K),
         NEW n \in Nat, NEW o, Lists(o, n, K), NEW m \in 0..n
  PROVE  SumFunctionOnSet(f, First(o, m)) <= SumFunctionOnSet(f, First(o, n))
<1> DEFINE a(l) == SumFunctionOnSet(f, First(o, l))
           T == {d \in Nat : d <= n /\ ~(a(n - d) <= a(n))}
<1>1. /\ \A l \in 0..n : a(l) \in Nat
      /\ \A l \in 1..n : a(l) = f[o[l]] + a(l - 1)
  BY FirstSums
<1>0. \A l \in 1..n : f[o[l]] \in Nat
  BY Zenon DEF Lists, Summable
<1> HIDE DEF a
<1>2. T = {}
  <2> SUFFICES ASSUME T # {} PROVE FALSE
    BY Zenon
  <2>1. PICK d \in T : \A e \in T : d <= e
    BY Zenon, LeastNatural
  <2>2. d \in Nat /\ d <= n /\ ~(a(n - d) <= a(n))
    BY Zenon, <2>1
  <2>3. d # 0
    <3>1. n - 0 = n /\ a(n) \in Nat
      BY <1>1
    <3>2. a(n) <= a(n)
      BY <3>1
    <3> QED
      BY Zenon, <2>2, <3>1, <3>2
  <2>4. d - 1 \in Nat /\ d - 1 <= n /\ ~(d <= d - 1)
    BY <2>2, <2>3
  <2>5. a(n - (d - 1)) <= a(n)
    BY Zenon, <2>1, <2>4
  <2> DEFINE l == n - (d - 1)
  <2>6. l \in 1..n /\ l - 1 = n - d /\ l \in 0..n /\ l - 1 \in 0..n /\ n \in 0..n
    BY <2>2, <2>3
  <2> HIDE DEF l
  <2>7. a(l) = f[o[l]] + a(l - 1) /\ f[o[l]] \in Nat /\ a(l - 1) \in Nat /\ a(n) \in Nat
    BY Zenon, <1>0, <1>1, <2>6
  <2>8. a(l) <= a(n) /\ ~(a(l - 1) <= a(n))
    BY Zenon, <2>2, <2>5, <2>6 DEF l
  <2> QED
    BY <2>7, <2>8
<1>3. n - m \in Nat /\ n - m <= n /\ n - (n - m) = m
  OBVIOUS
<1>4. a(m) <= a(n)
  BY Zenon, <1>2, <1>3
<1> QED
  BY Zenon, <1>4 DEF a

(* Adding up the values in the order of the list. *)
LEMMA SumInOrder ==
  ASSUME NEW K, NEW f, Summable(f, K),
         NEW n \in Nat, NEW o, Lists(o, n, K)
  PROVE  SumFunction([i \in 1..n |-> f[o[i]]]) = SumFunctionOnSet(f, First(o, n))
<1> DEFINE g == [i \in 1..n |-> f[o[i]]]
           id == [i \in 1..n |-> i]
           a(l) == SumFunctionOnSet(f, First(o, l))
           b(l) == SumFunctionOnSet(g, First(id, l))
           T == {l \in Nat : l <= n /\ a(l) # b(l)}
<1>1. /\ a(0) = 0 /\ \A l \in 1..n : a(l) = f[o[l]] + a(l - 1)
  BY FirstSums
<1>2. IsFiniteSet(1..n)
  <2>1. 1 \in Int /\ n \in Int
    OBVIOUS
  <2> QED
    BY Zenon, <2>1, FS_Interval
<1>3. Summable(g, 1..n) /\ Lists(id, n, 1..n)
  BY Zenon, <1>2 DEF Lists, Summable
<1>4. b(0) = 0 /\ \A l \in 1..n : b(l) = g[id[l]] + b(l - 1)
  <2> HIDE DEF g, id
  <2>1. /\ SumFunctionOnSet(g, First(id, 0)) = 0
        /\ \A l \in 1..n : SumFunctionOnSet(g, First(id, l)) =
                             g[id[l]] + SumFunctionOnSet(g, First(id, l - 1))
    BY <1>2, <1>3, FirstSums
  <2> QED
    BY Zenon, <2>1
<1>5. \A l \in 1..n : g[id[l]] = f[o[l]]
  BY Zenon
<1>6. First(id, n) = 1..n
  BY Zenon DEF First
<1>7. SumFunction(g) = b(n)
  <2>1. DOMAIN g = 1..n
    BY Zenon
  <2> HIDE DEF g, id
  <2> QED
    BY Zenon, <1>6, <2>1 DEF SumFunction
<1> HIDE DEF a, b, g, id
<1>8. T = {}
  <2> SUFFICES ASSUME T # {} PROVE FALSE
    BY Zenon
  <2>1. PICK d \in T : \A e \in T : d <= e
    BY Zenon, LeastNatural
  <2>2. d \in Nat /\ d <= n /\ a(d) # b(d)
    BY Zenon, <2>1
  <2>3. d # 0
    BY Zenon, <1>1, <1>4, <2>2
  <2>4. d - 1 \in Nat /\ d - 1 <= n /\ ~(d <= d - 1) /\ d \in 1..n
    BY <2>2, <2>3
  <2>5. a(d - 1) = b(d - 1)
    BY Zenon, <2>1, <2>4
  <2> QED
    BY Zenon, <1>1, <1>4, <1>5, <2>2, <2>4, <2>5
<1>9. n <= n
  OBVIOUS
<1>10. a(n) = b(n)
  BY Zenon, <1>8, <1>9
<1> QED
  BY Zenon, <1>7, <1>10 DEF a, g

-----------------------------------------------------------------------------
(* The pools of the big-ledger peers.  f is the stake of each pool, o lists *)
(* the pools from high to low, and N are the places that the loop reaches   *)
(* before the stake so far is nine tenths.                                  *)

TakenFrom(f, K, o, n, total, N, big) ==
  /\ Summable(f, K) /\ n \in Nat /\ Lists(o, n, K) /\ First(o, n) = K
  /\ \A i, j \in 1..n : i < j => f[o[i]] >= f[o[j]]
  /\ total = SumFunctionOnSet(f, K) /\ total # 0
  /\ N = {m \in 1..n : \A l \in 1..(m - 1) :
            SumFunctionOnSet(f, First(o, l)) < bigThreshold(total)}
  /\ big = {o[m] : m \in N}
TopOf(f, K, total, big) ==
  /\ big \subseteq K
  /\ \A k \in big, l \in K \ big : f[k] >= f[l]
  /\ 10 * SumFunctionOnSet(f, big) >= 9 * total
  /\ \A k \in big :
       (\A l \in big : f[k] <= f[l]) => 10 * SumFunctionOnSet(f, big \ {k}) < 9 * total

LEMMA TopStake ==
  ASSUME NEW f, NEW K, NEW o, NEW n, NEW total, NEW N, NEW big,
         TakenFrom(f, K, o, n, total, N, big)
  PROVE  TopOf(f, K, total, big)
<1> SUFFICES
      ASSUME Summable(f, K), n \in Nat, Lists(o, n, K), First(o, n) = K,
             \A i, j \in 1..n : i < j => f[o[i]] >= f[o[j]],
             total = SumFunctionOnSet(f, K), total # 0,
             N = {m \in 1..n : \A l \in 1..(m - 1) :
                    SumFunctionOnSet(f, First(o, l)) < bigThreshold(total)},
             big = {o[m] : m \in N}
      PROVE  TopOf(f, K, total, big)
  BY Zenon DEF TakenFrom
<1> DEFINE a(l) == SumFunctionOnSet(f, First(o, l))
           th == bigThreshold(total)
<1>1. /\ a(0) = 0 /\ \A l \in 0..n : a(l) \in Nat
      /\ \A l \in 1..n : a(l) = f[o[l]] + a(l - 1)
  BY FirstSums
<1>2. total \in Nat /\ total = a(n)
  <2>1. n \in 0..n
    OBVIOUS
  <2> QED
    BY Zenon, <1>1, <2>1
<1>3. /\ th \in Nat /\ th <= total
      /\ \A x \in Nat : x >= th <=> 10 * x >= 9 * total
  BY Zenon, <1>2, NineTenths
<1>4. N = {m \in 1..n : \A l \in 1..(m - 1) : a(l) < th}
  BY Zenon
<1> HIDE DEF a, th
<1>5. n # 0
  BY Zenon, <1>1, <1>2
<1>6. 1 \in N /\ N \in SUBSET (0..n) /\ N # {}
  <2>1. 1 \in 1..n /\ \A l \in 1..(1 - 1) : FALSE
    BY <1>5
  <2>2. \A m \in 1..n : m \in 0..n
    OBVIOUS
  <2> QED
    BY Zenon, <1>4, <2>1, <2>2
<1> DEFINE M == Max(N)
<1>7. M \in N /\ \A y \in N : y <= M
  BY Zenon, <1>6, MaxBounds
<1> HIDE DEF M
<1>8. M \in 1..n /\ M \in Nat /\ M - 1 \in 0..n
  <2>1. M \in 1..n
    BY Zenon, <1>4, <1>7
  <2> QED
    BY <2>1
<1>9. ASSUME NEW y \in 1..M PROVE y \in N
  <2>1. y \in 1..n /\ \A l \in 1..(y - 1) : l \in 1..(M - 1)
    BY <1>8
  <2> QED
    BY Zenon, <1>4, <1>7, <2>1
<1>10. N = 1..M
  <2>1. ASSUME NEW y \in N PROVE y \in 1..M
    <3>1. y \in 1..n /\ y <= M
      BY Zenon, <1>4, <1>7
    <3> QED
      BY <1>8, <3>1
  <2> QED
    BY Zenon, <1>9, <2>1
<1>11. big = First(o, M)
  BY Zenon, <1>10 DEF First
<1>12. a(M) >= th
  <2>1. CASE M = n
    <3>1. total >= th
      BY Zenon, <1>2, <1>3
    <3> QED
      BY Zenon, <1>2, <2>1, <3>1
  <2>2. CASE M # n
    <3>1. M + 1 \in 1..n /\ ~(M + 1 <= M) /\ (M + 1) - 1 = M
      BY <1>8, <2>2
    <3>2. PICK l \in 1..M : ~(a(l) < th)
      BY Zenon, <1>4, <1>7, <3>1
    <3>3. l \notin 1..(M - 1)
      BY Zenon, <1>4, <1>7, <3>2
    <3>4. l = M
      BY <1>8, <3>3
    <3>5. a(M) \in Nat
      BY <1>1, <1>8, <3>1
    <3>6. ~(a(M) < th)
      BY Zenon, <3>2, <3>4
    <3> QED
      BY <1>3, <3>5, <3>6
  <2> QED
    BY Zenon, <2>1, <2>2
<1>13. 10 * a(M - 1) < 9 * total
  <2>1. a(M - 1) \in Nat
    BY Zenon, <1>1, <1>8
  <2>2. CASE M = 1
    <3>1. M - 1 = 0
      BY <2>2
    <3>2. a(M - 1) = 0
      BY Zenon, <1>1, <3>1
    <3> QED
      BY <1>2, <3>2
  <2>3. CASE M # 1
    <3>1. M - 1 \in 1..(M - 1)
      BY <1>8, <2>3
    <3>2. a(M - 1) < th
      BY Zenon, <1>4, <1>7, <3>1
    <3>3. ~(a(M - 1) >= th)
      BY <1>3, <2>1, <3>2
    <3>4. ~(10 * a(M - 1) >= 9 * total)
      BY Zenon, <1>3, <2>1, <3>3
    <3> QED
      BY <1>2, <2>1, <3>4
  <2> QED
    BY Zenon, <2>2, <2>3
<1>14. big \subseteq K
  BY Zenon, <1>8, <1>11, FirstOneMore DEF OneMore
<1>15. ASSUME NEW k \in big, NEW l \in K \ big PROVE f[k] >= f[l]
  <2>1. PICK i \in 1..M : k = o[i]
    BY Zenon, <1>11 DEF First
  <2>2. PICK j \in 1..n : l = o[j]
    BY Zenon DEF First
  <2>3. j \notin 1..M
    BY Zenon, <1>11, <2>2 DEF First
  <2>4. i \in 1..n /\ i < j
    BY <1>8, <2>3
  <2> QED
    BY Zenon, <2>1, <2>2, <2>4
<1>16. 10 * SumFunctionOnSet(f, big) >= 9 * total
  <2>1. SumFunctionOnSet(f, big) = a(M)
    BY Zenon, <1>11 DEF a
  <2>2. M \in 0..n
    BY <1>8
  <2>3. a(M) \in Nat
    BY Zenon, <1>1, <2>2
  <2> QED
    BY Zenon, <1>3, <1>12, <2>1, <2>3
<1>17. ASSUME NEW k \in big, \A l \in big : f[k] <= f[l]
       PROVE  10 * SumFunctionOnSet(f, big \ {k}) < 9 * total
  <2>1. PICK i \in 1..M : k = o[i]
    BY Zenon, <1>11 DEF First
  <2>2. o[M] \in big /\ f[k] \in Nat /\ f[o[M]] \in Nat
    <3>1. M \in 1..M
      BY <1>8
    <3>2. o[M] \in big
      BY Zenon, <1>11, <3>1 DEF First
    <3> QED
      BY Zenon, <1>14, <3>2 DEF Summable
  <2>3. f[k] <= f[o[M]]
    BY Zenon, <1>17, <2>2
  <2>4. f[k] = f[o[M]]
    <3>1. CASE i = M
      BY Zenon, <2>1, <3>1
    <3>2. CASE i # M
      <4>1. i \in 1..n /\ i < M
        BY <1>8, <3>2
      <4>2. f[k] >= f[o[M]]
        BY Zenon, <1>8, <2>1, <4>1
      <4> QED
        BY <2>2, <2>3, <4>2
    <3> QED
      BY Zenon, <3>1, <3>2
  <2> DEFINE s == SumFunctionOnSet(f, big \ {k})
  <2>5. big \ {k} \in SUBSET K /\ big \in SUBSET K
    BY Zenon, <1>14
  <2>6. s \in Nat /\ SumFunctionOnSet(f, big) = f[k] + s
    <3>1. \A U \in SUBSET K :
            /\ SumFunctionOnSet(f, U) \in Nat
            /\ \A x \in U : SumFunctionOnSet(f, U) = f[x] + SumFunctionOnSet(f, U \ {x})
      BY SumSplits
    <3> QED
      BY Zenon, <2>5, <3>1
  <2> HIDE DEF s
  <2>7. f[k] + s = f[o[M]] + a(M - 1)
    BY Zenon, <1>1, <1>8, <1>11, <2>6 DEF a
  <2>8. a(M - 1) \in Nat
    BY Zenon, <1>1, <1>8
  <2>9. s = a(M - 1)
    BY <2>2, <2>4, <2>6, <2>7, <2>8
  <2> QED
    BY Zenon, <1>13, <2>9 DEF s
<1> QED
  BY Zenon, <1>14, <1>15, <1>16, <1>17 DEF TopOf

-----------------------------------------------------------------------------
(* The stakes of the pools, and the order in which they are taken *)

(* The keys of two places without a pool ID differ. *)
LEMMA ItoaApart ==
  ASSUME NEW i \in Nat \ {0}, NEW j \in Nat \ {0}
  PROVE  Itoa(i - 1) \in Nat /\ (Itoa(i - 1) = Itoa(j - 1) => i = j)
<1>1. ASSUME NEW n \in Nat
      PROVE  \/ Itoa(n) = 60000 * n + 1
             \/ Itoa(n) = 6000 * n + 2
             \/ Itoa(n) = 600 * n + 3
             \/ Itoa(n) = 60 * n + 4
             \/ Itoa(n) = 6 * n + 5
  BY DEF Itoa
<1>2. i - 1 \in Nat /\ j - 1 \in Nat
  OBVIOUS
<1> QED
  BY <1>1, <1>2

StakedAt(peers) == {i \in DOMAIN peers : peers[i].stake > 0}
KeyAt(peers, i) == ledgerPeerPoolKey(peers[i], i)
StakesAt(peers, k) == {peers[i].stake : i \in {j \in StakedAt(peers) : KeyAt(peers, j) = k}}

LEMMA PoolStakesAre ==
  ASSUME NEW peers
  PROVE  poolStakes(peers) =
           [k \in {KeyAt(peers, i) : i \in StakedAt(peers)} |-> Max(StakesAt(peers, k))]
  BY Zenon DEF poolStakes, StakedAt, KeyAt, StakesAt

LEMMA PoolStakesTyped ==
  ASSUME NEW peers \in Seq(Entry)
  PROVE  LET f == poolStakes(peers) IN
         /\ Summable(f, DOMAIN f)
         /\ \A k \in DOMAIN f : k \in Nat \X Nat /\ f[k] \in StakesAt(peers, k)
<1> DEFINE D == DOMAIN peers
           f == poolStakes(peers)
           s == [i \in D |-> peers[i].stake]
           top == SumFunctionOnSet(s, D)
<1>1. Len(peers) \in Nat /\ D = 1..Len(peers) /\ \A i \in D : peers[i] \in Entry
  BY Zenon, Elements
<1>2. \A i \in D : i \in Nat /\ peers[i].stake \in Nat /\ peers[i].pool \in Nat
  <2>1. \A i \in D : peers[i].stake \in Nat /\ peers[i].pool \in Nat
    BY Zenon, <1>1 DEF Entry
  <2>2. \A i \in D : i \in Nat
    BY <1>1
  <2> QED
    BY Zenon, <2>1, <2>2
<1>3. IsFiniteSet(D)
  <2>1. 1 \in Int /\ Len(peers) \in Int
    BY <1>1
  <2> QED
    BY Zenon, <1>1, <2>1, FS_Interval
<1>4. top \in Nat /\ \A i \in D : peers[i].stake <= top
  <2>1. \A i \in D : s[i] = peers[i].stake /\ s[i] \in Nat
    BY Zenon, <1>2
  <2> HIDE DEF s, D
  <2>2. /\ \A U \in SUBSET D : SumFunctionOnSet(s, U) \in Nat
        /\ \A U \in SUBSET D : \A x \in U : s[x] <= SumFunctionOnSet(s, U)
    BY Zenon, <1>3, <2>1, SumLaw
  <2>3. D \in SUBSET D
    BY Zenon
  <2> QED
    BY Zenon, <2>1, <2>2, <2>3
<1>5. \A i \in D : peers[i].stake \in 0..top
  <2> HIDE DEF top, D
  <2> QED
    BY <1>2, <1>4
<1> HIDE DEF top, s
<1>6. /\ DOMAIN f = {KeyAt(peers, i) : i \in StakedAt(peers)}
      /\ \A k \in DOMAIN f : f[k] = Max(StakesAt(peers, k))
  BY Zenon, PoolStakesAre
<1> HIDE DEF f
<1>7. ASSUME NEW k \in DOMAIN f PROVE f[k] \in StakesAt(peers, k) /\ f[k] \in Nat
  <2>1. StakesAt(peers, k) \in SUBSET (0..top) /\ StakesAt(peers, k) # {}
    <3>1. \A x \in StakesAt(peers, k) : x \in 0..top
      BY Zenon, <1>5 DEF StakesAt, StakedAt
    <3>2. PICK i \in StakedAt(peers) : k = KeyAt(peers, i)
      BY Zenon, <1>6
    <3>3. peers[i].stake \in StakesAt(peers, k)
      BY Zenon, <3>2 DEF StakesAt
    <3> QED
      BY Zenon, <3>1, <3>3
  <2>2. f[k] \in StakesAt(peers, k)
    BY Zenon, <1>4, <1>6, <2>1, MaxBounds
  <2>3. \A x \in StakesAt(peers, k) : x \in Nat
    BY Zenon, <1>2 DEF StakesAt, StakedAt
  <2> QED
    BY Zenon, <2>2, <2>3
<1>8. ASSUME NEW k \in DOMAIN f PROVE k \in Nat \X Nat
  <2>1. PICK i \in D : k = KeyAt(peers, i)
    BY Zenon, <1>6 DEF StakedAt
  <2>2. i \in Nat \ {0}
    BY <1>1
  <2>3. 1 \in Nat /\ 2 \in Nat /\ Itoa(i - 1) \in Nat
    BY Zenon, <2>2, ItoaApart
  <2> QED
    BY Zenon, <1>2, <2>1, <2>3 DEF KeyAt, ledgerPeerPoolKey
<1>9. IsFiniteSet(DOMAIN f)
  <2>1. StakedAt(peers) \in SUBSET D
    BY Zenon DEF StakedAt
  <2>2. IsFiniteSet(StakedAt(peers))
    BY Zenon, <1>3, <2>1, FS_Subset
  <2> DEFINE key == [i \in StakedAt(peers) |-> KeyAt(peers, i)]
  <2>3. key \in Surjection(StakedAt(peers), DOMAIN f)
    BY Zenon, <1>6 DEF Surjection
  <2> QED
    BY Zenon, <2>2, <2>3, FS_Surjection
<1> QED
  BY Zenon, <1>7, <1>8, <1>9 DEF Summable, f

PoolBefore(f, k, l) == f[k] > f[l] \/ (f[k] = f[l] /\ Below(k, l))
PoolOrder(f) ==
  LET ranked == {<<Cardinality({l \in DOMAIN f : PoolBefore(f, l, k)}) + 1, k>> : k \in DOMAIN f}
      n == Cardinality(DOMAIN f)
  IN SubSeq([i \in 1..n |-> (CHOOSE r \in ranked : r[1] = i)[2]], 1, n)
Acc(f, o, n) == SumFunction([i \in 1..n |-> f[o[i]]]) % (MaxWord + 1)
Taken(f, o, total) ==
  {o[n] : n \in {m \in DOMAIN o : \A l \in 1..(m - 1) : Acc(f, o, l) < bigThreshold(total)}}

(* selectedPools without the operators that are parameters. *)
LEMMA SelectedAre ==
  ASSUME NEW peers
  PROVE  LET f == poolStakes(peers)
             total == SumFunction(f) % (MaxWord + 1)
         IN selectedPools(peers) = IF total = 0 THEN {} ELSE Taken(f, PoolOrder(f), total)
  BY Zenon DEF selectedPools, OrderedBy, PoolOrder, PoolBefore, Acc, Taken

(* By stake, then by key, is a strict order, and PoolOrder lists the pools  *)
(* in it.                                                                   *)
LEMMA PoolOrderLists ==
  ASSUME NEW f, Summable(f, DOMAIN f), \A k \in DOMAIN f : k \in Nat \X Nat
  PROVE  LET K == DOMAIN f
             o == PoolOrder(f)
             n == Cardinality(K) IN
         /\ n \in Nat /\ DOMAIN o = 1..n /\ Lists(o, n, K) /\ First(o, n) = K
         /\ \A i, j \in 1..n : i < j => f[o[i]] >= f[o[j]]
<1> DEFINE K == DOMAIN f
           n == Cardinality(K)
           R == {r \in K \X K : PoolBefore(f, r[1], r[2])}
           a(k) == f[k]
           b(k) == k[1]
           c(k) == k[2]
           lex(k, l) == Lex(a(k), b(k), c(k), 0, a(l), b(l), c(l), 0)
<1>1. IsFiniteSet(K) /\ \A k \in K : f[k] \in Nat
  <2>1. Summable(f, K)
    BY Zenon
  <2> HIDE DEF K
  <2> QED
    BY Zenon, <2>1 DEF Summable
<1>2. \A k \in K : k \in Nat \X Nat /\ k = <<b(k), c(k)>>
  OBVIOUS
<1>3. \A k \in K : a(k) \in Nat /\ b(k) \in Nat /\ c(k) \in Nat
  BY Zenon, <1>1, <1>2
<1>4. \A k, l \in K : <<k, l>> \in R <=> PoolBefore(f, k, l)
  BY Zenon
<1>5. \A k, l \in K : PoolBefore(f, k, l) <=>
        a(k) > a(l) \/ (a(k) = a(l) /\ (b(k) < b(l) \/ (b(k) = b(l) /\ c(k) < c(l))))
  BY Zenon DEF PoolBefore, Below
<1> HIDE DEF a, b, c, K, R
<1>6. \A k, l \in K : PoolBefore(f, k, l) <=> lex(k, l)
  <2>1. ASSUME NEW k \in K, NEW l \in K PROVE PoolBefore(f, k, l) <=> lex(k, l)
    <3>1. /\ a(k) \in Nat /\ b(k) \in Nat /\ c(k) \in Nat
          /\ a(l) \in Nat /\ b(l) \in Nat /\ c(l) \in Nat
      BY Zenon, <1>3
    <3>2. PoolBefore(f, k, l) <=>
            a(k) > a(l) \/ (a(k) = a(l) /\ (b(k) < b(l) \/ (b(k) = b(l) /\ c(k) < c(l))))
      BY Zenon, <1>5
    <3> QED
      BY <3>1, <3>2 DEF Lex
  <2> QED
    BY Zenon, <2>1
<1>7. \A k \in K : ~lex(k, k)
  <2>1. ASSUME NEW k \in K PROVE ~lex(k, k)
    <3>1. a(k) \in Nat /\ b(k) \in Nat /\ c(k) \in Nat
      BY Zenon, <1>3
    <3> QED
      BY <3>1 DEF Lex
  <2> QED
    BY Zenon, <2>1
<1>8. \A k, l \in K : k # l => lex(k, l) \/ lex(l, k)
  <2>1. ASSUME NEW k \in K, NEW l \in K, k # l PROVE lex(k, l) \/ lex(l, k)
    <3>1. /\ a(k) \in Nat /\ b(k) \in Nat /\ c(k) \in Nat
          /\ a(l) \in Nat /\ b(l) \in Nat /\ c(l) \in Nat
      BY Zenon, <1>3
    <3>2. ~(b(k) = b(l) /\ c(k) = c(l))
      BY Zenon, <1>2, <2>1
    <3> QED
      BY <3>1, <3>2 DEF Lex
  <2> QED
    BY Zenon, <2>1
<1>9. \A j, k, l \in K : lex(j, k) /\ lex(k, l) => lex(j, l)
  <2>1. ASSUME NEW j \in K, NEW k \in K, NEW l \in K, lex(j, k), lex(k, l) PROVE lex(j, l)
    <3>1. /\ a(j) \in Nat /\ b(j) \in Nat /\ c(j) \in Nat
          /\ a(k) \in Nat /\ b(k) \in Nat /\ c(k) \in Nat
          /\ a(l) \in Nat /\ b(l) \in Nat /\ c(l) \in Nat
      BY Zenon, <1>3
    <3> QED
      BY <2>1, <3>1 DEF Lex
  <2> QED
    BY Zenon, <2>1
<1>10. \A k, l \in K : lex(k, l) => a(k) >= a(l)
  <2>1. ASSUME NEW k \in K, NEW l \in K, lex(k, l) PROVE a(k) >= a(l)
    <3>1. a(k) \in Nat /\ a(l) \in Nat
      BY Zenon, <1>3
    <3> QED
      BY <2>1, <3>1 DEF Lex
  <2> QED
    BY Zenon, <2>1
<1> HIDE DEF lex
<1>11. StrictOrder(K, R)
  BY Zenon, <1>4, <1>6, <1>7, <1>8, <1>9 DEF StrictOrder
<1> DEFINE o == Ordered(K, R)
<1>12. PoolOrder(f) = o
  <2>1. \A k \in K : Down(K, R, k) = {l \in K : PoolBefore(f, l, k)}
    BY Zenon, <1>4 DEF Down
  <2> DEFINE ranked == {<<Cardinality(Down(K, R, k)) + 1, k>> : k \in K}
             given == {<<Cardinality({l \in K : PoolBefore(f, l, k)}) + 1, k>> : k \in K}
  <2>2. given = ranked
    BY Zenon, <2>1
  <2> DEFINE list(Q) == SubSeq([i \in 1..n |-> (CHOOSE r \in Q : r[1] = i)[2]], 1, n)
  <2>3. o = list(ranked)
    BY Zenon DEF Ordered
  <2>4. PoolOrder(f) = list(given)
    BY Zenon DEF PoolOrder, K
  <2> HIDE DEF given, ranked, list, o
  <2> QED
    BY Zenon, <2>2, <2>3, <2>4
<1>13. /\ n \in Nat /\ DOMAIN o = 1..n
       /\ \A k \in 1..n : o[k] \in K
       /\ \A x \in K : \E k \in 1..n : o[k] = x
       /\ \A j, k \in 1..n : j < k <=> <<o[j], o[k]>> \in R
  <2>1. n \in Nat /\ DOMAIN o = 1..n
    BY Zenon, <1>1, <1>11, OrderedList
  <2>2. \A k \in 1..n : o[k] \in K
    BY Zenon, <1>1, <1>11, OrderedList
  <2>3. \A x \in K : \E k \in 1..n : o[k] = x
    BY <1>1, <1>11, OrderedList
  <2>4. \A j, k \in 1..n : j < k <=> <<o[j], o[k]>> \in R
    BY Zenon, <1>1, <1>11, OrderedList
  <2> QED
    BY Zenon, <2>1, <2>2, <2>3, <2>4
<1> HIDE DEF o, n
<1>14. \A i, j \in 1..n : i < j => f[o[i]] >= f[o[j]]
  BY Zenon, <1>4, <1>6, <1>10, <1>13 DEF a
<1>15. \A i, j \in 1..n : i # j => o[i] # o[j]
  <2>1. ASSUME NEW i \in 1..n, NEW j \in 1..n, i # j PROVE o[i] # o[j]
    <3>1. i < j \/ j < i
      BY <1>13, <2>1
    <3>2. <<o[i], o[j]>> \in R \/ <<o[j], o[i]>> \in R
      BY Zenon, <1>13, <3>1
    <3> QED
      BY Zenon, <1>11, <1>13, <3>2 DEF StrictOrder
  <2> QED
    BY Zenon, <2>1
<1>16. Lists(o, n, K) /\ First(o, n) = K
  BY Zenon, <1>13, <1>15 DEF Lists, First
<1> QED
  BY Zenon, <1>12, <1>13, <1>14, <1>16 DEF K, n

(* The sums that selectedPools keeps do not wrap around: each is the stake  *)
(* of the first pools, at most the total.                                   *)
LEMMA AccIsSum ==
  ASSUME NEW K, NEW f, Summable(f, K), NEW n \in Nat, NEW o, Lists(o, n, K),
         SumFunctionOnSet(f, First(o, n)) <= MaxWord, NEW m \in 0..n
  PROVE  Acc(f, o, m) = SumFunctionOnSet(f, First(o, m))
<1>1. m \in Nat /\ Lists(o, m, K)
  <2>1. m \in Nat /\ \A i \in 1..m : i \in 1..n
    OBVIOUS
  <2> QED
    BY Zenon, <2>1 DEF Lists
<1>2. SumFunction([i \in 1..m |-> f[o[i]]]) = SumFunctionOnSet(f, First(o, m))
  BY Zenon, <1>1, SumInOrder
<1> DEFINE a == SumFunctionOnSet(f, First(o, m))
           b == SumFunctionOnSet(f, First(o, n))
<1>3. a <= b
  BY Zenon, FirstBounded
<1>4. a \in Nat /\ b \in Nat
  <2>1. \A l \in 0..n : /\ First(o, l) \in SUBSET K
                        /\ SumFunctionOnSet(f, First(o, l)) \in Nat
    BY Zenon, FirstSums
  <2>2. n \in 0..n
    OBVIOUS
  <2> QED
    BY Zenon, <2>1, <2>2
<1>5. Acc(f, o, m) = a % (MaxWord + 1)
  BY Zenon, <1>2 DEF Acc
<1> HIDE DEF a, b
<1>6. b <= MaxWord
  BY Zenon DEF b
<1>7. a % (MaxWord + 1) = a
  BY <1>3, <1>4, <1>6, LedgerPeersAssumption
<1> QED
  BY Zenon, <1>5, <1>7 DEF a

(* What bigLedgerPeers is for, of any snapshot whose stake fits in a uint64. *)
LEMMA BigPools ==
  ASSUME NEW peers \in Seq(Entry), SumFunction(poolStakes(peers)) <= MaxWord
  PROVE  LET stakes == poolStakes(peers)
             big == selectedPools(peers)
             total == SumFunction(stakes)
             sum(K) == SumFunctionOnSet(stakes, K)
         IN /\ big \subseteq DOMAIN stakes
            /\ \A k \in big, l \in DOMAIN stakes \ big : stakes[k] >= stakes[l]
            /\ 10 * sum(big) >= 9 * total
            /\ \A k \in big :
                 (\A l \in big : stakes[k] <= stakes[l]) => 10 * sum(big \ {k}) < 9 * total
<1> DEFINE f == poolStakes(peers)
           K == DOMAIN f
           o == PoolOrder(f)
           n == Cardinality(K)
           total == SumFunctionOnSet(f, K)
           big == selectedPools(peers)
           N == {m \in 1..n : \A l \in 1..(m - 1) :
                   SumFunctionOnSet(f, First(o, l)) < bigThreshold(total)}
<1>1. Summable(f, K) /\ \A k \in K : k \in Nat \X Nat
  BY Zenon, PoolStakesTyped
<1>2. SumFunction(f) = total
  BY Zenon DEF SumFunction
<1>3. total <= MaxWord
  BY Zenon, <1>2
<1>4. big = IF SumFunction(f) % (MaxWord + 1) = 0 THEN {}
            ELSE Taken(f, o, SumFunction(f) % (MaxWord + 1))
  BY Zenon, SelectedAre
<1> HIDE DEF f, big
<1>5. /\ n \in Nat /\ DOMAIN o = 1..n /\ Lists(o, n, K) /\ First(o, n) = K
      /\ \A i, j \in 1..n : i < j => f[o[i]] >= f[o[j]]
  BY Zenon, <1>1, PoolOrderLists
<1> HIDE DEF K, o, n
<1>6. total \in Nat /\ SumFunctionOnSet(f, {}) = 0
  <2>1. K \in SUBSET K
    BY Zenon
  <2>2. \A U \in SUBSET K :
              /\ SumFunctionOnSet(f, U) \in Nat
              /\ \A x \in U : SumFunctionOnSet(f, U) = f[x] + SumFunctionOnSet(f, U \ {x})
    BY <1>1, SumSplits
  <2>3. SumFunctionOnSet(f, {}) = 0
    BY Zenon, <1>1, SumSplits
  <2> QED
    BY Zenon, <2>1, <2>2, <2>3
<1>7. SumFunction(f) % (MaxWord + 1) = total
  <2> HIDE DEF total
  <2>1. total % (MaxWord + 1) = total
    BY <1>3, <1>6, LedgerPeersAssumption
  <2> QED
    BY Zenon, <1>2, <2>1
<1>8. big = IF total = 0 THEN {} ELSE Taken(f, o, total)
  BY Zenon, <1>4, <1>7
<1>9. ASSUME total = 0 PROVE TopOf(f, K, total, big)
  <2>1. big = {}
    BY Zenon, <1>8, <1>9
  <2>2. SumFunctionOnSet(f, big) = 0
    BY Zenon, <1>6, <2>1
  <2>3. 10 * 0 >= 9 * 0
    OBVIOUS
  <2> HIDE DEF total
  <2> QED
    BY Zenon, <1>9, <2>1, <2>2, <2>3 DEF TopOf
<1>10. ASSUME total # 0 PROVE TopOf(f, K, total, big)
  <2>1. SumFunctionOnSet(f, First(o, n)) <= MaxWord
    BY Zenon, <1>3, <1>5
  <2>2. ASSUME NEW m \in 0..n PROVE Acc(f, o, m) = SumFunctionOnSet(f, First(o, m))
    <3>1. Summable(f, K) /\ n \in Nat /\ Lists(o, n, K)
      BY Zenon, <1>1, <1>5
    <3> QED
      BY <2>1, <3>1, AccIsSum
  <2>3. \A m \in 1..n : \A l \in 1..(m - 1) : l \in 0..n
    BY <1>5
  <2> DEFINE M == {m \in DOMAIN o : \A l \in 1..(m - 1) : Acc(f, o, l) < bigThreshold(total)}
  <2>4. M = N
    BY Zenon, <1>5, <2>2, <2>3
  <2>5. big = {o[m] : m \in M}
    BY Zenon, <1>8, <1>10 DEF Taken
  <2>6. big = {o[m] : m \in N}
    <3> HIDE DEF M, N
    <3> QED
      BY Zenon, <2>4, <2>5
  <2>7. TakenFrom(f, K, o, n, total, N, big)
    BY Zenon, <1>1, <1>5, <1>10, <2>6 DEF TakenFrom
  <2> HIDE DEF N, total
  <2> QED
    BY Zenon, <2>7, TopStake
<1>11. TopOf(f, K, total, big)
  BY Zenon, <1>9, <1>10
<1> QED
  BY Zenon, <1>2, <1>11 DEF K, f, big, TopOf

-----------------------------------------------------------------------------
(* Shares of the whole, scaled to MaxWord and rounded down, do not sum up to *)
(* more than MaxWord.                                                       *)

LEMMA Divided ==
  ASSUME NEW x \in Nat, NEW t \in Nat \ {0}
  PROVE  x \div t \in Nat /\ t * (x \div t) <= x
  OBVIOUS

LEMMA Scaled ==
  ASSUME NEW t \in Nat, NEW e \in Nat, NEW d \in Nat, NEW x \in Nat, e <= d, t * d <= x
  PROVE  t * e <= x
<1> DEFINE r == d - e
<1>1. r \in Nat /\ d = e + r
  OBVIOUS
<1> HIDE DEF r
<1>2. t * d = t * e + t * r /\ t * r >= 0
  BY <1>1
<1>3. t * d \in Int /\ t * e \in Int /\ t * r \in Int
  BY <1>1
<1> QED
  BY <1>2, <1>3

LEMMA Cancel ==
  ASSUME NEW t \in Nat \ {0}, NEW a \in Nat, NEW b \in Nat, t * a <= b * t
  PROVE  a <= b
<1> SUFFICES ASSUME b < a PROVE FALSE
  OBVIOUS
<1> DEFINE r == a - b
<1>1. r \in Nat /\ r >= 1 /\ a = b + r
  OBVIOUS
<1> HIDE DEF r
<1>2. t * a = b * t + t * r /\ t * r >= 1
  BY <1>1
<1>3. t * a \in Int /\ b * t \in Int /\ t * r \in Int
  BY <1>1
<1> QED
  BY <1>2, <1>3

LEMMA SumScaled ==
  ASSUME NEW t \in Nat, NEW w \in Nat, NEW e \in Nat, NEW s \in Nat, NEW a \in Nat, NEW b \in Nat,
         t * e <= w * s, t * a <= w * b
  PROVE  t * (e + a) <= w * (s + b)
<1>1. t * (e + a) = t * e + t * a /\ w * (s + b) = w * s + w * b
  OBVIOUS
<1>2. t * e \in Int /\ t * a \in Int /\ w * s \in Int /\ w * b \in Int
  OBVIOUS
<1> QED
  BY <1>1, <1>2

(* A share of x in t. *)
LEMMA Share ==
  ASSUME NEW r \in Rat, NEW t \in Nat \ {0}, NEW x \in Nat, x * r.den = r.num * t
  PROVE  t * ledgerStakeFromRat(r) <= MaxWord * x
<1>1. MaxWord \in Nat
  BY Zenon, LedgerPeersAssumption
<1> DEFINE e == ledgerStakeFromRat(r)
           num == r.num
           den == r.den
           product == num * MaxWord
           scaled == product \div den
<1>2. num \in Nat /\ den \in Nat \ {0} /\ x * den = num * t
  BY Zenon DEF Rat
<1>3. CASE num = 0
  <2>1. e = 0
    BY Zenon, <1>3 DEF ledgerStakeFromRat
  <2>2. t * 0 <= MaxWord * x
    BY <1>1
  <2> QED
    BY Zenon, <2>1, <2>2
<1>4. CASE num # 0
  <2>1. e = IF scaled > MaxWord THEN MaxWord ELSE scaled
    BY Zenon, <1>4 DEF ledgerStakeFromRat
  <2> HIDE DEF num, den, e
  <2>2. product \in Nat
    BY <1>1, <1>2
  <2> HIDE DEF product
  <2>3. scaled \in Nat /\ den * scaled <= product
    BY Zenon, <1>2, <2>2, Divided
  <2> HIDE DEF scaled
  <2>4. e \in Nat /\ e <= scaled
    BY <1>1, <2>1, <2>3
  <2>5. den * e <= product /\ den \in Nat
    BY Zenon, <1>2, <2>2, <2>3, <2>4, Scaled
  <2> DEFINE y == den * e
             z == t * product
  <2>6. y \in Nat /\ z \in Nat /\ t \in Nat /\ t * product <= z
    BY <1>2, <2>2, <2>4
  <2>7. t * y <= z
    BY Zenon, <2>2, <2>5, <2>6, Scaled
  <2>8. den * (t * e) = t * y
    BY <1>2, <2>4
  <2>9. (MaxWord * x) * den = z
    <3>1. (MaxWord * x) * den = MaxWord * (x * den)
      BY <1>1, <1>2
    <3>2. MaxWord * (num * t) = t * (num * MaxWord)
      BY <1>1, <1>2
    <3> QED
      BY Zenon, <1>2, <3>1, <3>2 DEF product
  <2>10. t * e \in Nat /\ MaxWord * x \in Nat
    BY <1>1, <2>4
  <2>11. den * (t * e) <= (MaxWord * x) * den
    BY Zenon, <2>7, <2>8, <2>9
  <2>12. t * e <= MaxWord * x
    BY Zenon, <1>2, <2>10, <2>11, Cancel
  <2> QED
    BY Zenon, <2>12 DEF e
<1> QED
  BY Zenon, <1>3, <1>4

LEMMA SharesFit ==
  ASSUME NEW n \in Nat, NEW s, Summable(s, 1..n), NEW K, NEW f, Summable(f, K),
         NEW t \in Nat, NEW w \in Nat,
         NEW g, \A i, j \in 1..n : g[i] = g[j] => i = j, \A k \in K : \E i \in 1..n : k = g[i],
         \A i \in 1..n : g[i] \in K => t * f[g[i]] <= w * s[i]
  PROVE  t * SumFunctionOnSet(f, K) <= w * SumFunctionOnSet(s, 1..n)
<1> DEFINE upto(m) == {k \in K : \E i \in 1..m : k = g[i]}
           a(m) == SumFunctionOnSet(f, upto(m))
           b(m) == SumFunctionOnSet(s, 1..m)
           T == {m \in Nat : m <= n /\ ~(t * a(m) <= w * b(m))}
<1>1. /\ SumFunctionOnSet(f, {}) = 0
      /\ \A U \in SUBSET K :
           /\ SumFunctionOnSet(f, U) \in Nat
           /\ \A x \in U : SumFunctionOnSet(f, U) = f[x] + SumFunctionOnSet(f, U \ {x})
  BY SumSplits
<1>2. /\ SumFunctionOnSet(s, {}) = 0
      /\ \A U \in SUBSET (1..n) :
           /\ SumFunctionOnSet(s, U) \in Nat
           /\ \A x \in U : SumFunctionOnSet(s, U) = s[x] + SumFunctionOnSet(s, U \ {x})
  <2> DEFINE D == 1..n
  <2>1. Summable(s, D)
    BY Zenon
  <2> HIDE DEF D
  <2>2. /\ SumFunctionOnSet(s, {}) = 0
        /\ \A U \in SUBSET D :
             /\ SumFunctionOnSet(s, U) \in Nat
             /\ \A x \in U : SumFunctionOnSet(s, U) = s[x] + SumFunctionOnSet(s, U \ {x})
    BY <2>1, SumSplits
  <2> QED
    BY Zenon, <2>2 DEF D
<1>3. \A m \in Nat : a(m) \in Nat
  BY Zenon, <1>1
<1>4. \A m \in Nat : m <= n => 1..m \in SUBSET (1..n)
  OBVIOUS
<1>5. \A m \in Nat : m <= n => b(m) \in Nat
  BY Zenon, <1>2, <1>4
<1>6. ASSUME NEW m \in 1..n PROVE b(m) = s[m] + b(m - 1)
  <2>1. m \in Nat /\ m <= n /\ m \in 1..m /\ (1..m) \ {m} = 1..(m - 1)
    OBVIOUS
  <2> DEFINE U == 1..m
  <2>2. U \in SUBSET (1..n) /\ m \in U
    BY Zenon, <1>4, <2>1
  <2>3. U \ {m} = 1..(m - 1) /\ b(m) = SumFunctionOnSet(s, U)
    BY Zenon, <2>1
  <2> HIDE DEF U
  <2>4. SumFunctionOnSet(s, U) = s[m] + SumFunctionOnSet(s, U \ {m})
    BY Zenon, <1>2, <2>2
  <2> QED
    BY Zenon, <2>3, <2>4
<1>7. ASSUME NEW m \in 1..n
      PROVE  \E e \in Nat : a(m) = e + a(m - 1) /\ t * e <= w * s[m]
  <2>1. /\ \A i \in 1..m : i = m \/ i \in 1..(m - 1)
        /\ \A i \in 1..(m - 1) : i \in 1..m /\ i # m
        /\ m \in 1..m /\ m - 1 \in Nat
    OBVIOUS
  <2>2. CASE g[m] \in K
    <3>1. g[m] \in upto(m)
      BY Zenon, <2>1, <2>2
    <3>2. upto(m) \ {g[m]} = upto(m - 1)
      <4>1. \A i \in 1..(m - 1) : i \in 1..n /\ i # m
        OBVIOUS
      <4> QED
        BY Zenon, <2>1, <4>1
    <3>3. upto(m) \in SUBSET K
      BY Zenon
    <3> HIDE DEF upto
    <3> DEFINE U == upto(m)
               x == g[m]
    <3> HIDE DEF U, x
    <3>4. SumFunctionOnSet(f, U) = f[x] + SumFunctionOnSet(f, U \ {x})
      <4>1. U \in SUBSET K /\ x \in U
        BY Zenon, <3>1, <3>3 DEF U, x
      <4> QED
        BY Zenon, <1>1, <4>1
    <3>6. a(m) = f[g[m]] + a(m - 1)
      BY Zenon, <3>2, <3>4 DEF U, x
    <3>5. f[g[m]] \in Nat
      BY Zenon, <2>2 DEF Summable
    <3> QED
      BY Zenon, <2>2, <3>6, <3>5
  <2>3. CASE g[m] \notin K
    <3>1. upto(m) = upto(m - 1)
      BY Zenon, <2>1, <2>3
    <3> HIDE DEF upto
    <3>2. a(m) = a(m - 1)
      BY Zenon, <3>1
    <3>3. a(m - 1) \in Nat
      BY Zenon, <1>3, <2>1
    <3> HIDE DEF a
    <3>4. s[m] \in Nat
      BY Zenon DEF Summable
    <3>5. a(m) = 0 + a(m - 1) /\ 0 \in Nat /\ t * 0 <= w * s[m]
      BY <3>2, <3>3, <3>4
    <3> QED
      BY Zenon, <3>5
  <2> QED
    BY Zenon, <2>2, <2>3
<1>8. a(0) = 0 /\ b(0) = 0
  <2>1. 1..0 = {}
    OBVIOUS
  <2>2. upto(0) = {}
    BY Zenon, <2>1
  <2> HIDE DEF upto
  <2> QED
    BY Zenon, <1>1, <1>2, <2>1, <2>2
<1> HIDE DEF a, b
<1>9. T = {}
  <2> SUFFICES ASSUME T # {} PROVE FALSE
    BY Zenon
  <2>1. PICK m \in T : \A l \in T : m <= l
    BY Zenon, LeastNatural
  <2>2. m \in Nat /\ m <= n /\ ~(t * a(m) <= w * b(m))
    BY Zenon
  <2>3. m # 0
    <3>1. t * 0 <= w * 0
      OBVIOUS
    <3> QED
      BY Zenon, <1>8, <2>2, <3>1
  <2>4. m \in 1..n /\ m - 1 \in Nat /\ m - 1 <= n /\ ~(m <= m - 1)
    BY <2>2, <2>3
  <2>5. t * a(m - 1) <= w * b(m - 1)
    BY Zenon, <2>1, <2>4
  <2>6. PICK e \in Nat : a(m) = e + a(m - 1) /\ t * e <= w * s[m]
    BY Zenon, <1>7, <2>4
  <2>7. a(m - 1) \in Nat /\ b(m - 1) \in Nat /\ s[m] \in Nat
    BY Zenon, <1>3, <1>5, <2>4 DEF Summable
  <2>8. t * (e + a(m - 1)) <= w * (s[m] + b(m - 1))
    BY Zenon, <2>5, <2>6, <2>7, SumScaled
  <2> QED
    BY Zenon, <1>6, <2>2, <2>4, <2>6, <2>8
<1>10. t * a(n) <= w * b(n)
  <2>1. n <= n
    OBVIOUS
  <2> QED
    BY Zenon, <1>9, <2>1
<1>11. upto(n) = K
  BY Zenon
<1> HIDE DEF upto
<1> QED
  BY Zenon, <1>10, <1>11 DEF a, b

(* Shares s[i] in t, of which there are at most t. *)
SharesOfOne(ledger) ==
  \E t \in Nat \ {0} : \E s \in [DOMAIN ledger -> Nat] :
    /\ \A i \in DOMAIN ledger : s[i] * ledger[i].share.den = ledger[i].share.num * t
    /\ SumFunction(s) <= t

LEMMA QueryFits ==
  ASSUME NEW ledger \in Ledger, SharesOfOne(ledger)
  PROVE  SumFunction(poolStakes(convertLocalStateQueryLedgerPeerSnapshot(ledger))) <= MaxWord
<1> DEFINE D == DOMAIN ledger
           n == Len(ledger)
           q == convertLocalStateQueryLedgerPeerSnapshot(ledger)
           f == poolStakes(q)
           K == DOMAIN f
           g == [i \in D |-> <<1, Itoa(i - 1)>>]
<1>0. PICK t \in Nat \ {0}, s \in [D -> Nat] :
        /\ \A i \in D : s[i] * ledger[i].share.den = ledger[i].share.num * t
        /\ SumFunction(s) <= t
  BY Zenon DEF SharesOfOne
<1>1. n \in Nat /\ D = 1..n /\ \A i \in D : ledger[i] \in Pools
  BY Zenon, Elements DEF Ledger, Pools
<1>2. DOMAIN s = D /\ \A i \in D : s[i] \in Nat
  BY Zenon
<1>3. SumFunction(s) = SumFunctionOnSet(s, 1..n)
  BY Zenon, <1>1, <1>2 DEF SumFunction
<1>4. /\ DOMAIN q = D
      /\ \A i \in D : q[i].pool = 0 /\ q[i].stake = ledgerStakeFromRat(ledger[i].share)
  BY Zenon DEF convertLocalStateQueryLedgerPeerSnapshot
<1>5. q \in Seq(Entry)
  BY Zenon, QueryTyped
<1>6. Summable(f, K) /\ \A k \in K : f[k] \in StakesAt(q, k)
  BY Zenon, <1>5, PoolStakesTyped
<1>7. K = {KeyAt(q, i) : i \in StakedAt(q)}
  BY Zenon, PoolStakesAre
<1>8. Summable(s, D)
  <2>1. 1 \in Int /\ n \in Int
    BY <1>1
  <2>2. IsFiniteSet(1..n)
    BY Zenon, <2>1, FS_Interval
  <2> QED
    BY Zenon, <1>1, <1>2, <2>2 DEF Summable
<1>9. \A i, j \in 1..n : g[i] = g[j] => i = j
  <2> SUFFICES ASSUME NEW i \in 1..n, NEW j \in 1..n, g[i] = g[j] PROVE i = j
    BY Zenon
  <2>1. <<1, Itoa(i - 1)>> = <<1, Itoa(j - 1)>>
    BY Zenon, <1>1
  <2>2. Itoa(i - 1) = Itoa(j - 1)
    BY Zenon, <2>1
  <2>3. i \in Nat \ {0} /\ j \in Nat \ {0}
    OBVIOUS
  <2> QED
    BY Zenon, <2>2, <2>3, ItoaApart
<1>10. \A i \in D : KeyAt(q, i) = g[i]
  BY Zenon, <1>4 DEF KeyAt, ledgerPeerPoolKey
<1> HIDE DEF q, f, K, g
<1>11. ASSUME NEW i \in D PROVE t * q[i].stake <= MaxWord * s[i]
  <2>1. ledger[i].share \in Rat /\ s[i] * ledger[i].share.den = ledger[i].share.num * t
    BY Zenon, <1>0, <1>1 DEF Pools
  <2>2. t * ledgerStakeFromRat(ledger[i].share) <= MaxWord * s[i]
    BY Zenon, <1>2, <2>1, Share
  <2> QED
    BY Zenon, <1>4, <2>2
<1>12. StakedAt(q) \in SUBSET D
  BY Zenon, <1>4 DEF StakedAt
<1>13. \A k \in K : \E i \in 1..n : k = g[i]
  BY Zenon, <1>1, <1>7, <1>10, <1>12
<1>14. ASSUME NEW i \in 1..n, g[i] \in K PROVE t * f[g[i]] <= MaxWord * s[i]
  <2>1. PICK j \in StakedAt(q) : KeyAt(q, j) = g[i] /\ f[g[i]] = q[j].stake
    BY Zenon, <1>6, <1>14 DEF StakesAt
  <2>2. j \in D /\ g[j] = g[i]
    BY Zenon, <1>10, <1>12, <2>1
  <2>3. j = i
    BY Zenon, <1>1, <1>9, <2>2
  <2> QED
    BY Zenon, <1>1, <1>11, <2>1, <2>3
<1>15. MaxWord \in Nat /\ t \in Nat
  BY Zenon, LedgerPeersAssumption
<1> DEFINE a == SumFunctionOnSet(f, K)
           b == SumFunctionOnSet(s, 1..n)
<1>16. t * a <= MaxWord * b
  <2>1. Summable(s, 1..n)
    BY Zenon, <1>1, <1>8
  <2> QED
    BY Zenon, <1>1, <1>6, <1>9, <1>13, <1>14, <1>15, <2>1, SharesFit
<1>17. a \in Nat
  <2>1. \A U \in SUBSET K : SumFunctionOnSet(f, U) \in Nat
    BY <1>6, SumSplits
  <2>2. K \in SUBSET K
    BY Zenon
  <2> QED
    BY Zenon, <2>1, <2>2
<1>18. b \in Nat
  <2> HIDE DEF D
  <2>1. \A U \in SUBSET D : SumFunctionOnSet(s, U) \in Nat
    BY <1>8, SumSplits
  <2>2. D \in SUBSET D
    BY Zenon
  <2> QED
    BY Zenon, <1>1, <2>1, <2>2
<1>19. b <= t
  BY Zenon, <1>0, <1>3
<1> HIDE DEF a, b
<1>20. MaxWord * b <= MaxWord * t /\ t * a \in Nat /\ MaxWord * b \in Nat /\ MaxWord * t \in Nat
  <2>1. MaxWord * t \in Nat /\ MaxWord * t <= MaxWord * t
    BY <1>15
  <2>2. MaxWord * b <= MaxWord * t
    BY Zenon, <1>15, <1>18, <1>19, <2>1, Scaled
  <2>3. t * a \in Nat /\ MaxWord * b \in Nat
    BY <1>15, <1>17, <1>18
  <2> QED
    BY Zenon, <2>1, <2>2, <2>3
<1>21. t * a <= MaxWord * t
  BY <1>16, <1>20
<1>22. a <= MaxWord
  BY Zenon, <1>15, <1>17, <1>21, Cancel
<1> QED
  BY Zenon, <1>22 DEF SumFunction, a, f, K, q

-----------------------------------------------------------------------------
(* Select.  cls and quo are the class and the quota of each place of the    *)
(* list of peers, 1..L; Eligible and Chosen are what a single pass over the *)
(* list has to choose.                                                      *)

Earlier(X, p) == {j \in X : j < p}
OfClass(X, cls, c) == {j \in X : cls[j] = c}
Eligible(L, cls, quo) ==
  {i \in 1..L : quo[i] = 0 \/ Cardinality({j \in 1..(i - 1) : cls[j] = cls[i]}) < quo[i]}
Chosen(E, n) == {i \in E : n = 0 \/ Cardinality(Earlier(E, i)) < n}

Leading(X, q) == {i \in X : Cardinality(Earlier(X, i)) < q}

LEMMA Counted ==
  ASSUME NEW L \in Nat, NEW S \in SUBSET (1..L), NEW T \in SUBSET S
  PROVE  /\ IsFiniteSet(S) /\ Cardinality(S) \in Nat /\ Cardinality(T) \in Nat
         /\ Cardinality(T) <= Cardinality(S)
<1>1. 1 \in Int /\ L \in Int
  OBVIOUS
<1>2. IsFiniteSet(S)
  BY Zenon, <1>1, FS_Interval, FS_Subset
<1>3. IsFiniteSet(T) /\ Cardinality(T) <= Cardinality(S)
  BY Zenon, <1>2, FS_Subset
<1> QED
  BY Zenon, <1>2, <1>3, FS_CardinalityType

(* Of the places in X, the first q are taken: where X has q, so have those. *)
LEMMA FirstOf ==
  ASSUME NEW L \in Nat, NEW X \in SUBSET (1..L), NEW q \in Nat, NEW p \in 1..L,
         Cardinality(Earlier(X, p)) >= q
  PROVE  Cardinality(Earlier(Leading(X, q), p)) >= q
<1> DEFINE F == Leading(X, q)
           W == Earlier(X, p) \ F
<1>0. F = {i \in X : Cardinality(Earlier(X, i)) < q}
  BY Zenon DEF Leading
<1> HIDE DEF F
<1>1. \A i \in 1..L : Earlier(X, i) \in SUBSET (1..L) /\ Cardinality(Earlier(X, i)) \in Nat
  <2>1. \A i \in 1..L : Earlier(X, i) \in SUBSET X
    BY Zenon DEF Earlier
  <2> QED
    BY Zenon, <2>1, Counted
<1>2. Earlier(F, p) \in SUBSET (1..L) /\ Cardinality(Earlier(F, p)) \in Nat
  <2>1. Earlier(F, p) \in SUBSET X
    BY Zenon, <1>0 DEF Earlier
  <2> QED
    BY Zenon, <2>1, Counted
<1>3. CASE W = {}
  <2>1. Earlier(X, p) = Earlier(F, p)
    BY Zenon, <1>0, <1>3 DEF Earlier
  <2> QED
    BY Zenon, <2>1 DEF F
<1>4. CASE W # {}
  <2>1. W \in SUBSET Nat
    <3>1. \A i \in 1..L : i \in Nat
      OBVIOUS
    <3> QED
      BY Zenon, <3>1 DEF Earlier
  <2>2. PICK j \in W : \A k \in W : j <= k
    BY Zenon, <1>4, <2>1, LeastNatural
  <2>3. j \in X /\ j \in 1..L /\ j < p /\ ~(Cardinality(Earlier(X, j)) < q)
    BY Zenon, <1>0, <2>2 DEF Earlier
  <2>4. Cardinality(Earlier(X, j)) \in Nat
    BY Zenon, <1>1, <2>3
  <2>5. Cardinality(Earlier(X, j)) >= q
    BY <2>3, <2>4
  <2>6. ASSUME NEW l \in X, l < j PROVE l < p /\ ~(j <= l)
    <3>1. l \in 1..L
      BY Zenon
    <3> QED
      BY <2>3, <2>6, <3>1
  <2>7. Earlier(X, j) \in SUBSET Earlier(F, p)
    <3>1. ASSUME NEW l \in X, l < j PROVE l \in Earlier(F, p)
      <4>1. l < p /\ ~(j <= l)
        BY Zenon, <2>6, <3>1
      <4>2. l \notin W
        BY Zenon, <2>2, <4>1
      <4>3. l \in Earlier(X, p)
        BY Zenon, <4>1 DEF Earlier
      <4>4. l \in F
        BY Zenon, <4>2, <4>3
      <4> QED
        BY Zenon, <4>1, <4>4 DEF Earlier
    <3> QED
      BY Zenon, <3>1 DEF Earlier
  <2>8. Cardinality(Earlier(X, j)) <= Cardinality(Earlier(F, p))
    BY Zenon, <1>2, <2>7, Counted
  <2>9. Cardinality(Earlier(F, p)) >= q
    BY <1>2, <2>4, <2>5, <2>8
  <2> QED
    BY Zenon, <2>9 DEF F
<1> QED
  BY Zenon, <1>3, <1>4 DEF F

Blocked(n, length, quota, count) == (n > 0 /\ length >= n) \/ (quota > 0 /\ count >= quota)

(* The test of the loop, which counts what it has chosen so far, admits the *)
(* places that the counts over the whole list choose.                       *)
LEMMA HasRoom ==
  ASSUME NEW L \in Nat, NEW cls, NEW quo, \A i \in 1..L : quo[i] \in Nat,
         \A i, j \in 1..L : cls[i] = cls[j] => quo[i] = quo[j],
         NEW n \in Nat, NEW E, E = Eligible(L, cls, quo), NEW C, C = Chosen(E, n),
         NEW p \in 1..L
  PROVE  LET done == Earlier(C, p) IN
         p \in C <=> ~Blocked(n, Cardinality(done), quo[p],
                              Cardinality(OfClass(done, cls, cls[p])))
<1> DEFINE done == Earlier(C, p)
           same == OfClass(done, cls, cls[p])
           X == OfClass(1..L, cls, cls[p])
           q == quo[p]
<1>1. E \in SUBSET (1..L) /\ C \in SUBSET E /\ done \in SUBSET C /\ same \in SUBSET done
      /\ same \in SUBSET X /\ X \in SUBSET (1..L) /\ Earlier(X, p) \in SUBSET (1..L)
      /\ Earlier(E, p) \in SUBSET (1..L) /\ done \in SUBSET Earlier(E, p)
      /\ same \in SUBSET Earlier(X, p)
  BY Zenon DEF Eligible, Chosen, Earlier, OfClass
<1>2. /\ Cardinality(done) \in Nat /\ Cardinality(same) \in Nat
      /\ Cardinality(Earlier(E, p)) \in Nat /\ Cardinality(Earlier(X, p)) \in Nat
      /\ Cardinality(done) <= Cardinality(Earlier(E, p))
      /\ Cardinality(same) <= Cardinality(Earlier(X, p))
  BY Zenon, <1>1, Counted
<1>3. \A i \in 1..L : \A c : {j \in 1..(i - 1) : cls[j] = c} = Earlier(OfClass(1..L, cls, c), i)
  <2>1. \A i \in 1..L : /\ \A j \in 1..(i - 1) : j \in 1..L /\ j < i
                        /\ \A j \in 1..L : j < i => j \in 1..(i - 1)
    OBVIOUS
  <2> QED
    BY Zenon, <2>1 DEF Earlier, OfClass
<1>4. \A i \in X : i \in E <=> q = 0 \/ Cardinality(Earlier(X, i)) < q
  <2> SUFFICES ASSUME NEW i \in X
               PROVE  i \in E <=> q = 0 \/ Cardinality(Earlier(X, i)) < q
    BY Zenon
  <2>1. i \in 1..L /\ cls[i] = cls[p]
    BY Zenon DEF OfClass
  <2>2. quo[i] = q
    BY Zenon, <2>1
  <2>3. {j \in 1..(i - 1) : cls[j] = cls[i]} = Earlier(X, i)
    BY Zenon, <1>3, <2>1
  <2> HIDE DEF X, q
  <2> QED
    BY Zenon, <2>1, <2>2, <2>3 DEF Eligible
<1>5. p \in X /\ q \in Nat
  BY Zenon DEF OfClass
<1>6. p \in C <=> p \in E /\ (n = 0 \/ Cardinality(Earlier(E, p)) < n)
  BY Zenon DEF Chosen
<1> HIDE DEF q, X
<1>7. ASSUME p \in C PROVE ~Blocked(n, Cardinality(done), q, Cardinality(same))
  <2>1. n = 0 \/ Cardinality(Earlier(E, p)) < n
    BY Zenon, <1>6, <1>7
  <2>2. q = 0 \/ Cardinality(Earlier(X, p)) < q
    BY Zenon, <1>4, <1>5, <1>6, <1>7
  <2> HIDE DEF done, same
  <2> QED
    BY <1>2, <1>5, <2>1, <2>2 DEF Blocked
<1>8. ASSUME p \notin C, n > 0, Cardinality(Earlier(E, p)) >= n
      PROVE  Cardinality(done) >= n
  <2>1. Cardinality(Earlier(Leading(E, n), p)) >= n
    BY Zenon, <1>1, <1>8, FirstOf
  <2>2. n # 0
    BY <1>8
  <2>3. C = Leading(E, n)
    BY Zenon, <2>2 DEF Chosen, Leading
  <2> QED
    BY Zenon, <2>1, <2>3
<1>9. ASSUME p \notin C, ~(n > 0 /\ Cardinality(Earlier(E, p)) >= n)
      PROVE  q > 0 /\ Cardinality(same) >= q
  <2>1. n = 0 \/ Cardinality(Earlier(E, p)) < n
    BY <1>2, <1>9
  <2>2. p \notin E
    BY Zenon, <1>6, <1>9, <2>1
  <2>3. q # 0 /\ ~(Cardinality(Earlier(X, p)) < q)
    BY Zenon, <1>4, <1>5, <2>2
  <2>4. q > 0 /\ Cardinality(Earlier(X, p)) >= q
    BY <1>2, <1>5, <2>3
  <2>5. ASSUME NEW i \in Earlier(E, p) PROVE i \in C
    <3>1. i \in E /\ i \in 1..L /\ i < p
      BY Zenon, <1>1 DEF Earlier
    <3>2. \A j \in 1..L : j < i => j < p
      BY <3>1
    <3>3. Earlier(E, i) \in SUBSET Earlier(E, p)
      BY Zenon, <1>1, <3>2 DEF Earlier
    <3>4. /\ Cardinality(Earlier(E, i)) \in Nat
          /\ Cardinality(Earlier(E, i)) <= Cardinality(Earlier(E, p))
      BY Zenon, <1>1, <3>3, Counted
    <3>5. n = 0 \/ Cardinality(Earlier(E, i)) < n
      BY <1>2, <2>1, <3>4
    <3> QED
      BY Zenon, <3>1, <3>5 DEF Chosen
  <2> DEFINE F == Leading(X, q)
  <2>6. Earlier(F, p) \in SUBSET same
    <3>1. ASSUME NEW i \in Earlier(F, p) PROVE i \in same
      <4>1. i \in X /\ i < p /\ Cardinality(Earlier(X, i)) < q
        BY Zenon DEF Earlier, Leading
      <4>2. i \in E
        BY Zenon, <1>4, <4>1
      <4>3. i \in Earlier(E, p)
        BY Zenon, <4>1, <4>2 DEF Earlier
      <4>4. i \in done
        BY Zenon, <2>5, <4>1, <4>3 DEF Earlier
      <4>5. cls[i] = cls[p]
        BY Zenon, <4>1 DEF X, OfClass
      <4> HIDE DEF done
      <4> QED
        BY Zenon, <4>4, <4>5 DEF OfClass
    <3> QED
      BY Zenon, <3>1
  <2>7. Cardinality(Earlier(F, p)) >= q
    BY Zenon, <1>1, <1>5, <2>4, FirstOf
  <2> HIDE DEF F
  <2>8. same \in SUBSET (1..L)
    BY Zenon, <1>1
  <2>9. Cardinality(Earlier(F, p)) \in Nat /\ Cardinality(Earlier(F, p)) <= Cardinality(same)
    BY Zenon, <2>6, <2>8, Counted
  <2> QED
    BY <1>2, <1>5, <2>4, <2>7, <2>9
<1> HIDE DEF done, same
<1>10. p \in C <=> ~Blocked(n, Cardinality(done), q, Cardinality(same))
  BY Zenon, <1>7, <1>8, <1>9 DEF Blocked
<1> QED
  BY Zenon, <1>10 DEF done, same, q

-----------------------------------------------------------------------------
(* The loop of Select *)

CountOf(s, c) == Cardinality({i \in DOMAIN s : QuotaClass(s[i].source) = c})
StepOf(n, s, p) ==
  IF \/ n > 0 /\ Len(s) >= n
     \/ overQuota(quotaForSource(p.source), CountOf(s, QuotaClass(p.source)))
  THEN s
  ELSE Append(s, p)
selects(g, peers, n, l) ==
  g = [i \in 0..l |-> IF i = 0 THEN <<>> ELSE StepOf(n, g[i - 1], peers[i])]

LEMMA SelectExists ==
  ASSUME NEW peers, NEW n, NEW l \in Nat
  PROVE  \E g : selects(g, peers, n, l)
<1> DEFINE T == {k \in Nat : ~\E g : selects(g, peers, n, k)}
<1> SUFFICES ASSUME T # {} PROVE FALSE
  BY Zenon
<1>1. PICK m \in T : \A k \in T : m <= k
  BY LeastNatural, Zenon
<1>2. m # 0
  <2> DEFINE g == [i \in 0..0 |-> <<>>]
  <2>1. \A i \in 0..0 : i = 0
    OBVIOUS
  <2>2. selects(g, peers, n, 0)
    BY Zenon, <2>1 DEF selects
  <2> QED
    BY Zenon, <2>2
<1>3. m - 1 \in Nat /\ m - 1 \notin T /\ m - 1 \in 0..m /\ m - 1 < m
  BY <1>1, <1>2
<1>4. PICK g : selects(g, peers, n, m - 1)
  BY Zenon, <1>3
<1> DEFINE h == [i \in 0..m |-> IF i < m THEN g[i] ELSE StepOf(n, g[m - 1], peers[m])]
<1>5. ASSUME NEW i \in 0..m PROVE h[i] = IF i = 0 THEN <<>> ELSE StepOf(n, h[i - 1], peers[i])
  <2>1. CASE i < m
    <3>1. i \in 0..(m - 1) /\ (i # 0 => i - 1 \in 0..m /\ i - 1 < m)
      BY <2>1, <1>3
    <3>2. g[i] = IF i = 0 THEN <<>> ELSE StepOf(n, g[i - 1], peers[i])
      BY <3>1, <1>4, Zenon DEF selects
    <3> QED
      BY <3>1, <3>2, <2>1, Zenon
  <2>2. CASE i = m
    <3>1. ~(m < m)
      BY <1>3
    <3>2. h[i] = StepOf(n, g[m - 1], peers[m])
      BY Zenon, <2>2, <3>1
    <3>3. h[i - 1] = g[m - 1]
      BY Zenon, <1>3, <2>2
    <3> HIDE DEF h
    <3> QED
      BY Zenon, <1>2, <2>2, <3>2, <3>3
  <2>3. i < m \/ i = m
    BY <1>3
  <2> QED
    BY Zenon, <2>1, <2>2, <2>3
<1>6. selects(h, peers, n, m)
  BY <1>5, Zenon DEF selects
<1> QED
  BY Zenon, <1>6

LEMMA SelectIs ==
  ASSUME NEW m, NEW n, Len(Peers(m)) \in Nat
  PROVE  \E g : selects(g, Peers(m), n, Len(Peers(m))) /\ Select(m, n) = g[Len(Peers(m))]
<1> DEFINE peers == Peers(m)
           F == CHOOSE g : selects(g, peers, n, Len(peers))
<1>1. selects(F, peers, n, Len(peers))
  BY SelectExists, Zenon
<1>2. Select(m, n) = F[Len(peers)]
  BY Zenon DEF Select, selects, StepOf, CountOf
<1> QED
  BY Zenon, <1>1, <1>2

LEMMA CountAppend ==
  ASSUME NEW S, NEW s \in Seq(S), NEW p \in S, NEW c
  PROVE  /\ CountOf(s, c) \in Nat
         /\ QuotaClass(p.source) = c => CountOf(Append(s, p), c) = CountOf(s, c) + 1
         /\ QuotaClass(p.source) # c => CountOf(Append(s, p), c) = CountOf(s, c)
<1> DEFINE l == Len(s)
           t == Append(s, p)
           A == {i \in DOMAIN s : QuotaClass(s[i].source) = c}
           B == {i \in DOMAIN t : QuotaClass(t[i].source) = c}
<1>1. /\ l \in Nat /\ DOMAIN s = 1..l /\ DOMAIN t = 1..(l + 1)
      /\ t[l + 1] = p /\ \A i \in 1..l : t[i] = s[i]
  OBVIOUS
<1>2. /\ \A i \in 1..l : i \in 1..(l + 1) /\ i # l + 1
      /\ \A i \in 1..(l + 1) : i \in 1..l \/ i = l + 1
      /\ l + 1 \in 1..(l + 1)
  BY <1>1
<1> HIDE DEF l, t
<1>3. A \in SUBSET (1..l) /\ l + 1 \notin A
  BY Zenon, <1>1, <1>2
<1>4. IsFiniteSet(A) /\ Cardinality(A) \in Nat
  BY Zenon, <1>1, <1>3, Counted
<1>5. ASSUME QuotaClass(p.source) = c PROVE Cardinality(B) = Cardinality(A) + 1
  <2>1. B = A \cup {l + 1}
    BY Zenon, <1>1, <1>2, <1>5
  <2> HIDE DEF A, B
  <2> QED
    BY Zenon, <1>3, <1>4, <2>1, FS_AddElement
<1>6. ASSUME QuotaClass(p.source) # c PROVE B = A
  BY Zenon, <1>1, <1>2, <1>6
<1> QED
  BY Zenon, <1>4, <1>5, <1>6 DEF CountOf, t

(* s is what the loop has chosen of C after i places. *)
Upto(C, i) == {j \in C : j <= i}
SelectedAfter(s, S, peers, C, cls, i) ==
  /\ s \in Seq(S) /\ Len(s) = Cardinality(Upto(C, i))
  /\ \A c : CountOf(s, c) = Cardinality(OfClass(Upto(C, i), cls, c))
  /\ \A j \in Upto(C, i) : s[Cardinality(Upto(C, j))] = peers[j]

Grows(C, i) ==
  /\ Earlier(C, i) = Upto(C, i - 1)
  /\ i \notin C => Upto(C, i) = Upto(C, i - 1)
  /\ i \in C => /\ Upto(C, i) = Upto(C, i - 1) \cup {i}
                /\ i \notin Upto(C, i - 1)

LEMMA UptoGrows ==
  ASSUME NEW L \in Nat, NEW C \in SUBSET (1..L), NEW i \in 1..L
  PROVE  Grows(C, i)
<1>1. /\ \A j \in 1..L : j < i <=> j <= i - 1
      /\ \A j \in 1..L : j <= i <=> j <= i - 1 \/ j = i
      /\ ~(i <= i - 1)
  OBVIOUS
<1> QED
  BY Zenon, <1>1 DEF Grows, Earlier, Upto

LEMMA SelectedTakes ==
  ASSUME NEW S, NEW L \in Nat, NEW peers, NEW C \in SUBSET (1..L), NEW cls, NEW i \in C,
         peers[i] \in S, cls[i] = QuotaClass(peers[i].source),
         NEW s, SelectedAfter(s, S, peers, C, cls, i - 1)
  PROVE  SelectedAfter(Append(s, peers[i]), S, peers, C, cls, i)
<1> DEFINE p == peers[i]
           t == Append(s, p)
           U == Upto(C, i - 1)
           V == Upto(C, i)
<1>1. /\ s \in Seq(S) /\ Len(s) = Cardinality(U)
      /\ \A c : CountOf(s, c) = Cardinality(OfClass(U, cls, c))
      /\ \A j \in U : s[Cardinality(Upto(C, j))] = peers[j]
  BY Zenon DEF SelectedAfter
<1>2. V = U \cup {i} /\ i \notin U
  <2>1. Grows(C, i)
    BY Zenon, UptoGrows
  <2> QED
    BY Zenon, <2>1 DEF Grows
<1>3. /\ \A j \in 1..L : Upto(C, j) \in SUBSET (1..L) /\ j \in Upto(C, j) <=> j \in C
      /\ U \in SUBSET (1..L) /\ U \in SUBSET C
  <2>1. \A j \in 1..L : j <= j
    OBVIOUS
  <2> QED
    BY Zenon, <2>1 DEF Upto
<1>4. IsFiniteSet(U) /\ Cardinality(U) \in Nat /\ Cardinality(V) = Cardinality(U) + 1
  <2>1. IsFiniteSet(U) /\ Cardinality(U) \in Nat
    BY Zenon, <1>3, Counted
  <2> HIDE DEF U, V
  <2> QED
    BY Zenon, <1>2, <2>1, FS_AddElement
<1>5. ASSUME NEW j \in U PROVE Cardinality(Upto(C, j)) \in 1..Cardinality(U)
  <2>1. j \in C /\ j \in 1..L /\ j <= i - 1 /\ i \in 1..L
    BY Zenon, <1>3 DEF Upto
  <2>2. \A k \in 1..L : k <= j => k <= i - 1
    BY <2>1
  <2>3. Upto(C, j) \in SUBSET U /\ {j} \in SUBSET Upto(C, j) /\ Upto(C, j) \in SUBSET (1..L)
    BY Zenon, <1>3, <2>1, <2>2 DEF Upto
  <2>4. Cardinality(Upto(C, j)) \in Nat /\ Cardinality(Upto(C, j)) <= Cardinality(U)
    BY Zenon, <1>3, <2>3, Counted
  <2>5. Cardinality({j}) <= Cardinality(Upto(C, j))
    BY Zenon, <2>3, Counted
  <2>6. Cardinality({j}) = 1
    BY Zenon, FS_Singleton
  <2>7. 1 <= Cardinality(Upto(C, j))
    BY Zenon, <2>5, <2>6
  <2> QED
    BY <1>4, <2>4, <2>7
<1> HIDE DEF U, V, p
<1>6. /\ t \in Seq(S) /\ Len(t) = Len(s) + 1 /\ t[Len(s) + 1] = p
      /\ \A k \in 1..Len(s) : t[k] = s[k]
  <2>1. p \in S
    BY Zenon DEF p
  <2> QED
    BY <1>1, <2>1
<1>7. ASSUME NEW c PROVE CountOf(t, c) = Cardinality(OfClass(V, cls, c))
  <2> DEFINE A == OfClass(U, cls, c)
             B == OfClass(V, cls, c)
  <2>0. p \in S /\ cls[i] = QuotaClass(p.source)
    BY Zenon DEF p
  <2>1. A \in SUBSET U /\ i \notin A
    BY Zenon, <1>2 DEF OfClass
  <2>2. IsFiniteSet(A)
    BY Zenon, <1>4, <2>1, FS_Subset
  <2>3. CountOf(s, c) = Cardinality(A)
    BY Zenon, <1>1
  <2>c. /\ CountOf(s, c) \in Nat
        /\ QuotaClass(p.source) = c => CountOf(Append(s, p), c) = CountOf(s, c) + 1
        /\ QuotaClass(p.source) # c => CountOf(Append(s, p), c) = CountOf(s, c)
    <3>1. s \in Seq(S) /\ p \in S
      BY Zenon, <1>1, <2>0
    <3> HIDE DEF t
    <3> QED
      BY Zenon, <3>1, CountAppend
  <2>4. CASE cls[i] = c
    <3>1. B = A \cup {i}
      BY Zenon, <1>2, <2>4 DEF OfClass
    <3> HIDE DEF A, B
    <3>2. Cardinality(B) = Cardinality(A) + 1
      BY Zenon, <2>1, <2>2, <3>1, FS_AddElement
    <3>3. CountOf(t, c) = CountOf(s, c) + 1
      BY Zenon, <2>0, <2>4, <2>c
    <3> QED
      BY Zenon, <2>3, <3>2, <3>3 DEF B
  <2>5. CASE cls[i] # c
    <3>1. B = A
      BY Zenon, <1>2, <2>5 DEF OfClass
    <3>2. CountOf(t, c) = CountOf(s, c)
      BY Zenon, <2>0, <2>5, <2>c
    <3> HIDE DEF A, B
    <3> QED
      BY Zenon, <2>3, <3>1, <3>2 DEF B
  <2> QED
    BY Zenon, <2>4, <2>5
<1>8. ASSUME NEW j \in V PROVE t[Cardinality(Upto(C, j))] = peers[j]
  <2>1. CASE j = i
    BY Zenon, <1>1, <1>4, <1>6, <2>1 DEF V, p
  <2>2. CASE j \in U
    BY Zenon, <1>1, <1>5, <1>6, <2>2
  <2> QED
    BY Zenon, <1>2, <2>1, <2>2
<1> HIDE DEF t
<1>9. Len(t) = Cardinality(V)
  BY Zenon, <1>1, <1>4, <1>6
<1>10. SelectedAfter(t, S, peers, C, cls, i)
  BY Zenon, <1>6, <1>7, <1>8, <1>9 DEF SelectedAfter, V
<1> QED
  BY Zenon, <1>10 DEF t, p

ClassAt(peers) == [i \in DOMAIN peers |-> QuotaClass(peers[i].source)]
QuotaAt(peers) == [i \in DOMAIN peers |-> quotaForSource(peers[i].source)]

LEMMA QuotasOfClasses ==
  ASSUME NEW peers
  PROVE  /\ \A i \in DOMAIN peers : QuotaAt(peers)[i] \in Nat
         /\ \A i, j \in DOMAIN peers :
              ClassAt(peers)[i] = ClassAt(peers)[j] => QuotaAt(peers)[i] = QuotaAt(peers)[j]
<1>1. \A c \in DOMAIN Quota : Quota[c] \in Nat
  BY Zenon, LedgerPeersAssumption
<1>2. 0 \in Nat
  BY Zenon
<1>3. \A source : quotaForSource(source) \in Nat
  BY Zenon, <1>1, <1>2 DEF quotaForSource
<1>4. \A i \in DOMAIN peers : QuotaAt(peers)[i] \in Nat
  BY Zenon, <1>3 DEF QuotaAt
<1>5. ASSUME NEW i \in DOMAIN peers, NEW j \in DOMAIN peers, ClassAt(peers)[i] = ClassAt(peers)[j]
      PROVE  QuotaAt(peers)[i] = QuotaAt(peers)[j]
  <2>1. QuotaClass(peers[i].source) = QuotaClass(peers[j].source)
    BY Zenon, <1>5 DEF ClassAt
  <2>2. quotaForSource(peers[i].source) = quotaForSource(peers[j].source)
    BY Zenon, <2>1 DEF quotaForSource
  <2> QED
    BY Zenon, <2>2 DEF QuotaAt
<1> QED
  BY Zenon, <1>4, <1>5

LEMMA SelectChooses ==
  ASSUME NEW S, NEW peers \in Seq(S), NEW n \in Nat, NEW F, selects(F, peers, n, Len(peers)),
         NEW E, E = Eligible(Len(peers), ClassAt(peers), QuotaAt(peers)),
         NEW C, C = Chosen(E, n)
  PROVE  SelectedAfter(F[Len(peers)], S, peers, C, ClassAt(peers), Len(peers))
<1> DEFINE L == Len(peers)
           cls == ClassAt(peers)
           quo == QuotaAt(peers)
           T == {k \in Nat : k <= L /\ ~SelectedAfter(F[k], S, peers, C, cls, k)}
<1>1. L \in Nat /\ DOMAIN peers = 1..L /\ \A i \in 1..L : peers[i] \in S
  BY Zenon, Elements
<1>2. /\ \A i \in 1..L : quo[i] \in Nat
      /\ \A i, j \in 1..L : cls[i] = cls[j] => quo[i] = quo[j]
  BY Zenon, <1>1, QuotasOfClasses
<1>3. \A i \in 1..L : /\ cls[i] = QuotaClass(peers[i].source)
                      /\ quo[i] = quotaForSource(peers[i].source)
  BY Zenon, <1>1 DEF ClassAt, QuotaAt
<1>4. C \in SUBSET (1..L)
  BY Zenon DEF Chosen, Eligible
<1>5. \A i \in 0..L : F[i] = IF i = 0 THEN <<>> ELSE StepOf(n, F[i - 1], peers[i])
  BY Zenon DEF selects
<1>6. E = Eligible(L, cls, quo)
  BY Zenon
<1> HIDE DEF L, cls, quo
<1>7. SelectedAfter(F[0], S, peers, C, cls, 0)
  <2>1. 0 \in 0..L /\ \A j \in 1..L : ~(j <= 0)
    BY <1>1
  <2>2. F[0] = <<>>
    BY Zenon, <1>5, <2>1
  <2>3. <<>> \in Seq(S) /\ Len(<<>>) = 0 /\ DOMAIN <<>> = {}
    OBVIOUS
  <2>4. Upto(C, 0) = {}
    BY Zenon, <1>4, <2>1 DEF Upto
  <2>5. Cardinality({}) = 0
    BY Zenon, FS_EmptySet
  <2>6. \A c : CountOf(<<>>, c) = 0
    <3>1. ASSUME NEW c PROVE {i \in DOMAIN <<>> : QuotaClass(<<>>[i].source) = c} = {}
      BY Zenon, <2>3
    <3> QED
      BY Zenon, <2>5, <3>1 DEF CountOf
  <2>7. \A c : OfClass({}, cls, c) = {}
    BY Zenon DEF OfClass
  <2> QED
    BY Zenon, <2>2, <2>3, <2>4, <2>5, <2>6, <2>7 DEF SelectedAfter
<1>8. ASSUME NEW i \in 1..L, SelectedAfter(F[i - 1], S, peers, C, cls, i - 1)
      PROVE  SelectedAfter(F[i], S, peers, C, cls, i)
  <2> DEFINE s == F[i - 1]
             p == peers[i]
             done == Earlier(C, i)
  <2>0. Grows(C, i)
    BY Zenon, <1>1, <1>4, UptoGrows
  <2>1. i \in 0..L /\ i # 0
    OBVIOUS
  <2>2. F[i] = StepOf(n, s, p)
    BY Zenon, <1>5, <2>1
  <2>3. done = Upto(C, i - 1)
    BY Zenon, <2>0 DEF Grows
  <2>4. /\ Len(s) = Cardinality(done)
        /\ CountOf(s, cls[i]) = Cardinality(OfClass(done, cls, cls[i]))
    BY Zenon, <1>8, <2>3 DEF SelectedAfter
  <2> DEFINE same == OfClass(done, cls, cls[i])
  <2>5. i \in C <=> ~Blocked(n, Cardinality(done), quo[i], Cardinality(same))
    BY Zenon, <1>1, <1>2, <1>6, HasRoom
  <2> HIDE DEF done, s, p, same
  <2>6. F[i] = IF Blocked(n, Len(s), quo[i], CountOf(s, cls[i])) THEN s ELSE Append(s, p)
    BY Zenon, <1>3, <2>2 DEF StepOf, Blocked, overQuota, p
  <2>7. F[i] = IF i \in C THEN Append(s, p) ELSE s
    BY Zenon, <2>4, <2>5, <2>6 DEF same
  <2>8. CASE i \in C
    <3>1. F[i] = Append(F[i - 1], peers[i])
      BY Zenon, <2>7, <2>8 DEF s, p
    <3>2. SelectedAfter(Append(F[i - 1], peers[i]), S, peers, C, cls, i)
      BY Zenon, <1>1, <1>3, <1>4, <1>8, <2>8, SelectedTakes
    <3> QED
      BY Zenon, <3>1, <3>2
  <2>9. CASE i \notin C
    <3>1. F[i] = F[i - 1]
      BY Zenon, <2>7, <2>9 DEF s
    <3>2. Upto(C, i) = Upto(C, i - 1)
      BY Zenon, <2>0, <2>9 DEF Grows
    <3> QED
      BY Zenon, <1>8, <3>1, <3>2 DEF SelectedAfter
  <2> QED
    BY Zenon, <2>8, <2>9
<1>9. T = {}
  <2> SUFFICES ASSUME T # {} PROVE FALSE
    BY Zenon
  <2>1. PICK k \in T : \A l \in T : k <= l
    BY Zenon, LeastNatural
  <2>2. k \in Nat /\ k <= L /\ ~SelectedAfter(F[k], S, peers, C, cls, k)
    BY Zenon
  <2>3. k # 0
    BY Zenon, <1>7, <2>2
  <2>4. k \in 1..L /\ k - 1 \in Nat /\ k - 1 <= L /\ ~(k <= k - 1)
    BY <1>1, <2>2, <2>3
  <2>5. SelectedAfter(F[k - 1], S, peers, C, cls, k - 1)
    BY Zenon, <2>1, <2>4
  <2> QED
    BY Zenon, <1>8, <2>2, <2>4, <2>5
<1>10. SelectedAfter(F[L], S, peers, C, cls, L)
  <2>1. L <= L
    BY <1>1
  <2> QED
    BY Zenon, <1>1, <1>9, <2>1
<1> QED
  BY Zenon, <1>10 DEF L, cls

(* Select chooses the first n of the peers within their quotas, in order. *)
LEMMA SelectHonours ==
  ASSUME NEW m, NEW S, Peers(m) \in Seq(S), NEW n \in Nat
  PROVE  LET peers == Peers(m)
             rank(i) == Cardinality({j \in 1..(i - 1) :
                          QuotaClass(peers[j].source) = QuotaClass(peers[i].source)})
             quota(i) == quotaForSource(peers[i].source)
             eligible == {i \in DOMAIN peers : quota(i) = 0 \/ rank(i) < quota(i)}
             s == Select(m, n)
             chosen == {i \in eligible : n = 0 \/ Cardinality({j \in eligible : j < i}) < n}
         IN /\ Len(s) = Cardinality(chosen)
            /\ \A i \in chosen : s[Cardinality({j \in chosen : j <= i})] = peers[i]
<1> DEFINE peers == Peers(m)
           L == Len(peers)
           rank(i) == Cardinality({j \in 1..(i - 1) :
                        QuotaClass(peers[j].source) = QuotaClass(peers[i].source)})
           quota(i) == quotaForSource(peers[i].source)
           eligible == {i \in DOMAIN peers : quota(i) = 0 \/ rank(i) < quota(i)}
           s == Select(m, n)
           chosen == {i \in eligible : n = 0 \/ Cardinality({j \in eligible : j < i}) < n}
           E == Eligible(L, ClassAt(peers), QuotaAt(peers))
           C == Chosen(E, n)
<1>1. L \in Nat /\ DOMAIN peers = 1..L
  BY Zenon, Elements
<1>2. ASSUME NEW i \in 1..L
      PROVE  {j \in 1..(i - 1) : ClassAt(peers)[j] = ClassAt(peers)[i]} =
             {j \in 1..(i - 1) : QuotaClass(peers[j].source) = QuotaClass(peers[i].source)}
  <2>1. \A j \in 1..(i - 1) : j \in 1..L
    BY <1>1
  <2>2. \A j \in 1..L : ClassAt(peers)[j] = QuotaClass(peers[j].source)
    BY Zenon, <1>1 DEF ClassAt
  <2> QED
    BY Zenon, <2>1, <2>2
<1>3. \A i \in 1..L : QuotaAt(peers)[i] = quota(i)
  BY Zenon, <1>1 DEF QuotaAt
<1>4. eligible = E
  BY Zenon, <1>1, <1>2, <1>3 DEF Eligible
<1>5. ASSUME NEW X, X = {i \in E : n = 0 \/ Cardinality({j \in E : j < i}) < n} PROVE X = C
  BY Zenon, <1>5 DEF Chosen, Earlier
<1> HIDE DEF eligible, E
<1>6. chosen = C
  BY Zenon, <1>4, <1>5
<1>7. PICK F : selects(F, peers, n, L) /\ s = F[L]
  BY Zenon, <1>1, SelectIs
<1>8. SelectedAfter(F[L], S, peers, C, ClassAt(peers), L)
  BY Zenon, <1>7, SelectChooses DEF E
<1>9. C \in SUBSET (1..L)
  BY Zenon DEF Chosen, Eligible, E
<1> HIDE DEF C, chosen, peers, L
<1>10. /\ Len(s) = Cardinality(Upto(C, L))
       /\ \A j \in Upto(C, L) : s[Cardinality(Upto(C, j))] = peers[j]
  BY Zenon, <1>7, <1>8 DEF SelectedAfter
<1>11. Upto(C, L) = C
  <2>1. \A j \in 1..L : j <= L
    BY <1>1
  <2> QED
    BY Zenon, <1>9, <2>1 DEF Upto
<1>12. /\ Len(s) = Cardinality(C)
       /\ \A j \in C : s[Cardinality({l \in C : l <= j})] = peers[j]
  BY Zenon, <1>10, <1>11 DEF Upto
<1> HIDE DEF s
<1>13. /\ Len(s) = Cardinality(chosen)
       /\ \A i \in chosen : s[Cardinality({j \in chosen : j <= i})] = peers[i]
  BY Zenon, <1>6, <1>12
<1> QED
  BY Zenon, <1>13 DEF s, chosen, eligible, peers

(* Peers is a list when the map is finite. *)
LEMMA PeersListed ==
  ASSUME NEW m, IsFiniteSet(DOMAIN m)
  PROVE  \E S : Peers(m) \in Seq(S)
<1> DEFINE n == Cardinality(DOMAIN m)
           less(k, l) == \/ SourceRank(k[1]) < SourceRank(l[1])
                         \/ k[1] = l[1] /\ Below(k[2], l[2])
           ranked == {<<Cardinality({l \in DOMAIN m : less(l, k)}) + 1, k>> : k \in DOMAIN m}
           e(k) == (CHOOSE r \in ranked : r[1] = k)[2]
           f == [k \in 1..n |-> e(k)]
           order == SubSeq(f, 1, n)
           g == [k \in DOMAIN order |-> m[order[k]]]
<1>1. n \in Nat
  BY Zenon, FS_CardinalityType
<1>2. Peers(m) = SubSeq(g, 1, Len(order))
  BY Zenon DEF Peers, OrderedBy
<1> HIDE DEF ranked, n, e
<1>3. f = [k \in 1..n |-> f[k]]
  BY Zenon
<1> HIDE DEF f
<1>4. f \in Seq({f[k] : k \in 1..n}) /\ Len(f) = n
  BY <1>1, <1>3
<1>5. Len(order) = n /\ DOMAIN order = 1..n
  BY <1>1, <1>4
<1> HIDE DEF order
<1>6. g = [k \in 1..n |-> m[order[k]]]
  BY Zenon, <1>5
<1> DEFINE S == {m[order[k]] : k \in 1..n}
<1>7. g \in Seq(S) /\ Len(g) = n
  BY <1>1, <1>6
<1> HIDE DEF g, S
<1>8. SubSeq(g, 1, n) \in Seq(S)
  BY <1>1, <1>7
<1> QED
  BY Zenon, <1>2, <1>5, <1>8

LEMMA AddedFinite ==
  ASSUME NEW m, IsFiniteSet(DOMAIN m), NEW S, NEW peers \in Seq(S)
  PROVE  IsFiniteSet(DOMAIN addPeers(m, peers))
<1> DEFINE D == DOMAIN peers
           key == [i \in Named(peers) |-> Key(peers[i])]
           new == {Key(peers[i]) : i \in Named(peers)}
<1>1. Len(peers) \in Nat /\ D = 1..Len(peers)
  BY Zenon, Elements
<1>2. IsFiniteSet(D)
  <2>1. 1 \in Int /\ Len(peers) \in Int
    BY <1>1
  <2> QED
    BY Zenon, <1>1, <2>1, FS_Interval
<1>3. IsFiniteSet(Named(peers))
  <2>1. Named(peers) \in SUBSET D
    BY Zenon DEF Named
  <2> QED
    BY Zenon, <1>2, <2>1, FS_Subset
<1>4. IsFiniteSet(new)
  <2>1. key \in Surjection(Named(peers), new)
    BY Zenon DEF Surjection
  <2> HIDE DEF key, new
  <2> QED
    BY Zenon, <1>3, <2>1, FS_Surjection
<1>5. DOMAIN addPeers(m, peers) = DOMAIN m \cup new
  BY Zenon, AddPeersIs
<1> HIDE DEF new
<1> QED
  BY Zenon, <1>4, <1>5, FS_Union
=============================================================================
