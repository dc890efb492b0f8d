----------------------------- MODULE MonitorProofs -----------------------------
(***************************************************************************)
(* Proofs about Monitor for every set of backends, groups and descriptors, *)
(* one operation of the master at a time: the types, the registry, and     *)
(* what the servers know of it.                                            *)
(***************************************************************************)
EXTENDS Monitor, SequenceTheorems, Functions, FiniteSetTheorems, TLAPS

------------------------------------------------------------------------------
(* Part of a sequence.                                                     *)

\* Nth enumerates the positions K in their order.
LEMMA NthFacts ==
    ASSUME NEW K \in SUBSET Nat, IsFiniteSet(K)
    PROVE  /\ Cardinality(K) \in Nat
           /\ \A k \in 1 .. Cardinality(K) : Nth(K, k) \in K
           /\ \A j, k \in 1 .. Cardinality(K) : j < k => Nth(K, j) < Nth(K, k)
           /\ \A n \in K : \E k \in 1 .. Cardinality(K) : Nth(K, k) = n
<1> DEFINE c == Cardinality(K)
           L(n) == {m \in K : m <= n}
           rank == [n \in K |-> Cardinality(L(n))]
<1>0. \A n \in K : n \in Nat OBVIOUS
<1>1. IsFiniteSet(K) /\ c \in Nat
  BY FS_CardinalityType
<1>2. \A n \in K : /\ IsFiniteSet(L(n)) /\ Cardinality(L(n)) \in Nat
                   /\ Cardinality(L(n)) <= c
                   /\ Cardinality(L(n)) # 0
  <2> SUFFICES ASSUME NEW n \in K
               PROVE  /\ IsFiniteSet(L(n)) /\ Cardinality(L(n)) \in Nat
                      /\ Cardinality(L(n)) <= c
                      /\ Cardinality(L(n)) # 0
    OBVIOUS
  <2>1. L(n) \in SUBSET K /\ n \in L(n) OBVIOUS
  <2> HIDE DEF L
  <2>2. IsFiniteSet(L(n)) /\ Cardinality(L(n)) <= c BY <1>1, <2>1, FS_Subset
  <2>3. Cardinality(L(n)) \in Nat BY <2>2, FS_CardinalityType
  <2>4. Cardinality(L(n)) # 0 BY <2>1, <2>2, FS_EmptySet
  <2> QED BY <2>2, <2>3, <2>4
<1>3. \A n, m \in K : n < m => rank[n] < rank[m]
  <2> SUFFICES ASSUME NEW n \in K, NEW m \in K, n < m
               PROVE  Cardinality(L(n)) < Cardinality(L(m))
    OBVIOUS
  <2>1. L(n) \in SUBSET L(m) /\ m \in L(m) /\ m \notin L(n)
    <3>1. n \in Nat /\ m \in Nat /\ ~(m <= n) /\ m <= m BY <1>0
    <3>2. \A k \in Nat : k <= n => k <= m BY <3>1
    <3> QED BY <1>0, <3>1, <3>2
  <2>2. /\ Cardinality(L(n)) \in Nat /\ Cardinality(L(m)) \in Nat
        /\ IsFiniteSet(L(m))
    BY <1>2
  <2> HIDE DEF L
  <2>3. Cardinality(L(n)) <= Cardinality(L(m)) /\ Cardinality(L(n)) # Cardinality(L(m))
    BY <2>1, <2>2, FS_Subset
  <2> QED BY <2>2, <2>3
<1>4. rank \in [K -> 1 .. c] BY <1>1, <1>2
<1>5. \A n \in K : rank[n] = Cardinality(L(n)) OBVIOUS
<1> HIDE DEF rank, c
<1>6. rank \in Injection(K, 1 .. c)
  <2>1. \A n, m \in K : rank[n] = rank[m] => n = m BY <1>1, <1>3, <1>4
  <2> QED BY <1>4, <2>1 DEF Injection, IsInjective
<1>7. rank \in Surjection(K, 1 .. c)
  <2>1. IsFiniteSet(1 .. c) /\ Cardinality(1 .. c) = c BY <1>1, FS_Interval
  <2> QED BY <1>6, <2>1, FS_Injection DEF c
<1>8. \A k \in 1 .. c : \E n \in K : rank[n] = k BY <1>7 DEF Surjection
<1>9. \A k \in 1 .. c : Nth(K, k) \in K /\ rank[Nth(K, k)] = k
  <2> SUFFICES ASSUME NEW k \in 1 .. c PROVE Nth(K, k) \in K /\ rank[Nth(K, k)] = k
    OBVIOUS
  <2>1. PICK n \in K : Cardinality({m \in K : m <= n}) = k BY <1>5, <1>8
  <2>2. Nth(K, k) \in K /\ Cardinality({m \in K : m <= Nth(K, k)}) = k
    BY <2>1 DEF Nth
  <2> QED BY <1>5, <2>2
<1>10. \A j, k \in 1 .. c : j < k => Nth(K, j) < Nth(K, k)
  <2> SUFFICES ASSUME NEW j \in 1 .. c, NEW k \in 1 .. c, j < k
               PROVE  Nth(K, j) < Nth(K, k)
    OBVIOUS
  <2> DEFINE n == Nth(K, j)
             m == Nth(K, k)
  <2>1. n \in K /\ m \in K /\ rank[n] = j /\ rank[m] = k BY <1>9
  <2>a. j \in Nat /\ k \in Nat OBVIOUS
  <2> HIDE DEF n, m
  <2>b. n \in Nat /\ m \in Nat BY <1>0, <2>1
  <2>2. n \in Nat /\ m \in Nat /\ j \in Nat /\ k \in Nat BY <2>a, <2>b
  <2>3. ~(m < n) /\ m # n BY <1>3, <2>1, <2>2
  <2> QED BY <2>2, <2>3 DEF n, m
<1>11. \A n \in K : \E k \in 1 .. c : Nth(K, k) = n
  <2> SUFFICES ASSUME NEW n \in K PROVE \E k \in 1 .. c : Nth(K, k) = n
    OBVIOUS
  <2>1. rank[n] \in 1 .. c BY <1>4
  <2>2. Nth(K, rank[n]) = n BY <1>6, <1>9, <2>1 DEF Injection, IsInjective
  <2> QED BY <2>1, <2>2
<1> QED BY <1>1, <1>9, <1>10, <1>11 DEF c

\* Positions of a sequence are a finite set.
LEMMA Positions ==
    ASSUME NEW len \in Nat, NEW K \in SUBSET (1 .. len)
    PROVE  K \in SUBSET Nat /\ IsFiniteSet(K)
<1>1. IsFiniteSet(1 .. len) BY FS_Interval
<1>2. IsFiniteSet(K) BY <1>1, FS_Subset
<1> QED BY <1>2

\* Pick takes the elements at K, all of them, once and in their order.
LEMMA PickFacts ==
    ASSUME NEW S, NEW s \in Seq(S), NEW K \in SUBSET (1 .. Len(s))
    PROVE  /\ Pick(s, K) \in Seq(S)
           /\ DOMAIN Pick(s, K) = 1 .. Cardinality(K)
           /\ \E f \in [DOMAIN Pick(s, K) -> K] :
                 /\ \A k \in DOMAIN Pick(s, K) : Pick(s, K)[k] = s[f[k]]
                 /\ \A j, k \in DOMAIN Pick(s, K) : j < k => f[j] < f[k]
                 /\ \A n \in K : \E k \in DOMAIN Pick(s, K) : f[k] = n
<1> DEFINE c == Cardinality(K)
           p == Pick(s, K)
           f == [k \in 1 .. c |-> Nth(K, k)]
<1>n. /\ c \in Nat
      /\ \A k \in 1 .. c : Nth(K, k) \in K
      /\ \A j, k \in 1 .. c : j < k => Nth(K, j) < Nth(K, k)
      /\ \A n \in K : \E k \in 1 .. c : Nth(K, k) = n
  <2>1. Len(s) \in Nat OBVIOUS
  <2>2. K \in SUBSET Nat /\ IsFiniteSet(K) BY <2>1, Positions
  <2> QED BY <2>2, NthFacts
<1> HIDE DEF c
<1>0. f \in [1 .. c -> K] BY <1>n
<1>1. p = [k \in 1 .. c |-> s[Nth(K, k)]] BY DEF Pick, c
<1>2. \A k \in 1 .. c : s[Nth(K, k)] \in S
  <2>1. \A n \in K : s[n] \in S OBVIOUS
  <2> QED BY <1>n, <2>1
<1>3. p \in Seq(S) /\ DOMAIN p = 1 .. c BY <1>n, <1>1, <1>2
<1>4. /\ \A k \in DOMAIN p : p[k] = s[f[k]]
      /\ \A j, k \in DOMAIN p : j < k => f[j] < f[k]
      /\ \A n \in K : \E k \in DOMAIN p : f[k] = n
  BY <1>n, <1>1, <1>3
<1> HIDE DEF f, p
<1> QED BY <1>0, <1>3, <1>4 DEF p, c

\* What enumerates K in its order is Nth.
LEMMA NthUnique ==
    ASSUME NEW K \in SUBSET Nat, NEW c \in Nat, NEW f \in [1 .. c -> K],
           \A j, k \in 1 .. c : j < k => f[j] < f[k],
           \A n \in K : \E k \in 1 .. c : f[k] = n
    PROVE  Cardinality(K) = c /\ \A k \in 1 .. c : Nth(K, k) = f[k]
<1>n. \A n \in K : n \in Nat
  OBVIOUS
<1>0. \A k \in 1 .. c : f[k] \in K /\ f[k] \in Nat
  BY <1>n
<1>1. \A j, k \in 1 .. c : f[j] <= f[k] => j <= k
  <2> SUFFICES ASSUME NEW j \in 1 .. c, NEW k \in 1 .. c, f[j] <= f[k], k < j PROVE FALSE
    OBVIOUS
  <2>1. f[k] < f[j] /\ f[k] \in Nat /\ f[j] \in Nat
    BY <1>0
  <2> QED BY <2>1
<1>2. \A j, k \in 1 .. c : j <= k => f[j] <= f[k]
  <2> SUFFICES ASSUME NEW j \in 1 .. c, NEW k \in 1 .. c, j <= k PROVE f[j] <= f[k]
    OBVIOUS
  <2>1. f[j] \in Nat /\ f[k] \in Nat
    BY <1>0
  <2>2. j = k \/ j < k
    OBVIOUS
  <2> QED BY <2>1, <2>2
<1>3. ASSUME NEW k \in 0 .. c, NEW L, L = {f[j] : j \in 1 .. k}
      PROVE  Cardinality(L) = k
  <2> DEFINE g == [j \in 1 .. k |-> f[j]]
  <2>1. 1 .. k \subseteq 1 .. c /\ k \in Nat
    OBVIOUS
  <2>2. g \in [1 .. k -> L] /\ \A n \in L : \E j \in 1 .. k : g[j] = n
    BY <1>3
  <2>3. \A i, j \in 1 .. k : g[i] = g[j] => i = j
    <3> SUFFICES ASSUME NEW i \in 1 .. k, NEW j \in 1 .. k, f[i] = f[j] PROVE i = j
      OBVIOUS
    <3>1. i \in 1 .. c /\ j \in 1 .. c /\ f[i] <= f[j] /\ f[j] <= f[i]
      BY <1>0, <2>1
    <3> QED BY <1>1, <3>1
  <2> HIDE DEF g
  <2>4. g \in Bijection(1 .. k, L)
    BY <2>2, <2>3 DEF Bijection, Injection, IsInjective, Surjection
  <2>5. ExistsBijection(1 .. k, L)
    BY <2>4 DEF ExistsBijection
  <2>6. IsFiniteSet(1 .. k) /\ Cardinality(1 .. k) = k
    BY <2>1, FS_Interval
  <2> QED BY <2>5, <2>6, FS_Bijection
<1>4. Cardinality(K) = c
  <2>1. K = {f[j] : j \in 1 .. c}
    OBVIOUS
  <2>2. c \in 0 .. c
    OBVIOUS
  <2> QED BY <1>3, <2>1, <2>2
<1>5. \A k \in 1 .. c : Cardinality({m \in K : m <= f[k]}) = k
  <2> SUFFICES ASSUME NEW k \in 1 .. c PROVE Cardinality({m \in K : m <= f[k]}) = k
    OBVIOUS
  <2>1. ASSUME NEW m PROVE m \in {n \in K : n <= f[k]} <=> m \in {f[j] : j \in 1 .. k}
    <3>1. ASSUME m \in K, m <= f[k] PROVE \E j \in 1 .. k : m = f[j]
      <4>1. PICK j \in 1 .. c : f[j] = m
        BY <3>1
      <4>2. j <= k
        BY <1>1, <3>1, <4>1
      <4> QED BY <4>1, <4>2
    <3>2. ASSUME NEW j \in 1 .. k, m = f[j] PROVE m \in K /\ m <= f[k]
      <4>1. j \in 1 .. c /\ j <= k
        OBVIOUS
      <4> QED BY <1>0, <1>2, <3>2, <4>1
    <3> QED BY <3>1, <3>2
  <2>2. {n \in K : n <= f[k]} = {f[j] : j \in 1 .. k}
    BY <2>1
  <2>3. k \in 0 .. c
    OBVIOUS
  <2> QED BY <1>3, <2>2, <2>3
<1>6. ASSUME NEW k \in 1 .. c PROVE Nth(K, k) = f[k]
  <2>1. \E n \in K : Cardinality({m \in K : m <= n}) = k
    BY <1>0, <1>5
  <2>2. Nth(K, k) \in K /\ Cardinality({m \in K : m <= Nth(K, k)}) = k
    BY <2>1 DEF Nth
  <2>3. PICK j \in 1 .. c : f[j] = Nth(K, k)
    BY <2>2
  <2>4. j = k
    BY <1>5, <2>2, <2>3
  <2> QED BY <2>3, <2>4
<1> QED BY <1>4, <1>6

\* What is picked does not see an element appended ...
LEMMA PickAppend ==
    ASSUME NEW S, NEW s \in Seq(S), NEW e, NEW K \in SUBSET (1 .. Len(s))
    PROVE  Pick(Append(s, e), K) = Pick(s, K)
<1>0. Len(s) \in Nat
  OBVIOUS
<1>1. \A k \in 1 .. Cardinality(K) : Nth(K, k) \in 1 .. Len(s)
  <2>1. \A k \in 1 .. Cardinality(K) : Nth(K, k) \in K
    BY <1>0, Positions, NthFacts
  <2> QED BY <2>1
<1>2. \A n \in 1 .. Len(s) : Append(s, e)[n] = s[n]
  OBVIOUS
<1> QED BY <1>1, <1>2 DEF Pick

Increasing(f, T) == \A m, n \in T : m < n => f[m] < f[n]

\* ... or one that is not picked and that is removed: the sequence t has, at its
\* places T, the elements that s has at the places up[T], in the same order.
LEMMA PickThrough ==
    ASSUME NEW T \in SUBSET Nat, IsFiniteSet(T), NEW S \in SUBSET Nat,
           NEW up \in [T -> S], Increasing(up, T),
           NEW s, NEW t, \A n \in T : t[n] = s[up[n]],
           NEW K \in SUBSET S, NEW L \in SUBSET T,
           \A n \in T : n \in L <=> up[n] \in K,
           \A m \in K : \E n \in T : up[n] = m
    PROVE  Pick(t, L) = Pick(s, K)
<1> DEFINE c == Cardinality(L)
           f == [k \in 1 .. c |-> up[Nth(L, k)]]
<1>0. L \in SUBSET Nat /\ IsFiniteSet(L)
  BY FS_Subset
<1>1. /\ c \in Nat
      /\ \A k \in 1 .. c : Nth(L, k) \in L
      /\ \A j, k \in 1 .. c : j < k => Nth(L, j) < Nth(L, k)
      /\ \A n \in L : \E k \in 1 .. c : Nth(L, k) = n
  BY <1>0, NthFacts
<1> HIDE DEF c
<1>2. f \in [1 .. c -> K]
  BY <1>1
<1>3. \A j, k \in 1 .. c : j < k => f[j] < f[k]
  BY <1>1 DEF Increasing
<1>4. \A m \in K : \E k \in 1 .. c : f[k] = m
  <2> SUFFICES ASSUME NEW m \in K PROVE \E k \in 1 .. c : f[k] = m
    OBVIOUS
  <2>1. PICK n \in L : up[n] = m
    OBVIOUS
  <2>2. PICK k \in 1 .. c : Nth(L, k) = n
    BY <1>1
  <2> QED BY <2>1, <2>2
<1>5. \A k \in 1 .. c : f[k] = up[Nth(L, k)]
  OBVIOUS
<1> HIDE DEF f
<1>6. Cardinality(K) = c /\ \A k \in 1 .. c : Nth(K, k) = f[k]
  <2>1. c \in Nat BY <1>1
  <2>2. K \in SUBSET Nat OBVIOUS
  <2> QED BY <2>1, <2>2, <1>2, <1>3, <1>4, NthUnique
<1>7. \A k \in 1 .. c : s[Nth(K, k)] = t[Nth(L, k)]
  BY ZenonT(60), <1>1, <1>5, <1>6
<1> QED BY <1>6, <1>7 DEF Pick, c


------------------------------------------------------------------------------
(* With every hazard: alive_backends holds a server at most once.          *)

AliveInv ==
    /\ alive \in Seq(Backends)
    /\ \A m, n \in DOMAIN alive : alive[m] = alive[n] => m = n

\* The server that a thread is at work on; what it sends does not matter here.
ThreadShape ==
    /\ DOMAIN thread = Threads
    /\ \A t \in Threads :
          /\ DOMAIN thread[t] = {"at", "b", "fd", "out"}
          /\ thread[t].at \in {"set", "kill", "restart"} => thread[t].b \in Backends

\* Appending a server, or erasing one.
In(list, b) == \E n \in DOMAIN list : list[n] = b
Distinct(list) == \A m, n \in DOMAIN list : list[m] = list[n] => m = n

LEMMA JoinedIs ==
    ASSUME AliveInv, NEW b \in Backends
    PROVE  /\ Joined(b) \in Seq(Backends) /\ Len(Joined(b)) = Len(alive) + 1
           /\ \A n \in 1 .. Len(alive) : Joined(b)[n] = alive[n]
           /\ Joined(b)[Len(alive) + 1] = b
BY DEF AliveInv, Joined

LEMMA JoinedHolds ==
    ASSUME AliveInv, NEW b \in Backends
    PROVE  /\ \A c : In(Joined(b), c) <=> IsAlive(c) \/ c = b
           /\ ~IsAlive(b) => Distinct(Joined(b))
<1>1. alive \in Seq(Backends) /\ Len(alive) \in Nat /\ DOMAIN alive = 1 .. Len(alive)
  BY DEF AliveInv
<1>2. DOMAIN Joined(b) = 1 .. Len(alive) + 1
  BY JoinedIs
<1>3. ASSUME NEW c PROVE In(Joined(b), c) <=> IsAlive(c) \/ c = b
  <2>1. In(Joined(b), c) <=> \E n \in 1 .. Len(alive) + 1 : Joined(b)[n] = c
    BY <1>2 DEF In
  <2>2. IsAlive(c) <=> \E n \in 1 .. Len(alive) : alive[n] = c
    BY <1>1 DEF IsAlive
  <2> QED BY <1>1, <2>1, <2>2, JoinedIs
<1>4. ASSUME ~IsAlive(b) PROVE Distinct(Joined(b))
  <2> SUFFICES ASSUME NEW m \in 1 .. Len(alive) + 1, NEW n \in 1 .. Len(alive) + 1,
                      Joined(b)[m] = Joined(b)[n]
               PROVE  m = n
    BY <1>2 DEF Distinct
  <2>1. \A k \in 1 .. Len(alive) : Joined(b)[k] = alive[k] /\ alive[k] # b
    BY <1>1, <1>4, JoinedIs DEF IsAlive
  <2>2. Joined(b)[Len(alive) + 1] = b
    BY JoinedIs
  <2> QED BY <1>1, <2>1, <2>2 DEF AliveInv
<1> QED BY <1>3, <1>4

LEMMA LeftIs ==
    ASSUME AliveInv, NEW i \in DOMAIN alive
    PROVE  /\ Left(alive[i]) \in Seq(Backends) /\ Len(Left(alive[i])) = Len(alive) - 1
           /\ \A n \in 1 .. Len(alive) - 1 :
                 Left(alive[i])[n] = IF n < i THEN alive[n] ELSE alive[n + 1]
<1>1. (CHOOSE n \in DOMAIN alive : alive[n] = alive[i]) = i
  BY DEF AliveInv
<1>2. Left(alive[i]) = SubSeq(alive, 1, i - 1) \o SubSeq(alive, i + 1, Len(alive))
  BY <1>1 DEF Left, RemoveAt
<1>3. alive \in Seq(Backends) /\ i \in 1 .. Len(alive) /\ Len(alive) \in Nat
  BY DEF AliveInv
<1> DEFINE front == SubSeq(alive, 1, i - 1)
           back  == SubSeq(alive, i + 1, Len(alive))
<1>4. /\ front \in Seq(Backends) /\ Len(front) = i - 1
      /\ \A n \in 1 .. i - 1 : front[n] = alive[n]
  BY <1>3
<1>5. /\ back \in Seq(Backends) /\ Len(back) = Len(alive) - i
      /\ \A n \in 1 .. Len(alive) - i : back[n] = alive[i + n]
  BY <1>3
<1> HIDE DEF front, back
<1>6. /\ front \o back \in Seq(Backends) /\ Len(front \o back) = Len(alive) - 1
      /\ \A n \in 1 .. Len(alive) - 1 :
            (front \o back)[n] = IF n < i THEN alive[n] ELSE alive[n + 1]
  <2>t. front \in Seq(Backends) /\ back \in Seq(Backends)
    BY <1>4, <1>5
  <2>1. /\ front \o back \in Seq(Backends)
        /\ Len(front \o back) = Len(front) + Len(back)
        /\ \A n \in 1 .. Len(front) + Len(back) :
              (front \o back)[n] = IF n <= Len(front) THEN front[n] ELSE back[n - Len(front)]
    BY <2>t, ConcatProperties, Zenon
  <2>2. Len(front) = i - 1 /\ Len(back) = Len(alive) - i
    BY <1>4, <1>5
  <2>3. Len(front) + Len(back) = Len(alive) - 1
    BY <1>3, <2>2
  <2>4. ASSUME NEW n \in 1 .. Len(alive) - 1
        PROVE  (front \o back)[n] = IF n < i THEN alive[n] ELSE alive[n + 1]
    <3>1. (front \o back)[n] = IF n <= i - 1 THEN front[n] ELSE back[n - (i - 1)]
      BY <2>1, <2>2, <2>3
    <3>2. CASE n < i BY <1>3, <1>4, <3>1, <3>2
    <3>3. CASE ~(n < i)
      <4>1. n - (i - 1) \in 1 .. Len(alive) - i /\ i + (n - (i - 1)) = n + 1
        BY <1>3, <3>3
      <4>2. back[n - (i - 1)] = alive[n + 1]
        BY <1>5, <4>1
      <4> QED BY <1>3, <3>1, <3>3, <4>2
    <3> QED BY <3>2, <3>3
  <2> QED BY <2>1, <2>3, <2>4
<1> QED BY <1>2, <1>6 DEF front, back

LEMMA LeftHolds ==
    ASSUME AliveInv, NEW b \in Backends, IsAlive(b)
    PROVE  /\ \A c : In(Left(b), c) <=> IsAlive(c) /\ c # b
           /\ Distinct(Left(b))
<1>1. PICK i \in DOMAIN alive : alive[i] = b
  BY DEF IsAlive
<1>2. alive \in Seq(Backends) /\ Len(alive) \in Nat /\ DOMAIN alive = 1 .. Len(alive)
  BY DEF AliveInv
<1>3. /\ Left(b) \in Seq(Backends) /\ Len(Left(b)) = Len(alive) - 1
      /\ \A n \in 1 .. Len(alive) - 1 : Left(b)[n] = IF n < i THEN alive[n] ELSE alive[n + 1]
  BY <1>1, LeftIs
<1> DEFINE left == Left(b)
<1> HIDE DEF left
<1>d. DOMAIN left = 1 .. Len(alive) - 1
  BY <1>2, <1>3 DEF left
<1>n. \A n \in 1 .. Len(alive) - 1 : left[n] = IF n < i THEN alive[n] ELSE alive[n + 1]
  BY <1>3 DEF left
<1>4. ASSUME NEW c, In(left, c) PROVE IsAlive(c) /\ c # b
  <2>1. PICK n \in 1 .. Len(alive) - 1 : left[n] = c
    BY <1>d, <1>4 DEF In
  <2>2. PICK m \in 1 .. Len(alive) : m # i /\ alive[m] = c
    BY <1>1, <1>2, <1>n, <2>1
  <2> QED BY <1>1, <1>2, <2>2 DEF IsAlive, AliveInv
<1>5. ASSUME NEW c, IsAlive(c), c # b PROVE In(left, c)
  <2>1. PICK m \in 1 .. Len(alive) : alive[m] = c
    BY <1>2, <1>5 DEF IsAlive
  <2>2. CASE m < i
    BY <1>1, <1>2, <1>d, <1>n, <2>1, <2>2 DEF In
  <2>3. CASE m > i
    <3>1. m - 1 \in 1 .. Len(alive) - 1 /\ left[m - 1] = c
      BY <1>1, <1>2, <1>n, <2>1, <2>3
    <3> QED BY <1>d, <3>1 DEF In
  <2>4. m # i BY <1>1, <1>5, <2>1
  <2> QED BY <1>2, <2>1, <2>2, <2>3, <2>4
<1>6. Distinct(left)
  BY SMTT(40), <1>1, <1>2, <1>d, <1>n DEF Distinct, AliveInv
<1> QED BY <1>4, <1>5, <1>6 DEF left

\* What a step does to the list of alive servers.
LEMMA AliveStep ==
    ASSUME AliveInv, ThreadShape, [Next]_vars
    PROVE  \/ alive' = alive
           \/ \E b \in Backends : ~IsAlive(b) /\ alive' = Joined(b)
           \/ \E b \in Backends : IsAlive(b) /\ alive' = Left(b)
<1> USE DEF ThreadShape, Threads
<1>1. CASE SetBackendFd BY <1>1 DEF SetBackendFd, At
<1>2. CASE DeleteAlive BY <1>2 DEF DeleteAlive
<1>3. CASE KillBackend BY <1>3 DEF KillBackend, At
<1>4. CASE RestartBackend
  <2>1. thread["admin"].b \in Backends
    BY <1>4 DEF RestartBackend, At
  <2> QED BY <1>4, <2>1 DEF RestartBackend
<1>5. ASSUME NEW b \in Backends,
             \/ BackendInitial(b) \/ BackendEof(b) \/ KillRequest(b) \/ RestartRequest(b)
             \/ Start(b) \/ Die(b) \/ Receive(b)
      PROVE  alive' = alive
  BY <1>5 DEF BackendInitial, BackendEof, KillRequest, RestartRequest, Admin, Start, Die, Receive
<1>6. CASE DeleteDead \/ Send("conn") \/ Send("admin")
  BY <1>6 DEF DeleteDead, Send
<1>7. CASE UNCHANGED vars BY <1>7 DEF vars
<1> QED BY <1>1, <1>2, <1>3, <1>4, <1>5, <1>6, <1>7 DEF Next, ConnSteps, AdminSteps

LEMMA AliveNext ==
    ASSUME AliveInv, ThreadShape, [Next]_vars
    PROVE  AliveInv'
<1>1. ASSUME NEW b \in Backends, ~IsAlive(b), alive' = Joined(b) PROVE AliveInv'
  BY <1>1, JoinedIs, JoinedHolds DEF AliveInv, Distinct
<1>2. ASSUME NEW b \in Backends, IsAlive(b), alive' = Left(b) PROVE AliveInv'
  <2>1. Left(b) \in Seq(Backends)
    BY <1>2, LeftIs DEF IsAlive
  <2> QED BY <1>2, <2>1, LeftHolds DEF AliveInv, Distinct
<1>3. CASE alive' = alive BY <1>3 DEF AliveInv
<1> QED BY <1>1, <1>2, <1>3, AliveStep

LEMMA ThreadNext ==
    ASSUME ThreadShape, [Next]_vars
    PROVE  ThreadShape'
<1> USE DEF ThreadShape, Threads
<1>1. ASSUME NEW b \in Backends, BackendInitial(b) \/ BackendEof(b) PROVE ThreadShape'
  BY <1>1 DEF BackendInitial, BackendEof, Begin
<1>2. ASSUME NEW b \in Backends, KillRequest(b) \/ RestartRequest(b) PROVE ThreadShape'
  BY <1>2 DEF KillRequest, RestartRequest, Admin, Begin
<1>3. ASSUME NEW t \in Threads, NEW out, SendAll(t, out) PROVE ThreadShape'
  BY <1>3 DEF SendAll, Idle
<1>4. ASSUME NEW t \in Threads, Finish(t) PROVE ThreadShape'
  BY <1>4 DEF Finish, Idle
<1>5. ASSUME NEW t \in Threads, Send(t) PROVE ThreadShape'
  BY <1>5 DEF Send, At, Idle
<1>6. CASE SetBackendFd BY <1>3, <1>4, <1>6 DEF SetBackendFd
<1>7. CASE DeleteAlive
  <2>1. ASSUME Goto("conn", "eof2") PROVE ThreadShape'
    BY <2>1 DEF Goto
  <2> QED BY <1>3, <1>7, <2>1 DEF DeleteAlive
<1>8. CASE DeleteDead BY <1>4, <1>8 DEF DeleteDead
<1>9. CASE KillBackend BY <1>3, <1>4, <1>9 DEF KillBackend
<1>10. CASE RestartBackend BY <1>3, <1>4, <1>10 DEF RestartBackend
<1>11. ASSUME NEW b \in Backends, Start(b) \/ Die(b) \/ Receive(b) PROVE thread' = thread
  BY <1>11 DEF Start, Die, Receive
<1>12. CASE UNCHANGED thread BY <1>12
<1>13. CASE UNCHANGED vars BY <1>12, <1>13 DEF vars
<1> QED
  BY <1>1, <1>2, <1>5, <1>6, <1>7, <1>8, <1>9, <1>10, <1>11, <1>12, <1>13
     DEF Next, ConnSteps, AdminSteps

LEMMA AliveAlways == Spec => [](AliveInv /\ ThreadShape)
<1>1. Init => AliveInv /\ ThreadShape
  BY DEF Init, AliveInv, ThreadShape, Threads, Idle
<1> QED BY <1>1, AliveNext, ThreadNext, PTL DEF Spec

------------------------------------------------------------------------------
(* The servers of one group.                                               *)

PositionsOf(list, g) == {n \in DOMAIN list : GroupOf[list[n]] = g}

LEMMA InGroupIs ==
    ASSUME NEW list \in Seq(Backends), NEW g
    PROVE  /\ InGroup(list, g) \in Seq(Backends)
           /\ \A b : In(InGroup(list, g), b) <=> In(list, b) /\ GroupOf[b] = g
           /\ \A n : IsFirst(list, g, n) =>
                 InGroup(list, g) # <<>> /\ Head(InGroup(list, g)) = list[n]
<1> DEFINE K == PositionsOf(list, g)
           p == Pick(list, K)
<1>1. InGroup(list, g) = p
  BY DEF InGroup, PositionsOf
<1>2. K \in SUBSET (1 .. Len(list)) /\ DOMAIN list = 1 .. Len(list)
  BY DEF PositionsOf
<1>3. p \in Seq(Backends) /\ DOMAIN p = 1 .. Cardinality(K)
  BY <1>2, PickFacts
<1>4. PICK f \in [DOMAIN p -> K] :
         /\ \A k \in DOMAIN p : p[k] = list[f[k]]
         /\ \A j, k \in DOMAIN p : j < k => f[j] < f[k]
         /\ \A n \in K : \E k \in DOMAIN p : f[k] = n
  BY <1>2, PickFacts
<1>k. \A n : n \in K <=> n \in DOMAIN list /\ GroupOf[list[n]] = g
  BY DEF PositionsOf
<1> HIDE DEF K, p
<1>5. ASSUME NEW b PROVE In(p, b) <=> In(list, b) /\ GroupOf[b] = g
  <2>1. ASSUME NEW k \in DOMAIN p, p[k] = b PROVE In(list, b) /\ GroupOf[b] = g
    BY <1>4, <1>k, <2>1 DEF In
  <2>2. ASSUME NEW n \in DOMAIN list, list[n] = b, GroupOf[b] = g PROVE In(p, b)
    <3>1. n \in K BY <1>k, <2>2
    <3>2. PICK k \in DOMAIN p : f[k] = n BY <1>4, <3>1
    <3> QED BY <1>4, <2>2, <3>2 DEF In
  <2> QED BY <2>1, <2>2 DEF In
<1>6. ASSUME NEW n, IsFirst(list, g, n) PROVE p # <<>> /\ Head(p) = list[n]
  <2>1. n \in K /\ \A m \in 1 .. n - 1 : m \notin K
    BY <1>6, <1>k DEF IsFirst
  <2>2. PICK k \in DOMAIN p : f[k] = n
    BY <1>4, <2>1
  <2>3. p # <<>> /\ Len(p) \in Nat \ {0} /\ DOMAIN p = 1 .. Len(p) /\ 1 \in DOMAIN p /\ Head(p) = p[1]
    <3>1. Len(p) \in Nat /\ DOMAIN p = 1 .. Len(p)
      BY <1>3
    <3>2. k \in 1 .. Len(p)
      BY <2>2, <3>1
    <3>3. Len(p) # 0 /\ 1 \in 1 .. Len(p)
      BY <3>1, <3>2
    <3>4. p # <<>> /\ Head(p) = p[1]
      BY <1>3, <3>1, <3>3
    <3> QED BY <3>1, <3>3, <3>4
  <2>4. f[1] \in K /\ f[1] \in 1 .. Len(list) /\ n \in 1 .. Len(list) /\ Len(list) \in Nat
    <3>1. f[1] \in K
      BY <1>4, <2>3
    <3>2. Len(list) \in Nat
      OBVIOUS
    <3> QED BY <1>2, <2>1, <3>1, <3>2
  <2>5. k = 1
    <3> SUFFICES ASSUME k # 1 PROVE FALSE
      OBVIOUS
    <3>1. 1 < k
      BY <2>3
    <3>2. f[1] < n
      BY <1>4, <2>2, <2>3, <3>1
    <3>3. f[1] \in 1 .. n - 1
      BY <2>4, <3>2
    <3> QED BY <2>1, <2>4, <3>3
  <2> QED BY <1>4, <2>2, <2>3, <2>5
<1> QED BY <1>1, <1>3, <1>5, <1>6

\* Other groups do not see a server join or leave.
LEMMA InGroupJoined ==
    ASSUME AliveInv, NEW b \in Backends, NEW g, GroupOf[b] # g
    PROVE  InGroup(Joined(b), g) = InGroup(alive, g)
<1>1. alive \in Seq(Backends) /\ DOMAIN alive = 1 .. Len(alive) /\ Len(alive) \in Nat
  BY DEF AliveInv
<1>2. DOMAIN Joined(b) = 1 .. Len(alive) + 1 /\ Joined(b) = Append(alive, b)
      /\ \A n \in 1 .. Len(alive) : Joined(b)[n] = alive[n]
      /\ Joined(b)[Len(alive) + 1] = b
  BY JoinedIs DEF Joined
<1>3. ASSUME NEW n PROVE n \in PositionsOf(Joined(b), g) <=> n \in PositionsOf(alive, g)
  BY <1>1, <1>2 DEF PositionsOf
<1>4. PositionsOf(Joined(b), g) = PositionsOf(alive, g)
  BY <1>3
<1>5. PositionsOf(alive, g) \in SUBSET (1 .. Len(alive))
  BY <1>1 DEF PositionsOf
<1>6. Pick(Append(alive, b), PositionsOf(alive, g)) = Pick(alive, PositionsOf(alive, g))
  BY <1>1, <1>5, PickAppend
<1> QED BY <1>2, <1>4, <1>6 DEF InGroup, PositionsOf

LEMMA InGroupLeft ==
    ASSUME AliveInv, NEW b \in Backends, IsAlive(b), NEW g, GroupOf[b] # g
    PROVE  InGroup(Left(b), g) = InGroup(alive, g)
<1>1. PICK i \in DOMAIN alive : alive[i] = b
  BY DEF IsAlive
<1>2. alive \in Seq(Backends) /\ Len(alive) \in Nat /\ DOMAIN alive = 1 .. Len(alive)
  BY DEF AliveInv
<1> DEFINE left == Left(b)
<1>3. /\ left \in Seq(Backends) /\ Len(left) = Len(alive) - 1
      /\ \A n \in 1 .. Len(alive) - 1 : left[n] = IF n < i THEN alive[n] ELSE alive[n + 1]
  BY <1>1, LeftIs
<1> HIDE DEF left
<1>4. DOMAIN left = 1 .. Len(left)
  BY <1>3
<1> DEFINE K == PositionsOf(alive, g)
           L == PositionsOf(left, g)
<1>5. K \in SUBSET (1 .. Len(alive)) /\ L \in SUBSET (1 .. Len(left)) /\ i \notin K
  BY <1>1, <1>2, <1>4 DEF PositionsOf
<1>6. ASSUME NEW n \in 1 .. Len(left)
      PROVE  n \in L <=> (IF n < i THEN n ELSE n + 1) \in K
  <2>1. n \in 1 .. Len(alive) - 1 /\ n \in 1 .. Len(alive) /\ n + 1 \in 1 .. Len(alive)
    BY <1>2, <1>3
  <2>2. n \in L <=> GroupOf[left[n]] = g
    BY <1>4 DEF PositionsOf
  <2>3. \A m \in 1 .. Len(alive) : m \in K <=> GroupOf[alive[m]] = g
    BY <1>2 DEF PositionsOf
  <2>4. left[n] = IF n < i THEN alive[n] ELSE alive[n + 1]
    BY <1>3, <2>1
  <2> HIDE DEF K, L
  <2> QED BY <2>1, <2>2, <2>3, <2>4
<1> HIDE DEF K, L
<1>7. Pick(left, L) = Pick(alive, K)
  <2>1. i \in 1 .. Len(alive)
    BY <1>2
  <2> DEFINE T  == 1 .. Len(left)
             S  == 1 .. Len(alive)
             up == [n \in T |-> IF n < i THEN n ELSE n + 1]
  <2>2. Len(alive) \in Nat /\ Len(left) = Len(alive) - 1 /\ Len(left) \in Nat
    BY <1>2, <1>3, <2>1
  <2>3. K \in SUBSET S /\ L \in SUBSET T /\ i \notin K /\ S \in SUBSET Nat
    BY <1>5, <2>2
  <2>4. up \in [T -> S] /\ Increasing(up, T)
    BY <2>1, <2>2 DEF Increasing
  <2>5. \A n \in T : left[n] = alive[up[n]]
    BY <1>3, <2>2
  <2>6. \A n \in T : n \in L <=> up[n] \in K
    BY <1>6
  <2>7. \A m \in K : \E n \in T : up[n] = m
    <3> SUFFICES ASSUME NEW m \in K PROVE \E n \in T : up[n] = m
      OBVIOUS
    <3>1. m \in S /\ m # i
      BY <2>3
    <3>2. CASE m < i
      <4>1. m \in T /\ up[m] = m
        BY <2>1, <2>2, <3>1, <3>2
      <4> QED BY <4>1
    <3>3. CASE m > i
      <4>1. m - 1 \in T /\ up[m - 1] = m
        BY <2>1, <2>2, <3>1, <3>3
      <4> QED BY <4>1
    <3> QED BY <2>1, <2>2, <3>1, <3>2, <3>3
  <2>8. T \in SUBSET Nat /\ IsFiniteSet(T)
    BY <2>2, Positions
  <2> HIDE DEF T, S, up
  <2>a. K \in SUBSET S BY <2>3
  <2>b. L \in SUBSET T BY <2>3
  <2>c. S \in SUBSET Nat BY <2>3
  <2> QED BY <2>4, <2>5, <2>6, <2>7, <2>8, <2>a, <2>b, <2>c, PickThrough
<1> QED BY <1>7 DEF InGroup, K, L, left, PositionsOf

------------------------------------------------------------------------------
(* Types.                                                                  *)

Work == [at : {"idle", "set", "eof", "eof2", "kill", "restart", "send"},
         b : Backends \cup {None}, fd : Fds \cup {None}, out : Seq(Message)]

Process == [up : BOOLEAN, fd : Fds \cup {None}, primary : BOOLEAN,
            killed : BOOLEAN, view : Seq(Backends)]

\* A thread that is to send has something to send; a process that runs has a
\* connection.
Busy == \A t \in Threads : thread[t].at = "send" => thread[t].out # <<>>
Linked == \A b \in Backends : node[b].up => node[b].fd \in Fds

TypeInv == TypeOK /\ Busy /\ Linked

LEMMA MessageTypes ==
    /\ \A list \in Seq(Backends) : Broadcast(list) \in Seq(Message)
    /\ \A b \in Backends, com \in {"CLUSTER", "KILL", "RESTART"} :
          Command(b, com) \in Message /\ <<Command(b, com)>> \in Seq(Message)
<1>1. ASSUME NEW list \in Seq(Backends) PROVE Broadcast(list) \in Seq(Message)
  <2>1. \A n \in DOMAIN list : [to |-> list[n], com |-> "CLUSTER", addrs |-> list] \in Message
    BY DEF Message
  <2>2. DOMAIN list = 1 .. Len(list) /\ Len(list) \in Nat
    OBVIOUS
  <2> QED BY <2>1, <2>2 DEF Broadcast
<1>2. ASSUME NEW b \in Backends, NEW com \in {"CLUSTER", "KILL", "RESTART"}
      PROVE  Command(b, com) \in Message
  <2>1. <<>> \in Seq(Backends)
    OBVIOUS
  <2> QED BY <2>1 DEF Command, Message
<1> QED BY <1>1, <1>2

LEMMA SequencesOfMessages ==
    ASSUME NEW p \in Seq(Message), NEW m \in Message
    PROVE  p \o <<m>> \in Seq(Message)
OBVIOUS

LEMMA SendAllType ==
    ASSUME thread \in [Threads -> Work], Busy, NEW t \in Threads, NEW out \in Seq(Message),
           SendAll(t, out)
    PROVE  thread' \in [Threads -> Work] /\ Busy'
<1>1. Idle \in Work
  BY DEF Idle, Work
<1> DEFINE w == [thread[t] EXCEPT !.at = "send", !.out = out]
<1>2. w \in Work /\ w.at = "send" /\ w.out = out
  BY DEF Work
<1>3. thread' = [thread EXCEPT ![t] = IF out = <<>> THEN Idle ELSE w]
  BY DEF SendAll
<1> HIDE DEF w
<1>4. Idle.at # "send"
  BY DEF Idle
<1> QED BY <1>1, <1>2, <1>3, <1>4 DEF Busy

LEMMA FinishType ==
    ASSUME thread \in [Threads -> Work], Busy, NEW t \in Threads,
           \/ Finish(t)
           \/ \E step \in {"set", "eof", "kill", "restart"},
                 b \in Backends \cup {None}, fd \in Fds \cup {None} : Begin(t, step, b, fd)
    PROVE  thread' \in [Threads -> Work] /\ Busy'
<1>1. PICK w : thread' = [thread EXCEPT ![t] = w] /\ w \in Work /\ w.at # "send"
  <2>1. CASE Finish(t)
    <3>1. Idle \in Work /\ Idle.at # "send"
      BY DEF Idle, Work
    <3> QED BY <2>1, <3>1 DEF Finish
  <2>2. ASSUME NEW step \in {"set", "eof", "kill", "restart"}, NEW b \in Backends \cup {None},
               NEW fd \in Fds \cup {None}, Begin(t, step, b, fd)
        PROVE  \E w : thread' = [thread EXCEPT ![t] = w] /\ w \in Work /\ w.at # "send"
    <3> DEFINE w == [at |-> step, b |-> b, fd |-> fd, out |-> <<>>]
    <3>1. w \in Work /\ w.at # "send"
      BY DEF Work
    <3>2. thread' = [thread EXCEPT ![t] = w]
      BY <2>2 DEF Begin
    <3> HIDE DEF w
    <3> QED BY <3>1, <3>2
  <2> QED BY <2>1, <2>2
<1> QED BY <1>1 DEF Busy

\* Steps of the registry.
LEMMA TypeRegistry ==
    ASSUME TypeInv, AliveInv, ThreadShape, AliveInv',
           SetBackendFd \/ DeleteAlive \/ DeleteDead \/ KillBackend \/ RestartBackend
    PROVE  TypeInv'
<1>t. /\ entry \in [Backends -> Element] /\ thread \in [Threads -> Work] /\ Busy
      /\ "conn" \in Threads /\ "admin" \in Threads /\ alive' \in Seq(Backends)
  BY DEF TypeInv, TypeOK, Work, Threads, AliveInv
<1>c. Crashed \in Element
  BY DEF Crashed, Element, States
<1>u. UNCHANGED <<backends, pending, net, node>>
  BY DEF SetBackendFd, DeleteAlive, DeleteDead, KillBackend, RestartBackend
<1>m. \A g : Broadcast(InGroup(alive', g)) \in Seq(Message)
  <2>1. \A list \in Seq(Backends) : \A g : InGroup(list, g) \in Seq(Backends)
    BY InGroupIs
  <2> QED BY <1>t, <2>1, MessageTypes
<1> DEFINE Good == entry' \in [Backends -> Element] /\ thread' \in [Threads -> Work] /\ Busy'
<1> SUFFICES Good
  BY <1>t, <1>u DEF TypeInv, TypeOK, Work, Linked, Message
<1>1. CASE SetBackendFd
  <2> DEFINE b == thread["conn"].b
  <2>1. b \in Backends
    BY <1>1, <1>t DEF SetBackendFd, At, ThreadShape
  <2>2. thread["conn"].fd \in Fds \cup {None}
    BY <1>t DEF Work
  <2>3. CASE /\ entry' = [entry EXCEPT ![b] = [state |-> "ALIVE", fd |-> thread["conn"].fd]]
             /\ SendAll("conn", Broadcast(get_cluster(alive', b)))
    <3>1. [state |-> "ALIVE", fd |-> thread["conn"].fd] \in Element
      BY <2>2 DEF Element, States
    <3>2. Broadcast(get_cluster(alive', b)) \in Seq(Message)
      BY <1>m DEF get_cluster
    <3>3. thread' \in [Threads -> Work] /\ Busy'
      BY <1>t, <2>3, <3>2, SendAllType
    <3> QED BY <1>t, <2>3, <3>1, <3>3
  <2>4. CASE Finish("conn") /\ UNCHANGED entry
    BY <1>t, <2>4, FinishType
  <2> QED BY <1>1, <2>3, <2>4 DEF SetBackendFd
<1>2. CASE DeleteAlive
  <2>1. ASSUME NEW b \in Backends, entry' = [entry EXCEPT ![b] = Crashed],
               SendAll("conn", Broadcast(get_cluster(alive', b)))
        PROVE  Good
    <3>1. Broadcast(get_cluster(alive', b)) \in Seq(Message)
      BY <1>m DEF get_cluster
    <3>2. thread' \in [Threads -> Work] /\ Busy'
      BY <1>t, <2>1, <3>1, SendAllType
    <3> QED BY <1>t, <1>c, <2>1, <3>2
  <2>2. ASSUME Goto("conn", "eof2"), UNCHANGED entry PROVE Good
    <3>1. [thread["conn"] EXCEPT !.at = "eof2"] \in Work
          /\ [thread["conn"] EXCEPT !.at = "eof2"].at = "eof2"
      BY <1>t DEF Work
    <3>2. thread' = [thread EXCEPT !["conn"] = [thread["conn"] EXCEPT !.at = "eof2"]]
      BY <1>t, <2>2 DEF Goto
    <3> QED BY <1>t, <2>2, <3>1, <3>2 DEF Busy
  <2> QED BY <1>2, <2>1, <2>2 DEF DeleteAlive
<1>3. CASE DeleteDead
  BY <1>3, <1>t, <1>c, FinishType DEF DeleteDead
<1>4. CASE KillBackend
  <2> DEFINE b == thread["admin"].b
  <2>1. b \in Backends
    BY <1>4, <1>t DEF KillBackend, At, ThreadShape
  <2>2. CASE entry' = [entry EXCEPT ![b].state = "DEAD"]
             /\ SendAll("admin", KillMessages(b, alive'))
    <3>1. [entry[b] EXCEPT !.state = "DEAD"] \in Element
      BY <1>t, <2>1 DEF Element, States
    <3>2. Broadcast(get_cluster(alive', b)) \in Seq(Message) /\ Command(b, "KILL") \in Message
      BY <1>m, <2>1, MessageTypes DEF get_cluster
    <3>3. KillMessages(b, alive') \in Seq(Message)
      BY <3>2, SequencesOfMessages DEF KillMessages
    <3>4. thread' \in [Threads -> Work] /\ Busy'
      BY <1>t, <2>2, <3>3, SendAllType
    <3> QED BY <1>t, <2>2, <3>1, <3>4
  <2>3. CASE Finish("admin") /\ UNCHANGED entry
    BY <1>t, <2>3, FinishType
  <2> QED BY <1>4, <2>2, <2>3 DEF KillBackend
<1>5. CASE RestartBackend
  <2> DEFINE b == thread["admin"].b
  <2>1. b \in Backends
    BY <1>5, <1>t DEF RestartBackend, At, ThreadShape
  <2>2. CASE /\ entry' = [entry EXCEPT ![b].state = "ALIVE"]
             /\ SendAll("admin", Broadcast(get_cluster(alive', b)) \o <<Command(b, "RESTART")>>)
    <3>1. [entry[b] EXCEPT !.state = "ALIVE"] \in Element
      BY <1>t, <2>1 DEF Element, States
    <3>2. Broadcast(get_cluster(alive', b)) \in Seq(Message) /\ Command(b, "RESTART") \in Message
      BY <1>m, <2>1, MessageTypes DEF get_cluster
    <3>3. Broadcast(get_cluster(alive', b)) \o <<Command(b, "RESTART")>> \in Seq(Message)
      BY <3>2, SequencesOfMessages
    <3>4. thread' \in [Threads -> Work] /\ Busy'
      BY <1>t, <2>2, <3>3, SendAllType
    <3> QED BY <1>t, <2>2, <3>1, <3>4
  <2>3. CASE Finish("admin") /\ UNCHANGED entry
    BY <1>t, <2>3, FinishType
  <2> QED BY <1>5, <2>2, <2>3 DEF RestartBackend
<1> QED BY <1>1, <1>2, <1>3, <1>4, <1>5

\* The first loops, and what is sent.
LEMMA TypeMaster ==
    ASSUME TypeInv,
           \/ \E b \in Backends : \/ BackendInitial(b) \/ BackendEof(b)
                                  \/ KillRequest(b) \/ RestartRequest(b)
           \/ \E t \in Threads : Send(t)
    PROVE  TypeInv'
<1>t. /\ backends \in [Backends -> Element] /\ thread \in [Threads -> Work] /\ Busy
      /\ pending \in [Backends -> Seq([type : {"INITIAL", "EOF"}, fd : Fds])]
      /\ net \in [Backends -> Seq(Message)] /\ "conn" \in Threads /\ "admin" \in Threads
  BY DEF TypeInv, TypeOK, Work, Threads
<1>c. Crashed \in Element
  BY DEF Crashed, Element, States
<1>u. UNCHANGED <<entry, alive, node>>
  BY DEF BackendInitial, BackendEof, KillRequest, RestartRequest, Admin, Send
<1> DEFINE Good == /\ backends' \in [Backends -> Element]
                   /\ thread' \in [Threads -> Work] /\ Busy'
                   /\ pending' \in [Backends -> Seq([type : {"INITIAL", "EOF"}, fd : Fds])]
                   /\ net' \in [Backends -> Seq(Message)]
<1> SUFFICES Good
  BY <1>u DEF TypeInv, TypeOK, Work, Linked
<1>1. ASSUME NEW b \in Backends, pending[b] # <<>>
      PROVE  /\ Head(pending[b]).fd \in Fds
             /\ [pending EXCEPT ![b] = Tail(@)]
                   \in [Backends -> Seq([type : {"INITIAL", "EOF"}, fd : Fds])]
  <2> DEFINE E == [type : {"INITIAL", "EOF"}, fd : Fds]
  <2>1. \A e \in E : e.fd \in Fds
    OBVIOUS
  <2> HIDE DEF E
  <2>2. pending[b] \in Seq(E) /\ pending \in [Backends -> Seq(E)]
    BY <1>t DEF E
  <2>3. Head(pending[b]) \in E /\ Tail(pending[b]) \in Seq(E)
    BY <1>1, <2>2
  <2> QED BY <2>1, <2>2, <2>3 DEF E
<1>2. ASSUME NEW b \in Backends, BackendInitial(b) PROVE Good
  <2> DEFINE fd == Head(pending[b]).fd
  <2>1. /\ pending[b] # <<>> /\ Begin("conn", "set", b, fd)
        /\ backends' = [backends EXCEPT ![b] = [state |-> "ALIVE", fd |-> fd]]
        /\ pending' = [pending EXCEPT ![b] = Tail(@)]
        /\ UNCHANGED net
    BY <1>2 DEF BackendInitial
  <2>2. fd \in Fds /\ pending' \in [Backends -> Seq([type : {"INITIAL", "EOF"}, fd : Fds])]
    BY <1>1, <2>1
  <2> HIDE DEF fd
  <2>3. [state |-> "ALIVE", fd |-> fd] \in Element
    BY <2>2 DEF Element, States
  <2>4. thread' \in [Threads -> Work] /\ Busy'
    BY <1>t, <2>1, <2>2, FinishType
  <2> QED BY <1>t, <2>1, <2>2, <2>3, <2>4
<1>3. ASSUME NEW b \in Backends, BackendEof(b) PROVE Good
  <2> DEFINE fd == Head(pending[b]).fd
  <2>1. /\ pending[b] # <<>> /\ Begin("conn", "eof", None, fd)
        /\ backends' = Forgotten(fd)
        /\ pending' = [pending EXCEPT ![b] = Tail(@)]
        /\ UNCHANGED net
    BY <1>3 DEF BackendEof
  <2>2. fd \in Fds /\ pending' \in [Backends -> Seq([type : {"INITIAL", "EOF"}, fd : Fds])]
    BY <1>1, <2>1
  <2> HIDE DEF fd
  <2>3. thread' \in [Threads -> Work] /\ Busy'
    BY <1>t, <2>1, <2>2, FinishType
  <2>4. backends' \in [Backends -> Element]
    BY <1>t, <1>c, <2>1 DEF Forgotten
  <2> QED BY <1>t, <2>1, <2>2, <2>3, <2>4
<1>4. ASSUME NEW b \in Backends, NEW step \in {"kill", "restart"}, NEW from,
             NEW to \in {"ALIVE", "DEAD"}, Admin(step, b, from, to)
      PROVE  Good
  <2>1. [backends[b] EXCEPT !.state = to] \in Element
    BY <1>t DEF Element, States
  <2>2. backends' \in [Backends -> Element]
    BY <1>4, <1>t, <2>1 DEF Admin
  <2>3. thread' \in [Threads -> Work] /\ Busy'
    BY <1>4, <1>t, FinishType DEF Admin
  <2> QED BY <1>4, <1>t, <2>2, <2>3 DEF Admin
<1>5. ASSUME NEW t \in Threads, Send(t) PROVE Good
  <2> DEFINE out == thread[t].out
             m == Head(out)
             w == [thread[t] EXCEPT !.out = Tail(out)]
  <2>1. thread[t].at = "send" /\ out # <<>> /\ out \in Seq(Message) /\ thread[t] \in Work
    BY <1>5, <1>t DEF Send, At, Busy, Work
  <2>2. m \in Message /\ Tail(out) \in Seq(Message)
    BY <2>1
  <2>3. net' \in [Backends -> Seq(Message)]
    <3>1. net' = net \/ net' = [net EXCEPT ![m.to] = Append(@, m)]
      BY <1>5 DEF Send
    <3>2. \A b \in Backends : Append(net[b], m) \in Seq(Message)
      BY <1>t, <2>2
    <3> HIDE DEF m
    <3> QED BY ZenonT(60), <1>t, <3>1, <3>2
  <2>4. w \in Work /\ w.out = Tail(out)
    BY <2>1, <2>2 DEF Work
  <2>5. Idle \in Work /\ Idle.at # "send"
    BY DEF Idle, Work
  <2>6. thread' = [thread EXCEPT ![t] = IF Tail(out) = <<>> THEN Idle ELSE w]
    BY <1>5 DEF Send
  <2> HIDE DEF w, out
  <2>7. thread' \in [Threads -> Work] /\ Busy'
    BY <1>t, <2>4, <2>5, <2>6 DEF Busy
  <2> QED BY <1>5, <1>t, <2>3, <2>7 DEF Send
<1> QED BY <1>2, <1>3, <1>4, <1>5 DEF KillRequest, RestartRequest

\* The processes.
LEMMA HandledType ==
    ASSUME NEW n \in Process, NEW m \in Message, NEW b \in Backends
    PROVE  Handled(n, b, m) \in Process /\ Handled(n, b, m).up = n.up
           /\ Handled(n, b, m).fd = n.fd
<1>1. m.addrs \in Seq(Backends)
  BY DEF Message
<1>2. [n EXCEPT !.view = m.addrs, !.primary = @ \/ Head(m.addrs) = b] \in Process
  <2>1. (n.primary \/ Head(m.addrs) = b) \in BOOLEAN
    BY DEF Process
  <2> QED BY <1>1, <2>1 DEF Process
<1> QED BY <1>2 DEF Handled, Process

LEMMA TypeProcesses ==
    ASSUME TypeInv, NoneAssumption, NEW b \in Backends, Start(b) \/ Die(b) \/ Receive(b)
    PROVE  TypeInv'
<1> DEFINE E == [type : {"INITIAL", "EOF"}, fd : Fds]
<1>t. /\ node \in [Backends -> Process] /\ Linked
      /\ pending \in [Backends -> Seq(E)]
      /\ net \in [Backends -> Seq(Message)]
  BY DEF TypeInv, TypeOK, Process
<1>e. \A fd \in Fds : [type |-> "INITIAL", fd |-> fd] \in E /\ [type |-> "EOF", fd |-> fd] \in E
  OBVIOUS
<1> HIDE DEF E
<1>a. \A e \in E : Append(pending[b], e) \in Seq(E)
  BY <1>t
<1>d. Down \in Process /\ Down.up = FALSE
  BY DEF Down, Process
<1>u. UNCHANGED <<backends, entry, alive, thread>>
  BY DEF Start, Die, Receive
<1> SUFFICES /\ node' \in [Backends -> Process] /\ Linked'
             /\ pending' \in [Backends -> Seq(E)] /\ net' \in [Backends -> Seq(Message)]
  BY <1>u DEF TypeInv, TypeOK, Process, Busy, E
<1>1. CASE Start(b)
  <2>1. PICK fd \in Fds : /\ node' = [node EXCEPT ![b] = [Down EXCEPT !.up = TRUE, !.fd = fd]]
                          /\ pending' = [pending EXCEPT ![b] =
                                            Append(@, [type |-> "INITIAL", fd |-> fd])]
                          /\ UNCHANGED net
    BY <1>1 DEF Start
  <2> DEFINE n == [Down EXCEPT !.up = TRUE, !.fd = fd]
  <2>2. n \in Process /\ n.fd = fd
    <3>1. \A d \in Process : /\ [d EXCEPT !.up = TRUE, !.fd = fd] \in Process
                            /\ [d EXCEPT !.up = TRUE, !.fd = fd].fd = fd
      BY DEF Process
    <3> QED BY <1>d, <3>1
  <2>3. node' = [node EXCEPT ![b] = n]
    BY <2>1
  <2> HIDE DEF n
  <2>4. node' \in [Backends -> Process] /\ Linked'
    BY <1>t, <2>2, <2>3 DEF Linked
  <2> QED BY <1>t, <1>e, <1>a, <2>1, <2>4
<1>2. CASE Die(b)
  <2>1. /\ node' = [node EXCEPT ![b] = Down] /\ net' = [net EXCEPT ![b] = <<>>]
        /\ pending' = [pending EXCEPT ![b] = Append(@, [type |-> "EOF", fd |-> node[b].fd])]
        /\ node[b].fd \in Fds
    BY <1>2, <1>t DEF Die, Linked
  <2>2. <<>> \in Seq(Message)
    OBVIOUS
  <2> QED BY <1>t, <1>e, <1>a, <1>d, <2>1, <2>2 DEF Linked
<1>3. CASE Receive(b)
  <2> DEFINE m == Head(net[b])
  <2>1. /\ net[b] # <<>> /\ net' = [net EXCEPT ![b] = Tail(@)] /\ UNCHANGED pending
        /\ node' = [node EXCEPT ![b] = Handled(@, b, m)]
    BY <1>3 DEF Receive
  <2>2. m \in Message /\ Tail(net[b]) \in Seq(Message)
    BY <1>t, <2>1
  <2> HIDE DEF m
  <2>3. Handled(node[b], b, m) \in Process /\ Handled(node[b], b, m).up = node[b].up
        /\ Handled(node[b], b, m).fd = node[b].fd
    BY <1>t, <2>2, HandledType
  <2> QED BY <1>t, <2>1, <2>2, <2>3 DEF Linked
<1> QED BY <1>1, <1>2, <1>3

LEMMA TypeAlways == Spec => []TypeInv
<1>1. Init => TypeInv
  <2> SUFFICES ASSUME Init PROVE TypeInv OBVIOUS
  <2>1. Crashed \in Element BY DEF Crashed, Element, States
  <2>2. Idle \in Work /\ Idle.at # "send" BY DEF Idle, Work
  <2>3. Down \in Process /\ Down.up = FALSE BY DEF Down, Process
  <2>4. /\ backends \in [Backends -> Element] /\ entry \in [Backends -> Element]
        /\ alive \in Seq(Backends) /\ thread \in [Threads -> Work]
        /\ pending \in [Backends -> Seq([type : {"INITIAL", "EOF"}, fd : Fds])]
        /\ net \in [Backends -> Seq(Message)] /\ node \in [Backends -> Process]
    BY <2>1, <2>2, <2>3 DEF Init
  <2>5. Busy /\ Linked
    BY <2>2, <2>3 DEF Init, Busy, Linked
  <2> QED BY <2>4, <2>5 DEF TypeInv, TypeOK, Work, Process
<1>2. TypeInv /\ AliveInv /\ ThreadShape /\ AliveInv' /\ [Next]_vars => TypeInv'
  <2> SUFFICES ASSUME TypeInv, AliveInv, ThreadShape, AliveInv', [Next]_vars PROVE TypeInv'
    OBVIOUS
  <2>1. CASE UNCHANGED vars
    BY <2>1 DEF vars, TypeInv, TypeOK, Busy, Linked
  <2>2. CASE Next
    BY <2>2, TypeRegistry, TypeMaster, TypeProcesses, NoneAssumption
       DEF Next, ConnSteps, AdminSteps, Threads
  <2> QED BY <2>1, <2>2
<1> QED BY <1>1, <1>2, AliveAlways, PTL DEF Spec

(***************************************************************************)
(* The variables keep their types, also with servers that restart before   *)
(* the end of their connection is read: only servers of backend.txt are in *)
(* the vectors and in what is sent, and a thread that is to send has       *)
(* something to send.                                                      *)
(***************************************************************************)
THEOREM MonitorTypeCorrect == Spec => []TypeOK
<1>1. TypeInv => TypeOK BY DEF TypeInv
<1> QED BY <1>1, TypeAlways, PTL

------------------------------------------------------------------------------
(* The primary of a group.                                                 *)

LEMMA PrimaryIs ==
    ASSUME NEW list \in Seq(Backends), NEW g, NEW n \in DOMAIN list, IsFirst(list, g, n)
    PROVE  get_primary(list, g) = list[n]
<1>1. \A m \in DOMAIN list : IsFirst(list, g, m) => m = n
  BY DEF IsFirst
<1> QED BY <1>1 DEF get_primary

LEMMA PrimaryFirst ==
    ASSUME NEW list, NEW g, get_primary(list, g) # None
    PROVE  \E n \in DOMAIN list : IsFirst(list, g, n) /\ get_primary(list, g) = list[n]
BY DEF get_primary

(***************************************************************************)
(* A primary keeps its role while it is alive (get_primary): while the     *)
(* master does one operation at a time, a server that joins or comes back  *)
(* goes behind it (set_backend_fd, restart_backend).                       *)
(***************************************************************************)
THEOREM PrimaryStability == Spec => PrimaryStable
<1> DEFINE Kept(g) == LET p == get_primary(alive, g) IN
              p # None /\ get_primary(alive', g) # p => \A n \in DOMAIN alive' : alive'[n] # p
<1>1. ASSUME AliveInv, ThreadShape, [Next]_vars, NEW g \in Groups PROVE Kept(g)
  <2> DEFINE p == get_primary(alive, g)
  <2> SUFFICES ASSUME p # None, NEW k \in DOMAIN alive', alive'[k] = p
               PROVE  get_primary(alive', g) = p
    OBVIOUS
  <2>1. PICK n \in DOMAIN alive : IsFirst(alive, g, n) /\ p = alive[n]
    BY PrimaryFirst
  <2>2. alive \in Seq(Backends) /\ Len(alive) \in Nat /\ DOMAIN alive = 1 .. Len(alive)
    BY <1>1 DEF AliveInv
  <2>3. CASE alive' = alive BY <2>3
  <2>4. ASSUME NEW b \in Backends, ~IsAlive(b), alive' = Joined(b) PROVE get_primary(alive', g) = p
    <3>1. /\ alive' \in Seq(Backends) /\ DOMAIN alive' = 1 .. Len(alive) + 1
          /\ \A m \in 1 .. Len(alive) : alive'[m] = alive[m]
      BY <1>1, <2>2, <2>4, JoinedIs
    <3>2. IsFirst(alive', g, n) /\ alive'[n] = p
      BY <2>1, <2>2, <3>1 DEF IsFirst
    <3> QED BY <2>1, <2>2, <3>1, <3>2, PrimaryIs
  <2>5. ASSUME NEW i \in DOMAIN alive, alive' = Left(alive[i]) PROVE get_primary(alive', g) = p
    <3>1. /\ alive' \in Seq(Backends) /\ DOMAIN alive' = 1 .. Len(alive) - 1
          /\ \A m \in 1 .. Len(alive) - 1 :
                alive'[m] = IF m < i THEN alive[m] ELSE alive[m + 1]
      <4>1. /\ Left(alive[i]) \in Seq(Backends) /\ Len(Left(alive[i])) = Len(alive) - 1
            /\ \A m \in 1 .. Len(alive) - 1 :
                  Left(alive[i])[m] = IF m < i THEN alive[m] ELSE alive[m + 1]
        BY <1>1, LeftIs
      <4>2. /\ alive' \in Seq(Backends) /\ Len(alive') = Len(alive) - 1
            /\ \A m \in 1 .. Len(alive) - 1 :
                  alive'[m] = IF m < i THEN alive[m] ELSE alive[m + 1]
        BY <2>5, <4>1
      <4> QED BY <4>2
    <3>2. i # n
      <4> SUFFICES ASSUME i = n PROVE FALSE OBVIOUS
      <4>0. k \in 1 .. Len(alive) - 1 /\ alive'[k] = IF k < i THEN alive[k] ELSE alive[k + 1]
        BY <3>1
      <4>1. PICK m \in DOMAIN alive : m # n /\ alive[m] = p
        <5>1. CASE k < i BY <2>2, <4>0, <5>1
        <5>2. CASE ~(k < i)
          <6>1. k + 1 \in DOMAIN alive /\ k + 1 # n /\ alive[k + 1] = p
            BY <2>2, <4>0, <5>2
          <6> QED BY <6>1
        <5> QED BY <5>1, <5>2
      <4> QED BY <1>1, <2>1, <4>1 DEF AliveInv
    <3> DEFINE m == IF n < i THEN n ELSE n - 1
    <3> HIDE DEF p
    <3>d. n \in 1 .. Len(alive) /\ i \in 1 .. Len(alive)
      BY <2>2
    <3>n. alive[n] = p /\ GroupOf[p] = g /\ \A j \in 1 .. n - 1 : GroupOf[alive[j]] # g
      BY <2>1 DEF IsFirst
    <3>3. m \in DOMAIN alive' /\ alive'[m] = p
      <4>1. CASE n < i
        BY <2>2, <3>d, <3>n, <3>1, <4>1
      <4>2. CASE i < n
        <5>1. n - 1 \in 1 .. Len(alive) - 1 /\ ~(n - 1 < i) /\ (n - 1) + 1 = n /\ ~(n < i)
          BY <2>2, <3>d, <4>2
        <5>2. alive'[n - 1] = alive[n]
          BY <3>1, <5>1
        <5> QED BY <3>n, <3>1, <5>1, <5>2
      <4> QED BY <2>2, <3>d, <3>2, <4>1, <4>2
    <3>4. ASSUME NEW j \in 1 .. m - 1 PROVE GroupOf[alive'[j]] # g
      <4>1. j \in 1 .. Len(alive) - 1 /\ j \in 1 .. n - 1
        BY <2>2, <3>d, <3>2
      <4>2. CASE j < i
        BY <3>n, <3>1, <4>1, <4>2
      <4>3. CASE ~(j < i)
        <5>1. j + 1 \in 1 .. n - 1
          BY <2>2, <3>d, <3>2, <4>1, <4>3
        <5> QED BY <3>n, <3>1, <4>1, <4>3, <5>1
      <4> QED BY <4>2, <4>3
    <3>5. IsFirst(alive', g, m)
      BY <3>n, <3>3, <3>4 DEF IsFirst
    <3> HIDE DEF m
    <3>6. get_primary(alive', g) = p
      BY <3>1, <3>3, <3>5, PrimaryIs
    <3> QED BY <3>6 DEF p
  <2> QED BY <1>1, <2>3, <2>4, <2>5, AliveStep DEF IsAlive
<1>2. AliveInv /\ ThreadShape /\ [Next]_vars => [\A g \in Groups : Kept(g)]_vars
  BY <1>1
<1> QED BY <1>2, AliveAlways, PTL DEF Spec, PrimaryStable

------------------------------------------------------------------------------
(* One operation at a time.                                                *)

OneThread ==
    \A s, t \in Threads : thread[s].at # "idle" /\ thread[t].at # "idle" => s = t

Event       == [type : {"INITIAL", "EOF"}, fd : Fds]
Initial(fd) == [type |-> "INITIAL", fd |-> fd]
Eof(fd)     == [type |-> "EOF", fd |-> fd]

\* Events of the connections of one backend, the last one on fd if it is up:
\* each connection begins and ends before the next one begins.
Ordered(q, up, fd) ==
    /\ q \in Seq(Event)
    /\ \A n \in 1 .. Len(q) - 1 :
          IF q[n].type = "INITIAL" THEN q[n + 1] = Eof(q[n].fd) ELSE q[n + 1].type = "INITIAL"
    /\ q # <<>> => IF q[Len(q)].type = "INITIAL" THEN up /\ q[Len(q)].fd = fd ELSE ~up

\* The connection that the master reads next.
Own(b) ==
    IF pending[b] # <<>> THEN Head(pending[b]).fd
    ELSE IF node[b].up THEN node[b].fd ELSE None

FdsOf(b) ==
    {pending[b][n].fd : n \in DOMAIN pending[b]} \cup (IF node[b].up THEN {node[b].fd} ELSE {})

ToRead(b) ==
    /\ DOMAIN node[b] = {"up", "fd", "primary", "killed", "view"}
    /\ node[b].up \in BOOLEAN /\ (node[b].up => node[b].fd \in Fds)
    /\ Ordered(pending[b], node[b].up, node[b].fd)

PendingInv ==
    /\ DOMAIN node = Backends /\ DOMAIN pending = Backends
    /\ \A b \in Backends : ToRead(b)
    /\ \A b, c \in Backends : b # c => FdsOf(b) \cap FdsOf(c) = {}

\* It has read the beginning of it, and not the end.
Connected(b) ==
    IF pending[b] = <<>> THEN node[b].up ELSE Head(pending[b]).type = "EOF"

\* The vector backends, which is always up to date.
BackendsInv ==
    /\ backends \in [Backends -> Element]
    /\ \A b \in Backends :
        /\ backends[b].fd = IF Connected(b) THEN Own(b) ELSE None
        /\ backends[b].fd = None <=> backends[b].state = "CRASH"

\* The other vectors have the same element for b.
Agree(b) == entry[b] = backends[b] /\ (IsAlive(b) <=> entry[b].state = "ALIVE")

\* The loop that is to bring the other vectors up to date for b is still to come.
Pending(b) ==
    LET c == thread["conn"]
        a == thread["admin"]
    IN  \/ /\ c.at = "set" /\ c.b = b
           /\ entry[b] = Crashed /\ ~IsAlive(b)
        \/ /\ c.at \in {"eof", "eof2"} /\ entry[b].fd = c.fd
           /\ backends[b] = Crashed
           /\ IsAlive(b) => c.at = "eof"
        \/ /\ a.at = "kill" /\ a.b = b
           /\ IsAlive(b) /\ backends[b] = [entry[b] EXCEPT !.state = "DEAD"]
        \/ /\ a.at = "restart" /\ a.b = b
           /\ ~IsAlive(b) /\ entry[b].state = "DEAD"
           /\ backends[b] = [entry[b] EXCEPT !.state = "ALIVE"]

EntryInv ==
    /\ entry \in [Backends -> Element]
    /\ \A b \in Backends : Agree(b) \/ Pending(b)
    /\ \A b, c \in Backends : entry[b].fd = entry[c].fd /\ entry[b].fd # None => b = c

\* What the first loop has done for the operation at hand.
StepInv ==
    /\ thread["conn"].at = "set" =>
          backends[thread["conn"].b] = [state |-> "ALIVE", fd |-> thread["conn"].fd]
    /\ thread["conn"].at \in {"eof", "eof2"} =>
          /\ thread["conn"].fd \in Fds
          /\ \A b \in Backends : backends[b].fd # thread["conn"].fd
    /\ thread["admin"].at = "kill" => backends[thread["admin"].b].state # "ALIVE"
    /\ thread["admin"].at = "restart" => backends[thread["admin"].b].state # "DEAD"
    /\ thread["conn"].at \notin {"kill", "restart"}
    /\ thread["admin"].at \notin {"set", "eof", "eof2"}

ListsInv ==
    AliveInv /\ ThreadShape /\ OneThread /\ PendingInv /\ BackendsInv /\ EntryInv /\ StepInv

LEMMA OrderedInitial ==
    ASSUME NEW q, NEW x, NEW fd \in Fds, Ordered(q, FALSE, x)
    PROVE  Ordered(Append(q, Initial(fd)), TRUE, fd)
<1> DEFINE r == Append(q, Initial(fd))
<1>1. q \in Seq(Event) /\ Initial(fd) \in Event /\ Len(q) \in Nat /\ Initial(fd).type = "INITIAL"
      /\ Initial(fd).fd = fd
  BY DEF Ordered, Initial, Event
<1>2. r \in Seq(Event) /\ Len(r) = Len(q) + 1 /\ r[Len(r)] = Initial(fd)
      /\ \A n \in 1 .. Len(q) : r[n] = q[n]
  BY <1>1
<1> HIDE DEF r
<1>3. ASSUME NEW n \in 1 .. Len(r) - 1
      PROVE  IF r[n].type = "INITIAL" THEN r[n + 1] = Eof(r[n].fd) ELSE r[n + 1].type = "INITIAL"
  <2>1. CASE n < Len(q)
    <3>1. n \in 1 .. Len(q) - 1 /\ r[n] = q[n] /\ r[n + 1] = q[n + 1]
      BY <1>1, <1>2, <2>1
    <3> QED BY <3>1 DEF Ordered
  <2>2. CASE n = Len(q)
    <3>1. q # <<>> /\ r[n] = q[Len(q)] /\ r[n + 1] = Initial(fd)
      BY <1>1, <1>2, <2>2
    <3> QED BY <1>1, <3>1 DEF Ordered
  <2> QED BY <1>1, <1>2, <2>1, <2>2
<1> QED BY <1>1, <1>2, <1>3 DEF Ordered, r

LEMMA OrderedEof ==
    ASSUME NEW q, NEW y, NEW fd \in Fds, Ordered(q, TRUE, fd)
    PROVE  Ordered(Append(q, Eof(fd)), FALSE, y)
<1> DEFINE r == Append(q, Eof(fd))
<1>1. q \in Seq(Event) /\ Eof(fd) \in Event /\ Len(q) \in Nat /\ Eof(fd).type # "INITIAL"
  BY DEF Ordered, Eof, Event
<1>2. r \in Seq(Event) /\ Len(r) = Len(q) + 1 /\ r[Len(r)] = Eof(fd)
      /\ \A n \in 1 .. Len(q) : r[n] = q[n]
  BY <1>1
<1> HIDE DEF r
<1>3. ASSUME NEW n \in 1 .. Len(r) - 1
      PROVE  IF r[n].type = "INITIAL" THEN r[n + 1] = Eof(r[n].fd) ELSE r[n + 1].type = "INITIAL"
  <2>1. CASE n < Len(q)
    <3>1. n \in 1 .. Len(q) - 1 /\ r[n] = q[n] /\ r[n + 1] = q[n + 1]
      BY <1>1, <1>2, <2>1
    <3> QED BY <3>1 DEF Ordered
  <2>2. CASE n = Len(q)
    <3>1. q # <<>> /\ r[n] = q[Len(q)] /\ r[n + 1] = Eof(fd)
      BY <1>1, <1>2, <2>2
    <3> QED BY <3>1 DEF Ordered
  <2> QED BY <1>1, <1>2, <2>1, <2>2
<1> QED BY <1>1, <1>2, <1>3 DEF Ordered, r

\* What is left after the first event of a queue was read.
LEMMA OrderedTail ==
    ASSUME NEW q, NEW up, NEW fd, Ordered(q, up, fd), q # <<>>
    PROVE  /\ Ordered(Tail(q), up, fd) /\ Head(q) \in Event
           /\ \A n \in DOMAIN Tail(q) : n + 1 \in DOMAIN q /\ Tail(q)[n] = q[n + 1]
           /\ Head(q).type = "INITIAL" =>
                 IF Tail(q) = <<>> THEN up /\ fd = Head(q).fd ELSE Head(Tail(q)) = Eof(Head(q).fd)
           /\ Head(q).type # "INITIAL" =>
                 IF Tail(q) = <<>> THEN ~up ELSE Head(Tail(q)).type = "INITIAL"
<1> DEFINE r == Tail(q)
<1>1. q \in Seq(Event) /\ Len(q) \in Nat \ {0} /\ Head(q) = q[1] /\ Head(q) \in Event
  BY DEF Ordered
<1>2. r \in Seq(Event) /\ Len(r) = Len(q) - 1 /\ \A n \in 1 .. Len(r) : r[n] = q[n + 1]
  BY <1>1
<1> HIDE DEF r
<1>3. ASSUME NEW n \in 1 .. Len(r) - 1
      PROVE  IF r[n].type = "INITIAL" THEN r[n + 1] = Eof(r[n].fd) ELSE r[n + 1].type = "INITIAL"
  <2>1. n + 1 \in 1 .. Len(q) - 1 /\ r[n] = q[n + 1] /\ r[n + 1] = q[(n + 1) + 1]
    BY <1>1, <1>2
  <2> QED BY <2>1 DEF Ordered
<1>4. r # <<>> => Len(r) \in 1 .. Len(r) /\ r[Len(r)] = q[Len(q)] /\ Head(r) = r[1] /\ r[1] = q[2]
                  /\ 1 \in 1 .. Len(q) - 1
  BY <1>1, <1>2
<1>5. Ordered(r, up, fd)
  BY <1>1, <1>2, <1>3, <1>4 DEF Ordered
<1>6. \A n \in DOMAIN r : n + 1 \in DOMAIN q /\ r[n] = q[n + 1]
  BY <1>1, <1>2
<1>7. CASE r = <<>>
  <2>1. Len(q) = 1 BY <1>1, <1>2, <1>7
  <2> QED BY <1>1, <1>5, <1>6, <1>7, <2>1 DEF Ordered, r
<1>8. CASE r # <<>>
  <2>1. IF q[1].type = "INITIAL" THEN q[1 + 1] = Eof(q[1].fd) ELSE q[1 + 1].type = "INITIAL"
    BY <1>4, <1>8 DEF Ordered
  <2> QED BY <1>1, <1>4, <1>5, <1>6, <1>8, <2>1 DEF r
<1> QED BY <1>7, <1>8

LEMMA OwnFd ==
    ASSUME PendingInv, NEW b \in Backends
    PROVE  /\ Own(b) = None \/ Own(b) \in FdsOf(b)
           /\ pending[b] # <<>> => Own(b) \in Fds /\ Head(pending[b]) \in Event
<1>1. CASE pending[b] # <<>>
  <2>1. Head(pending[b]) = pending[b][1] /\ 1 \in DOMAIN pending[b] /\ Head(pending[b]) \in Event
    BY <1>1 DEF PendingInv, ToRead, Ordered
  <2> QED BY <1>1, <2>1 DEF Own, FdsOf, Event
<1>2. CASE pending[b] = <<>> BY <1>2 DEF Own, FdsOf
<1> QED BY <1>1, <1>2

LEMMA OwnApart ==
    PendingInv => \A b, c \in Backends : Own(b) = Own(c) /\ Own(b) # None => b = c
BY OwnFd DEF PendingInv

LEMMA SameConnections ==
    ASSUME PendingInv, UNCHANGED <<pending, node>>
    PROVE  PendingInv' /\ \A c \in Backends : Own(c)' = Own(c) /\ Connected(c)' = Connected(c)
<1>1. \A c \in Backends : FdsOf(c)' = FdsOf(c)
  BY DEF FdsOf
<1>2. \A c \in Backends : ToRead(c)'
  BY DEF PendingInv, ToRead
<1>3. \A c \in Backends : Own(c)' = Own(c) /\ Connected(c)' = Connected(c)
  BY DEF Own, Connected
<1> QED BY <1>1, <1>2, <1>3 DEF PendingInv

\* Steps of the processes, which the registry does not see before it reads them.
LEMMA ProcessesStep ==
    ASSUME PendingInv, NoneAssumption, NEW b \in Backends,
           Start(b) \/ Die(b) \/ Receive(b)
    PROVE  /\ PendingInv'
           /\ \A c \in Backends : /\ Connected(c)' = Connected(c)
                                  /\ Connected(c) => Own(c)' = Own(c)
<1>b. /\ DOMAIN node = Backends /\ DOMAIN pending = Backends
      /\ ToRead(b) /\ pending[b] \in Seq(Event)
  BY DEF PendingInv, ToRead, Ordered
\* The queue grows at its end.
<1>a. ASSUME NEW e \in Event, pending'[b] = Append(pending[b], e)
      PROVE  /\ pending'[b] # <<>>
             /\ pending[b] = <<>> => Head(pending'[b]) = e
             /\ pending[b] # <<>> => Head(pending'[b]) = Head(pending[b])
             /\ {pending'[b][n].fd : n \in DOMAIN pending'[b]}
                   = {pending[b][n].fd : n \in DOMAIN pending[b]} \cup {e.fd}
  <2>1. /\ pending'[b] \in Seq(Event) /\ Len(pending'[b]) = Len(pending[b]) + 1
        /\ \A n \in 1 .. Len(pending[b]) : pending'[b][n] = pending[b][n]
        /\ pending'[b][Len(pending[b]) + 1] = e
    BY <1>b, <1>a
  <2>2. /\ DOMAIN pending'[b] = 1 .. Len(pending[b]) + 1
        /\ DOMAIN pending[b] = 1 .. Len(pending[b]) /\ Len(pending[b]) \in Nat
    BY <1>b, <2>1
  <2>3. pending'[b] # <<>> /\ Head(pending'[b]) = pending'[b][1]
        /\ (pending[b] # <<>> => Len(pending[b]) > 0 /\ Head(pending[b]) = pending[b][1])
        /\ (pending[b] = <<>> => Len(pending[b]) = 0)
    BY <1>b, <2>1, <2>2
  <2>4. {pending'[b][n].fd : n \in DOMAIN pending'[b]}
           = {pending[b][n].fd : n \in DOMAIN pending[b]} \cup {e.fd}
    <3> DEFINE q == pending'[b]
               p == pending[b]
               len == Len(p)
    <3>1. /\ DOMAIN q = 1 .. len + 1 /\ DOMAIN p = 1 .. len /\ len \in Nat
          /\ \A n \in 1 .. len : q[n] = p[n]
          /\ q[len + 1] = e
      BY <2>1, <2>2
    <3> HIDE DEF q, p, len
    <3>2. \A n \in DOMAIN q : (n \in DOMAIN p /\ q[n] = p[n]) \/ q[n] = e
      BY <3>1
    <3>3. /\ \A n \in DOMAIN p : n \in DOMAIN q /\ q[n] = p[n]
          /\ len + 1 \in DOMAIN q /\ q[len + 1] = e
      BY <3>1
    <3>4. {q[n].fd : n \in DOMAIN q} = {p[n].fd : n \in DOMAIN p} \cup {e.fd}
      BY <3>2, <3>3
    <3> QED BY <3>4 DEF q, p
  <2>5. pending[b] = <<>> => Head(pending'[b]) = e
    BY <2>1, <2>3
  <2>6. pending[b] # <<>> => Head(pending'[b]) = Head(pending[b])
    <3> SUFFICES ASSUME pending[b] # <<>> PROVE pending'[b][1] = pending[b][1]
      BY <2>3
    <3>1. 1 \in 1 .. Len(pending[b]) BY <2>2, <2>3
    <3> QED BY <2>1, <3>1
  <2> QED BY <2>3, <2>4, <2>5, <2>6
<1>1. CASE Start(b)
  <2>1. PICK fd \in Fds \ Open :
           /\ node' = [node EXCEPT ![b] = [Down EXCEPT !.up = TRUE, !.fd = fd]]
           /\ pending' = [pending EXCEPT ![b] = Append(@, [type |-> "INITIAL", fd |-> fd])]
    BY <1>1 DEF Start
  <2>2. ~node[b].up /\ node[b].up = FALSE
    BY <1>1, <1>b DEF Start, ToRead
  <2>3. /\ DOMAIN node' = Backends /\ DOMAIN pending' = Backends
        /\ node'[b] = [Down EXCEPT !.up = TRUE, !.fd = fd]
        /\ pending'[b] = Append(pending[b], Initial(fd)) /\ Initial(fd) \in Event
        /\ \A c \in Backends : c # b => node'[c] = node[c] /\ pending'[c] = pending[c]
    BY <1>b, <2>1 DEF Initial, Event
  <2>4. DOMAIN node'[b] = {"up", "fd", "primary", "killed", "view"}
        /\ node'[b].up = TRUE /\ node'[b].fd = fd
    BY <2>3 DEF Down
  <2>5. \A c \in Backends : FdsOf(c) \subseteq Open
    BY DEF FdsOf, Open
  <2>6. FdsOf(b)' = {pending[b][n].fd : n \in DOMAIN pending[b]} \cup {fd}
    BY <1>a, <2>3, <2>4 DEF FdsOf, Initial
  <2>7. \A c \in Backends : c # b => FdsOf(c)' = FdsOf(c)
    BY <2>3 DEF FdsOf
  <2>8. \A c, d \in Backends : c # d => FdsOf(c)' \cap FdsOf(d)' = {}
    <3>1. FdsOf(b)' \subseteq FdsOf(b) \cup {fd}
      BY <2>6 DEF FdsOf
    <3>2. \A c \in Backends : c # b => FdsOf(b)' \cap FdsOf(c) = {}
      BY <2>1, <2>5, <3>1 DEF PendingInv
    <3> QED BY <2>7, <3>2 DEF PendingInv
  <2>9. \A c \in Backends : ToRead(c)'
    <3>1. Ordered(pending'[b], TRUE, fd)
      <4>1. Ordered(pending[b], FALSE, node[b].fd)
        BY <1>b, <2>2 DEF ToRead
      <4> QED BY <2>1, <2>3, <4>1, OrderedInitial
    <3>2. ToRead(b)'
      BY <2>1, <2>4, <3>1 DEF ToRead
    <3> QED BY ZenonT(60), <2>3, <3>2 DEF PendingInv, ToRead
  <2>10. Connected(b)' = Connected(b) /\ (Connected(b) => Own(b)' = Own(b))
    <3>1. CASE pending[b] = <<>>
      <4>1. Connected(b) = FALSE /\ Connected(b)' = FALSE
        BY <1>a, <2>2, <2>3, <3>1 DEF Connected, Initial
      <4> QED BY <4>1
    <3>2. CASE pending[b] # <<>>
      BY <1>a, <2>3, <3>2 DEF Connected, Own
    <3> QED BY <3>1, <3>2
  <2>11. \A c \in Backends : c # b => Connected(c)' = Connected(c) /\ Own(c)' = Own(c)
    BY <2>3 DEF Connected, Own
  <2> QED BY <2>3, <2>8, <2>9, <2>10, <2>11 DEF PendingInv
<1>2. CASE Die(b)
  <2> DEFINE fd == node[b].fd
  <2>2. node[b].up = TRUE /\ fd \in Fds
    BY <1>2, <1>b DEF Die, ToRead
  <2>3. /\ DOMAIN node' = Backends /\ DOMAIN pending' = Backends
        /\ node'[b] = Down
        /\ pending'[b] = Append(pending[b], Eof(fd)) /\ Eof(fd) \in Event
        /\ \A c \in Backends : c # b => node'[c] = node[c] /\ pending'[c] = pending[c]
    BY <1>2, <1>b, <2>2 DEF Die, Eof, Event
  <2>4. DOMAIN node'[b] = {"up", "fd", "primary", "killed", "view"} /\ node'[b].up = FALSE
    BY <2>3 DEF Down
  <2>6. FdsOf(b)' = FdsOf(b)
    BY <1>a, <2>2, <2>3, <2>4 DEF FdsOf, Eof
  <2>7. \A c \in Backends : c # b => FdsOf(c)' = FdsOf(c)
    BY <2>3 DEF FdsOf
  <2>8. \A c, d \in Backends : c # d => FdsOf(c)' \cap FdsOf(d)' = {}
    BY <2>6, <2>7 DEF PendingInv
  <2>9. \A c \in Backends : ToRead(c)'
    <3>1. Ordered(pending'[b], FALSE, node'[b].fd)
      BY <1>b, <2>2, <2>3, OrderedEof DEF ToRead
    <3>2. ToRead(b)'
      BY <2>4, <3>1 DEF ToRead
    <3> QED BY <2>3, <3>2 DEF PendingInv, ToRead
  <2>10. Connected(b)' = Connected(b) /\ Own(b)' = Own(b)
    <3>1. CASE pending[b] = <<>>
      <4>1. Connected(b) = TRUE /\ Connected(b)' = TRUE
        BY <1>a, <2>2, <2>3, <3>1 DEF Connected, Eof
      <4>2. Own(b)' = fd /\ Own(b) = fd
        BY <1>a, <2>2, <2>3, <3>1 DEF Own, Eof
      <4> QED BY <4>1, <4>2
    <3>2. CASE pending[b] # <<>>
      BY <1>a, <2>3, <3>2 DEF Connected, Own
    <3> QED BY <3>1, <3>2
  <2>11. \A c \in Backends : c # b => Connected(c)' = Connected(c) /\ Own(c)' = Own(c)
    BY <2>3 DEF Connected, Own
  <2> QED BY <2>3, <2>8, <2>9, <2>10, <2>11 DEF PendingInv
<1>3. CASE Receive(b)
  <2>1. /\ DOMAIN node' = Backends /\ pending' = pending
        /\ node'[b] = Handled(node[b], b, Head(net[b]))
        /\ \A c \in Backends : c # b => node'[c] = node[c]
    BY <1>3, <1>b DEF Receive
  <2>2. DOMAIN node'[b] = DOMAIN node[b] /\ node'[b].up = node[b].up /\ node'[b].fd = node[b].fd
    BY <1>b, <2>1 DEF Handled, ToRead
  <2>3. \A c \in Backends :
           Own(c)' = Own(c) /\ Connected(c)' = Connected(c) /\ FdsOf(c)' = FdsOf(c)
    BY <2>1, <2>2 DEF Own, Connected, FdsOf
  <2>4. \A c \in Backends : ToRead(c)'
    BY <2>1, <2>2 DEF PendingInv, ToRead
  <2> QED BY <1>b, <2>1, <2>3, <2>4 DEF PendingInv
<1> QED BY <1>1, <1>2, <1>3

\* When no loop is to come, the vectors agree; and the other way round.
LEMMA NothingPending ==
    ASSUME EntryInv, ThreadShape, NEW b \in Backends,
           \A t \in Threads : thread[t].at \in {"idle", "send"}
    PROVE  Agree(b)
BY DEF EntryInv, Pending, Threads, ThreadShape

LEMMA BeginIdle ==
    ASSUME MayBegin
    PROVE  \A s \in Threads : thread[s].at = "idle"
BY DEF MayBegin

\* The registry reads the next event of a connection.
LEMMA ReadStep ==
    ASSUME PendingInv, NEW b \in Backends, pending[b] # <<>>,
           pending' = [pending EXCEPT ![b] = Tail(@)], node' = node
    PROVE  /\ PendingInv'
           /\ \A c \in Backends : c # b => Own(c)' = Own(c) /\ Connected(c)' = Connected(c)
           /\ Head(pending[b]).type = "INITIAL" => Own(b)' = Own(b) /\ Connected(b)'
           /\ Head(pending[b]).type = "EOF" => ~Connected(b)'
<1>1. /\ DOMAIN pending' = Backends /\ pending'[b] = Tail(pending[b])
      /\ \A c \in Backends : c # b => pending'[c] = pending[c]
  BY DEF PendingInv
<1>2. \A c \in Backends : c # b =>
         Own(c)' = Own(c) /\ Connected(c)' = Connected(c) /\ FdsOf(c)' = FdsOf(c)
  BY <1>1 DEF Own, Connected, FdsOf
<1> DEFINE q == pending[b]
           r == pending'[b]
<1>3. /\ Ordered(r, node[b].up, node[b].fd)
      /\ \A n \in DOMAIN r : n + 1 \in DOMAIN q /\ r[n] = q[n + 1]
      /\ Head(q).type = "INITIAL" =>
            IF r = <<>> THEN node[b].up /\ node[b].fd = Head(q).fd ELSE Head(r) = Eof(Head(q).fd)
      /\ Head(q).type # "INITIAL" => IF r = <<>> THEN ~node[b].up ELSE Head(r).type = "INITIAL"
  BY ZenonT(60), <1>1, OrderedTail DEF PendingInv, ToRead
<1>4. \A c \in Backends : ToRead(c)'
  BY <1>1, <1>3 DEF PendingInv, ToRead
<1>5. FdsOf(b)' \subseteq FdsOf(b)
  BY <1>3 DEF FdsOf
<1>6. PendingInv'
  BY <1>1, <1>2, <1>4, <1>5 DEF PendingInv
<1>7. CASE Head(q).type = "INITIAL"
  <2>0. Own(b) = Head(q).fd BY DEF Own
  <2>1. ASSUME r = <<>> PROVE Own(b)' = Own(b) /\ Connected(b)'
    <3>1. node[b].up /\ node[b].fd = Head(q).fd
      BY <1>3, <1>7, <2>1
    <3>2. Own(b)' = node[b].fd /\ Connected(b)'
      BY <2>1, <3>1 DEF Own, Connected
    <3> QED BY <2>0, <3>1, <3>2
  <2>2. ASSUME r # <<>> PROVE Own(b)' = Own(b) /\ Connected(b)'
    <3>1. Head(r).type = "EOF" /\ Head(r).fd = Head(q).fd
      BY <1>3, <1>7, <2>2 DEF Eof
    <3>2. Own(b)' = Head(r).fd /\ Connected(b)'
      BY <2>2, <3>1 DEF Own, Connected
    <3> QED BY <2>0, <3>1, <3>2
  <2>3. Own(b)' = Own(b) /\ Connected(b)'
    BY <2>1, <2>2
  <2> QED BY <1>2, <1>6, <1>7, <2>3
<1>8. CASE Head(q).type # "INITIAL"
  <2>1. ~Connected(b)'
    BY <1>3, <1>8 DEF Connected
  <2> QED BY <1>2, <1>6, <1>8, <2>1
<1> QED BY <1>7, <1>8

\* Two connections have two descriptors, in any vector that agrees with backends.
LEMMA Agreement ==
    PendingInv /\ BackendsInv /\ entry \in [Backends -> Element]
    /\ (\A b \in Backends : Agree(b)) => EntryInv
BY OwnApart DEF BackendsInv, EntryInv, Agree

\* The first loop of an operation.
LEMMA FirstLoop ==
    ASSUME ListsInv, ThreadShape', NoneAssumption, NEW b \in Backends,
           \/ BackendInitial(b) \/ BackendEof(b) \/ KillRequest(b) \/ RestartRequest(b)
    PROVE  OneThread' /\ PendingInv' /\ BackendsInv' /\ EntryInv' /\ StepInv'
<1> USE DEF ListsInv
<1>q. \A t \in Threads : thread[t].at = "idle"
  BY BeginIdle DEF BackendInitial, BackendEof, KillRequest, RestartRequest, Admin, Threads
<1>a. \A c \in Backends : Agree(c)
  BY <1>q, NothingPending
<1>d. DOMAIN thread = Threads /\ "conn" \in Threads /\ "admin" \in Threads /\ Threads = {"conn", "admin"}
  BY DEF ThreadShape, Threads
<1>u. /\ DOMAIN backends = Backends
      /\ \A c \in Backends : backends[c] \in Element
      /\ \A c, d \in Backends : backends[c].fd = backends[d].fd /\ backends[c].fd # None => c = d
  BY OwnApart DEF BackendsInv
<1>1. CASE BackendInitial(b)
  <2> DEFINE fd == Own(b)
  <2>1. pending[b] # <<>> /\ Head(pending[b]).type = "INITIAL" /\ fd \in Fds
        /\ Head(pending[b]).fd = fd
    BY <1>1, OwnFd DEF BackendInitial, Own
  <2> HIDE DEF fd
  <2>2. /\ backends' = [backends EXCEPT ![b] = [state |-> "ALIVE", fd |-> fd]]
        /\ thread' = [thread EXCEPT !["conn"] =
                         [at |-> "set", b |-> b, fd |-> fd, out |-> <<>>]]
        /\ pending' = [pending EXCEPT ![b] = Tail(@)]
        /\ UNCHANGED <<entry, alive, net, node>>
    BY <1>1, <2>1 DEF BackendInitial, Begin
  <2>3. OneThread'
    BY <1>q, <1>d, <2>2 DEF OneThread
  <2>4. /\ PendingInv'
        /\ \A c \in Backends : c # b => Own(c)' = Own(c) /\ Connected(c)' = Connected(c)
        /\ Own(b)' = fd /\ Connected(b)'
    BY <2>1, <2>2, ReadStep DEF fd
  <2>5. /\ backends'[b] = [state |-> "ALIVE", fd |-> fd] /\ fd # None
        /\ \A c \in Backends : c # b => backends'[c] = backends[c]
    BY <1>u, <2>1, <2>2
  <2>6. BackendsInv'
    <3>1. backends' \in [Backends -> Element]
      BY <1>u, <2>1, <2>2 DEF Element, States
    <3> QED BY <2>4, <2>5, <3>1 DEF BackendsInv
  <2>7. EntryInv'
    <3>1. backends[b].fd = None /\ backends[b].state = "CRASH"
      <4>1. ~Connected(b) BY <2>1 DEF Connected
      <4> QED BY <4>1 DEF BackendsInv
    <3>2. entry[b] = Crashed /\ ~IsAlive(b)
      <4>1. entry[b] = backends[b] /\ backends[b] \in Element
        BY <1>a, <1>u DEF Agree
      <4> QED BY <1>a, <3>1, <4>1 DEF Agree, Crashed, Element
    <3>3. Pending(b)'
      BY <1>d, <2>2, <3>2 DEF Pending, IsAlive, Crashed
    <3>4. ASSUME NEW c \in Backends, c # b PROVE Agree(c)'
      BY <1>a, <2>2, <2>5, <3>4 DEF Agree, IsAlive
    <3> QED BY <2>2, <3>3, <3>4 DEF EntryInv
  <2>8. StepInv'
    BY <1>q, <1>d, <2>2, <2>5 DEF StepInv
  <2> QED BY <2>3, <2>4, <2>6, <2>7, <2>8
<1>2. CASE BackendEof(b)
  <2> DEFINE fd == Own(b)
  <2>1. pending[b] # <<>> /\ Head(pending[b]).type = "EOF" /\ fd \in Fds
        /\ Head(pending[b]).fd = fd
    BY <1>2, OwnFd DEF BackendEof, Own
  <2>0. backends[b].fd = fd
    <3>1. Connected(b) BY <2>1 DEF Connected
    <3> QED BY <3>1 DEF BackendsInv
  <2> HIDE DEF fd
  <2>2. /\ backends' = Forgotten(fd)
        /\ thread' = [thread EXCEPT !["conn"] =
                         [at |-> "eof", b |-> None, fd |-> fd, out |-> <<>>]]
        /\ pending' = [pending EXCEPT ![b] = Tail(@)]
        /\ UNCHANGED <<entry, alive, net, node>>
    BY <1>2, <2>1 DEF BackendEof, Begin
  <2>3. OneThread'
    BY <1>q, <1>d, <2>2 DEF OneThread
  <2>4. /\ PendingInv'
        /\ \A c \in Backends : c # b => Own(c)' = Own(c) /\ Connected(c)' = Connected(c)
        /\ ~Connected(b)'
    BY <2>1, <2>2, ReadStep
  <2>5. /\ fd # None /\ DOMAIN backends' = Backends /\ backends'[b] = Crashed
        /\ \A c \in Backends : c # b => backends'[c] = backends[c] /\ backends[c].fd # fd
    BY <1>u, <2>0, <2>1, <2>2 DEF Forgotten
  <2>6. BackendsInv'
    <3>1. backends' \in [Backends -> Element]
      BY <1>u, <2>2 DEF Forgotten, Crashed, Element, States
    <3> QED BY <2>4, <2>5, <3>1 DEF BackendsInv, Crashed
  <2>7. EntryInv'
    <3>1. Pending(b)'
      BY <1>a, <1>d, <2>0, <2>2, <2>5 DEF Pending, Agree, IsAlive
    <3>2. ASSUME NEW c \in Backends, c # b PROVE Agree(c)'
      BY <1>a, <2>2, <2>5, <3>2 DEF Agree, IsAlive
    <3> QED BY <2>2, <3>1, <3>2 DEF EntryInv
  <2>8. StepInv'
    BY <1>q, <1>d, <2>1, <2>2, <2>5 DEF StepInv, Crashed
  <2> QED BY <2>3, <2>4, <2>6, <2>7, <2>8
<1>3. ASSUME NEW step \in {"kill", "restart"}, NEW from, NEW to,
             Admin(step, b, from, to),
             <<step, from, to>> \in {<<"kill", "ALIVE", "DEAD">>, <<"restart", "DEAD", "ALIVE">>}
      PROVE  OneThread' /\ PendingInv' /\ BackendsInv' /\ EntryInv' /\ StepInv'
  <2>1. /\ backends' = IF backends[b].state = from
                       THEN [backends EXCEPT ![b].state = to] ELSE backends
        /\ thread' = [thread EXCEPT !["admin"] =
                         [at |-> step, b |-> b, fd |-> None, out |-> <<>>]]
        /\ UNCHANGED <<entry, alive, pending, net, node>>
    BY <1>3 DEF Admin, Begin
  <2>2. OneThread'
    BY <1>q, <1>d, <2>1 DEF OneThread
  <2>3. PendingInv' /\ \A c \in Backends : Own(c)' = Own(c) /\ Connected(c)' = Connected(c)
    BY <2>1, SameConnections
  <2>4. /\ backends' \in [Backends -> Element]
        /\ backends'[b].state # from /\ backends'[b].fd = backends[b].fd
        /\ backends[b].state = "CRASH" <=> backends'[b].state = "CRASH"
        /\ \A c \in Backends : c # b => backends'[c] = backends[c]
    BY <1>u, <1>3, <2>1 DEF Element, States, BackendsInv
  <2>5. BackendsInv'
    BY <2>3, <2>4 DEF BackendsInv
  <2>6. EntryInv'
    <3>1. Agree(b)' \/ Pending(b)'
      <4>1. CASE backends[b].state = from
        <5>1. entry[b] = backends[b] /\ backends'[b] = [entry[b] EXCEPT !.state = to]
              /\ (IsAlive(b) <=> from = "ALIVE")
          BY <1>a, <1>u, <2>1, <4>1 DEF Agree
        <5> QED BY <1>d, <1>3, <2>1, <4>1, <5>1 DEF Pending, IsAlive
      <4>2. CASE backends[b].state # from
        BY <1>a, <2>1, <4>2 DEF Agree, IsAlive
      <4> QED BY <4>1, <4>2
    <3>2. ASSUME NEW c \in Backends, c # b PROVE Agree(c)'
      BY <1>a, <2>1, <2>4, <3>2 DEF Agree, IsAlive
    <3> QED BY <2>1, <3>1, <3>2 DEF EntryInv
  <2>7. StepInv'
    BY <1>q, <1>d, <1>3, <2>1, <2>4 DEF StepInv
  <2> QED BY <2>2, <2>3, <2>5, <2>6, <2>7
<1> QED BY <1>1, <1>2, <1>3 DEF KillRequest, RestartRequest

\* What is left to do after a second loop.
LEMMA AfterLoop ==
    ASSUME ThreadShape, NEW t \in Threads, NEW out, SendAll(t, out) \/ Finish(t)
    PROVE  /\ thread'[t].at \in {"idle", "send"}
           /\ \A s \in Threads : s # t => thread'[s] = thread[s]
<1>1. CASE Finish(t) BY <1>1 DEF ThreadShape, Finish, Idle
<1>2. CASE SendAll(t, out)
  <2>1. CASE out = <<>> BY <1>2, <2>1 DEF ThreadShape, SendAll, Idle
  <2>2. CASE out # <<>> BY <1>2, <2>2 DEF ThreadShape, SendAll
  <2> QED BY <2>1, <2>2
<1> QED BY <1>1, <1>2

\* The second loop of an operation ends with vectors that agree.
LEMMA SecondLoop ==
    ASSUME ListsInv, ThreadShape', NoneAssumption, NEW t \in Threads,
           thread[t].at \in {"set", "eof", "eof2", "kill", "restart"},
           thread'[t].at \in {"idle", "send"},
           \A s \in Threads : s # t => thread'[s] = thread[s],
           UNCHANGED <<backends, pending, node>>,
           entry' \in [Backends -> Element],
           \A b \in Backends : Agree(b)'
    PROVE  OneThread' /\ PendingInv' /\ BackendsInv' /\ EntryInv' /\ StepInv'
<1>1. \A s \in Threads : thread'[s].at \in {"idle", "send"} /\ (s # t => thread'[s].at = "idle")
  BY DEF ListsInv, OneThread
<1>2. OneThread'
  BY <1>1 DEF OneThread
<1>3. PendingInv' /\ BackendsInv'
  BY SameConnections DEF ListsInv, BackendsInv
<1>4. EntryInv'
  <2>1. (PendingInv /\ BackendsInv /\ entry \in [Backends -> Element]
           /\ (\A b \in Backends : Agree(b)) => EntryInv)'
    BY Agreement, PTL
  <2> QED BY <1>3, <2>1
<1>5. StepInv'
  BY <1>1 DEF StepInv, Threads
<1> QED BY <1>2, <1>3, <1>4, <1>5

\* At a second loop, the other thread is idle.
LEMMA OtherIdle ==
    ASSUME ListsInv, NEW t \in Threads, thread[t].at # "idle"
    PROVE  \A s \in Threads : s # t => thread[s].at = "idle"
BY DEF ListsInv, OneThread

LEMMA SetStep ==
    ASSUME ListsInv, ThreadShape', NoneAssumption, SetBackendFd
    PROVE  OneThread' /\ PendingInv' /\ BackendsInv' /\ EntryInv' /\ StepInv'
<1>b. "conn" \in Threads /\ At("conn", "set")
  BY DEF SetBackendFd, Threads
<1>0. PICK b \in Backends : b = thread["conn"].b
  BY <1>b DEF At, ListsInv, ThreadShape
<1>1. "conn" \in Threads /\ "admin" \in Threads /\ thread["conn"].at = "set"
      /\ thread["admin"].at = "idle"
  BY <1>b, OtherIdle DEF SetBackendFd, At, Threads, ListsInv, ThreadShape
<1>2. backends[b] = [state |-> "ALIVE", fd |-> thread["conn"].fd]
  BY <1>0, <1>1 DEF ListsInv, StepInv
<1>3. \A c \in Backends : Agree(c) \/ (c = b /\ ~IsAlive(c))
  BY <1>0, <1>1 DEF ListsInv, EntryInv, Pending
<1>4. DOMAIN entry = Backends /\ entry \in [Backends -> Element] /\ backends[b] \in Element
  BY <1>1 DEF ListsInv, EntryInv, BackendsInv
<1>5. UNCHANGED <<backends, pending, net, node>>
  BY DEF SetBackendFd
<1>6. CASE ~IsAlive(b) /\ entry' = [entry EXCEPT ![b] = backends[b]] /\ alive' = Joined(b)
           /\ \E out : SendAll("conn", out)
  <2>1. \A c : IsAlive(c)' <=> IsAlive(c) \/ c = b
    BY <1>1, <1>6, JoinedHolds DEF ListsInv, In, IsAlive
  <2>2. entry' \in [Backends -> Element]
    BY <1>1, <1>4, <1>6
  <2>3. Agree(b)'
    BY <1>1, <1>2, <1>4, <1>5, <1>6, <2>1 DEF Agree
  <2>4. ASSUME NEW c \in Backends, c # b PROVE Agree(c)'
    BY <1>3, <1>4, <1>5, <1>6, <2>1, <2>4 DEF Agree
  <2> QED BY <1>1, <1>5, <1>6, <2>2, <2>3, <2>4, AfterLoop, SecondLoop DEF ListsInv
<1>7. CASE IsAlive(b) /\ Finish("conn") /\ UNCHANGED <<entry, alive>>
  <2>1. \A c \in Backends : Agree(c)'
    BY <1>3, <1>5, <1>7 DEF Agree, IsAlive
  <2> QED BY <1>1, <1>4, <1>5, <1>7, <2>1, AfterLoop, SecondLoop DEF ListsInv
<1> QED BY <1>0, <1>2, <1>6, <1>7 DEF SetBackendFd

LEMMA KillStep ==
    ASSUME ListsInv, ThreadShape', NoneAssumption, KillBackend
    PROVE  OneThread' /\ PendingInv' /\ BackendsInv' /\ EntryInv' /\ StepInv'
<1>b. "admin" \in Threads /\ At("admin", "kill")
  BY DEF KillBackend, Threads
<1>0. PICK b \in Backends : b = thread["admin"].b
  BY <1>b DEF At, ListsInv, ThreadShape
<1>1. "conn" \in Threads /\ "admin" \in Threads /\ thread["admin"].at = "kill"
      /\ thread["conn"].at = "idle"
  BY <1>b, OtherIdle DEF KillBackend, At, Threads, ListsInv, ThreadShape
<1>2. backends[b].state # "ALIVE"
  BY <1>0, <1>1 DEF ListsInv, StepInv
<1>3. \A c \in Backends :
         \/ Agree(c)
         \/ c = b /\ IsAlive(b) /\ backends[b] = [entry[b] EXCEPT !.state = "DEAD"]
  BY <1>0, <1>1 DEF ListsInv, EntryInv, Pending
<1>4. DOMAIN entry = Backends /\ entry \in [Backends -> Element] /\ entry[b] \in Element
  BY <1>1 DEF ListsInv, EntryInv
<1>5. UNCHANGED <<backends, pending, net, node>>
  BY DEF KillBackend
<1>6. CASE IsAlive(b) /\ entry' = [entry EXCEPT ![b].state = "DEAD"] /\ alive' = Left(b)
           /\ \E out : SendAll("admin", out)
  <2>1. \A c : IsAlive(c)' <=> IsAlive(c) /\ c # b
    BY <1>1, <1>6, LeftHolds DEF ListsInv, In, IsAlive
  <2>2. entry' \in [Backends -> Element]
    BY <1>1, <1>4, <1>6 DEF Element, States
  <2>3. Agree(b)'
    <3>1. backends[b] = [entry[b] EXCEPT !.state = "DEAD"]
      BY <1>1, <1>2, <1>3, <1>6 DEF Agree
    <3>2. entry'[b] = backends'[b] /\ entry'[b].state = "DEAD"
      BY <1>1, <1>4, <1>5, <1>6, <3>1 DEF Element
    <3> QED BY <2>1, <3>2 DEF Agree
  <2>4. ASSUME NEW c \in Backends, c # b PROVE Agree(c)'
    BY <1>3, <1>4, <1>5, <1>6, <2>1, <2>4 DEF Agree
  <2> QED BY <1>1, <1>5, <1>6, <2>2, <2>3, <2>4, AfterLoop, SecondLoop DEF ListsInv
<1>7. CASE ~IsAlive(b) /\ Finish("admin") /\ UNCHANGED <<entry, alive>>
  <2>1. \A c \in Backends : Agree(c)'
    BY <1>3, <1>5, <1>7 DEF Agree, IsAlive
  <2> QED BY <1>1, <1>4, <1>5, <1>7, <2>1, AfterLoop, SecondLoop DEF ListsInv
<1> QED BY <1>0, <1>6, <1>7 DEF KillBackend

LEMMA RestartStep ==
    ASSUME ListsInv, ThreadShape', NoneAssumption, RestartBackend
    PROVE  OneThread' /\ PendingInv' /\ BackendsInv' /\ EntryInv' /\ StepInv'
<1>b. "admin" \in Threads /\ At("admin", "restart")
  BY DEF RestartBackend, Threads
<1>0. PICK b \in Backends : b = thread["admin"].b
  BY <1>b DEF At, ListsInv, ThreadShape
<1>1. "conn" \in Threads /\ "admin" \in Threads /\ thread["admin"].at = "restart"
      /\ thread["conn"].at = "idle"
  BY <1>b, OtherIdle DEF RestartBackend, At, Threads, ListsInv, ThreadShape
<1>2. backends[b].state # "DEAD"
  BY <1>0, <1>1 DEF ListsInv, StepInv
<1>3. \A c \in Backends :
         \/ Agree(c)
         \/ c = b /\ ~IsAlive(b) /\ entry[b].state = "DEAD"
            /\ backends[b] = [entry[b] EXCEPT !.state = "ALIVE"]
  BY <1>0, <1>1 DEF ListsInv, EntryInv, Pending
<1>4. DOMAIN entry = Backends /\ entry \in [Backends -> Element] /\ entry[b] \in Element
  BY <1>1 DEF ListsInv, EntryInv
<1>5. UNCHANGED <<backends, pending, net, node>>
  BY DEF RestartBackend
<1>6. CASE ~IsAlive(b) /\ entry[b].state = "DEAD"
           /\ entry' = [entry EXCEPT ![b].state = "ALIVE"] /\ alive' = Joined(b)
           /\ \E out : SendAll("admin", out)
  <2>1. \A c : IsAlive(c)' <=> IsAlive(c) \/ c = b
    BY <1>1, <1>6, JoinedHolds DEF ListsInv, In, IsAlive
  <2>2. entry' \in [Backends -> Element]
    BY <1>1, <1>4, <1>6 DEF Element, States
  <2>3. Agree(b)'
    <3>1. backends[b] = [entry[b] EXCEPT !.state = "ALIVE"]
      BY <1>1, <1>2, <1>3, <1>6 DEF Agree
    <3>2. entry'[b] = backends'[b] /\ entry'[b].state = "ALIVE"
      BY <1>1, <1>4, <1>5, <1>6, <3>1 DEF Element
    <3> QED BY <2>1, <3>2 DEF Agree
  <2>4. ASSUME NEW c \in Backends, c # b PROVE Agree(c)'
    BY <1>3, <1>4, <1>5, <1>6, <2>1, <2>4 DEF Agree
  <2> QED BY <1>1, <1>5, <1>6, <2>2, <2>3, <2>4, AfterLoop, SecondLoop DEF ListsInv
<1>7. CASE (IsAlive(b) \/ entry[b].state # "DEAD") /\ Finish("admin") /\ UNCHANGED <<entry, alive>>
  <2>1. \A c \in Backends : Agree(c)'
    BY <1>3, <1>5, <1>7 DEF Agree, IsAlive
  <2> QED BY <1>1, <1>4, <1>5, <1>7, <2>1, AfterLoop, SecondLoop DEF ListsInv
<1> QED BY <1>0, <1>6, <1>7 DEF RestartBackend

LEMMA DeleteStep ==
    ASSUME ListsInv, ThreadShape', NoneAssumption, DeleteAlive \/ DeleteDead
    PROVE  OneThread' /\ PendingInv' /\ BackendsInv' /\ EntryInv' /\ StepInv'
<1>b. "conn" \in Threads /\ "admin" \in Threads /\ Threads = {"conn", "admin"}
      /\ thread["conn"].at \in {"eof", "eof2"}
  BY DEF DeleteAlive, DeleteDead, At, Threads
<1>0. PICK fd \in Fds : fd = thread["conn"].fd
  BY <1>b DEF ListsInv, StepInv
<1>1. thread["admin"].at = "idle" /\ fd # None
  BY <1>b, OtherIdle
<1>2. \A c \in Backends : backends[c].fd # fd
  BY <1>b, <1>0 DEF ListsInv, StepInv
<1>3. \A c \in Backends :
         \/ Agree(c) /\ entry[c].fd # fd
         \/ /\ entry[c].fd = fd /\ backends[c] = Crashed
            /\ IsAlive(c) => thread["conn"].at = "eof"
  BY <1>b, <1>0, <1>1, <1>2 DEF ListsInv, EntryInv, Pending, Agree
<1>4. DOMAIN entry = Backends /\ entry \in [Backends -> Element] /\ Crashed \in Element
      /\ \A c, d \in Backends : entry[c].fd = fd /\ entry[d].fd = fd => c = d
  BY <1>1 DEF ListsInv, EntryInv, Crashed, Element, States
<1>5. UNCHANGED <<backends, pending, net, node>>
  BY DEF DeleteAlive, DeleteDead
<1>6. ASSUME NEW b \in Backends, IsAlive(b), entry[b].fd = fd,
             entry' = [entry EXCEPT ![b] = Crashed], alive' = Left(b),
             NEW out, SendAll("conn", out)
      PROVE  OneThread' /\ PendingInv' /\ BackendsInv' /\ EntryInv' /\ StepInv'
  <2>1. \A c : IsAlive(c)' <=> IsAlive(c) /\ c # b
    BY <1>6, LeftHolds DEF ListsInv, In, IsAlive
  <2>2. entry' \in [Backends -> Element]
    BY <1>4, <1>6
  <2>3. Agree(b)'
    <3>1. entry'[b] = backends'[b] /\ entry'[b].state = "CRASH"
      BY <1>2, <1>3, <1>4, <1>5, <1>6 DEF Crashed
    <3> QED BY <2>1, <3>1 DEF Agree
  <2>4. ASSUME NEW c \in Backends, c # b PROVE Agree(c)'
    <3>1. Agree(c) BY <1>3, <1>4, <1>6, <2>4
    <3> QED BY <1>4, <1>5, <1>6, <2>1, <2>4, <3>1 DEF Agree
  <2> QED BY <1>b, <1>5, <1>6, <2>2, <2>3, <2>4, AfterLoop, SecondLoop DEF ListsInv
<1>7. CASE Goto("conn", "eof2") /\ UNCHANGED <<entry, alive>>
           /\ {c \in Backends : IsAlive(c) /\ entry[c].fd = fd} = {}
  <2>1. /\ thread'["conn"].at = "eof2" /\ thread'["conn"].fd = fd
        /\ thread'["admin"] = thread["admin"]
    BY <1>b, <1>0, <1>7 DEF Goto, ListsInv, ThreadShape
  <2>2. OneThread'
    BY <1>b, <1>1, <2>1 DEF OneThread
  <2>3. PendingInv' /\ BackendsInv'
    BY <1>5, SameConnections DEF ListsInv, BackendsInv
  <2>4. EntryInv'
    <3>1. ASSUME NEW c \in Backends PROVE Agree(c)' \/ Pending(c)'
      <4>1. CASE Agree(c)
        BY <1>5, <1>7, <4>1 DEF Agree, IsAlive
      <4>2. CASE entry[c].fd = fd /\ backends[c] = Crashed
        BY <1>5, <1>7, <2>1, <4>2 DEF Pending, IsAlive
      <4> QED BY <1>3, <4>1, <4>2
    <3> QED BY <1>7, <3>1 DEF ListsInv, EntryInv
  <2>5. StepInv'
    BY <1>1, <1>2, <1>5, <2>1 DEF StepInv
  <2> QED BY <2>2, <2>3, <2>4, <2>5
<1>8. CASE DeleteDead
  <2>1. /\ entry' = [b \in Backends |->
                        IF ~IsAlive(b) /\ entry[b].fd = fd THEN Crashed ELSE entry[b]]
        /\ Finish("conn") /\ alive' = alive /\ thread["conn"].at = "eof2"
    BY <1>0, <1>8 DEF DeleteDead, At
  <2>2. entry' \in [Backends -> Element]
    BY <1>4, <2>1
  <2>3. ASSUME NEW c \in Backends PROVE Agree(c)'
    <3>1. CASE Agree(c) /\ entry[c].fd # fd
      BY <1>5, <2>1, <3>1 DEF Agree, IsAlive
    <3>2. CASE entry[c].fd = fd /\ backends[c] = Crashed /\ ~IsAlive(c)
      BY <1>5, <2>1, <3>2 DEF Agree, IsAlive, Crashed
    <3> QED BY <1>3, <2>1, <3>1, <3>2
  <2> QED BY <1>b, <1>5, <2>1, <2>2, <2>3, AfterLoop, SecondLoop DEF ListsInv
<1>9. CASE DeleteAlive
  BY <1>0, <1>6, <1>7, <1>9 DEF DeleteAlive
<1> QED BY <1>8, <1>9

LEMMA SendStep ==
    ASSUME ListsInv, ThreadShape', NEW t \in Threads, Send(t)
    PROVE  OneThread' /\ PendingInv' /\ BackendsInv' /\ EntryInv' /\ StepInv'
<1>1. thread[t].at = "send" /\ thread'[t].at \in {"idle", "send"}
      /\ \A s \in Threads : s # t => thread'[s] = thread[s] /\ thread[s].at = "idle"
  <2>1. thread[t].at = "send"
    BY DEF Send, At
  <2>2. \A s \in Threads : s # t => thread[s].at = "idle"
    BY <2>1, OtherIdle
  <2>3. thread'[t].at \in {"idle", "send"} /\ \A s \in Threads : s # t => thread'[s] = thread[s]
    BY <2>1 DEF Send, Idle, ListsInv, ThreadShape
  <2> QED BY <2>1, <2>2, <2>3
<1>2. UNCHANGED <<backends, entry, alive, pending, node>>
  BY DEF Send
<1>3. \A c \in Backends : Agree(c)
  BY <1>1, NothingPending DEF ListsInv
<1>4. OneThread' /\ StepInv'
  BY <1>1 DEF OneThread, StepInv, Threads
<1>5. PendingInv' /\ BackendsInv'
  BY <1>2, SameConnections DEF ListsInv, BackendsInv
<1>6. EntryInv'
  BY <1>2, <1>3 DEF ListsInv, EntryInv, Agree, IsAlive
<1> QED BY <1>4, <1>5, <1>6

LEMMA ListsNext ==
    ASSUME ListsInv, [Next]_vars, NoneAssumption
    PROVE  ListsInv'
<1>0. AliveInv' /\ ThreadShape'
  BY AliveNext, ThreadNext DEF ListsInv
<1> DEFINE Rest == OneThread /\ PendingInv /\ BackendsInv /\ EntryInv /\ StepInv
<1> SUFFICES Rest' BY <1>0 DEF ListsInv
<1>1. ASSUME NEW b \in Backends,
             BackendInitial(b) \/ BackendEof(b) \/ KillRequest(b) \/ RestartRequest(b)
      PROVE  Rest'
  BY <1>0, <1>1, FirstLoop
<1>2. CASE SetBackendFd \/ DeleteAlive \/ DeleteDead \/ KillBackend \/ RestartBackend
  BY <1>0, <1>2, SetStep, DeleteStep, KillStep, RestartStep
<1>3. CASE Send("conn") \/ Send("admin")
  BY <1>0, <1>3, SendStep DEF Threads
<1>4. ASSUME NEW b \in Backends, Start(b) \/ Die(b) \/ Receive(b) PROVE Rest'
  <2>1. /\ PendingInv'
        /\ \A c \in Backends : Connected(c)' = Connected(c) /\ (Connected(c) => Own(c)' = Own(c))
    BY <1>4, ProcessesStep DEF ListsInv
  <2>2. UNCHANGED <<backends, entry, alive, thread>>
    BY <1>4 DEF Start, Die, Receive
  <2>3. BackendsInv'
    BY <2>1, <2>2 DEF ListsInv, BackendsInv
  <2>4. OneThread' /\ StepInv'
    BY <2>2 DEF ListsInv, OneThread, StepInv
  <2>5. EntryInv'
    BY <2>2 DEF ListsInv, EntryInv, Agree, Pending, IsAlive
  <2> QED BY <2>1, <2>3, <2>4, <2>5
<1>5. CASE UNCHANGED vars
  <2>1. PendingInv' /\ BackendsInv'
    BY <1>5, SameConnections DEF vars, ListsInv, BackendsInv
  <2>2. OneThread' /\ StepInv'
    BY <1>5 DEF vars, ListsInv, OneThread, StepInv
  <2>3. EntryInv'
    BY <1>5 DEF vars, ListsInv, EntryInv, Agree, Pending, IsAlive
  <2> QED BY <2>1, <2>2, <2>3
<1> QED BY <1>1, <1>2, <1>3, <1>4, <1>5 DEF Next, ConnSteps, AdminSteps

LEMMA ListsAlways == Spec => []ListsInv
<1>1. Init => ListsInv
  <2> SUFFICES ASSUME Init PROVE ListsInv OBVIOUS
  <2>1. AliveInv /\ ThreadShape /\ OneThread /\ StepInv
    BY DEF Init, AliveInv, ThreadShape, Threads, Idle, OneThread, StepInv
  <2>2. PendingInv /\ \A b \in Backends : ~Connected(b)
    <3>1. \A b \in Backends : pending[b] = <<>> /\ node[b].up = FALSE
      BY DEF Init, Down
    <3>2. \A b \in Backends : ToRead(b)
      <4>1. \A up, fd : ~up => Ordered(<<>>, up, fd)
        BY DEF Ordered
      <4> QED BY <3>1, <4>1 DEF Init, Down, ToRead
    <3>3. \A b \in Backends : FdsOf(b) = {} /\ ~Connected(b)
      BY <3>1 DEF FdsOf, Connected
    <3> QED BY <3>2, <3>3 DEF Init, PendingInv
  <2>3. BackendsInv
    BY <2>2 DEF Init, BackendsInv, Crashed, Element, States
  <2>4. EntryInv
    BY DEF Init, EntryInv, Agree, IsAlive, Crashed, Element, States
  <2> QED BY <2>1, <2>2, <2>3, <2>4 DEF ListsInv
<1>2. ListsInv /\ [Next]_vars => ListsInv'
  BY ListsNext, NoneAssumption
<1> QED BY <1>1, <1>2, PTL DEF Spec

(***************************************************************************)
(* The master doing one operation at a time, the three vectors of the      *)
(* registry always agree between operations, however servers crash, start  *)
(* again and come back before the end of their old connection was read.    *)
(***************************************************************************)
THEOREM RegistryAgrees == Spec => []ListsAgree
<1>1. ListsInv => ListsAgree
  <2> SUFFICES ASSUME ListsInv, Quiet, NEW b \in Backends PROVE Agree(b)
    BY DEF ListsAgree, Agree
  <2> QED BY NothingPending DEF ListsInv, Quiet
<1> QED BY <1>1, ListsAlways, PTL

------------------------------------------------------------------------------
(* What the servers know when they have handled what was sent to them.     *)

\* What the messages of S do last when those of q are handled: one of them
\* comes and then only messages of K, which leave it as it is; or it is so now.
Ends(q, S, K, now) ==
    \/ \E i \in DOMAIN q : q[i] \in S /\ \A j \in DOMAIN q : j > i => q[j] \in K
    \/ now /\ \A j \in DOMAIN q : q[j] \in K

LEMMA EndsAppend ==
    ASSUME NEW q \in Seq(Message), NEW S, NEW K, NEW now, NEW m \in Message,
           m \in S \/ (m \in K /\ Ends(q, S, K, now))
    PROVE  Ends(Append(q, m), S, K, now)
<1> DEFINE r == Append(q, m)
<1>1. /\ DOMAIN q = 1 .. Len(q) /\ DOMAIN r = 1 .. Len(q) + 1 /\ Len(q) \in Nat
      /\ r[Len(q) + 1] = m /\ \A n \in 1 .. Len(q) : r[n] = q[n]
  OBVIOUS
<1> HIDE DEF r
<1>2. CASE m \in S
  <2>1. \A j \in DOMAIN r : ~(j > Len(q) + 1)
    BY <1>1
  <2>2. Len(q) + 1 \in DOMAIN r /\ r[Len(q) + 1] \in S
    BY <1>1, <1>2
  <2> QED BY <2>1, <2>2 DEF Ends, r
<1>3. CASE m \in K /\ \E i \in DOMAIN q : q[i] \in S /\ \A j \in DOMAIN q : j > i => q[j] \in K
  <2>1. PICK i \in DOMAIN q : q[i] \in S /\ \A j \in DOMAIN q : j > i => q[j] \in K
    BY <1>3
  <2>2. i \in DOMAIN r /\ r[i] \in S
    BY <1>1, <2>1
  <2>3. ASSUME NEW j \in DOMAIN r, j > i PROVE r[j] \in K
    BY <1>1, <1>3, <2>1, <2>3
  <2> QED BY <2>2, <2>3 DEF Ends, r
<1>4. CASE m \in K /\ now /\ \A j \in DOMAIN q : q[j] \in K
  <2>1. \A j \in DOMAIN r : r[j] \in K
    BY <1>1, <1>4
  <2> QED BY <1>4, <2>1 DEF Ends, r
<1> QED BY <1>2, <1>3, <1>4 DEF Ends

LEMMA EndsTail ==
    ASSUME NEW q \in Seq(Message), q # <<>>, NEW S, NEW K, NEW now, NEW next,
           Ends(q, S, K, now),
           Head(q) \in S => next,
           Head(q) \in K /\ now => next
    PROVE  Ends(Tail(q), S, K, next)
<1> DEFINE r == Tail(q)
<1>1. /\ Len(q) \in Nat \ {0} /\ DOMAIN q = 1 .. Len(q) /\ DOMAIN r = 1 .. Len(q) - 1
      /\ Head(q) = q[1] /\ \A n \in 1 .. Len(q) - 1 : r[n] = q[n + 1]
  OBVIOUS
<1> HIDE DEF r
<1>2. \A j \in DOMAIN r : j + 1 \in DOMAIN q /\ r[j] = q[j + 1] /\ j + 1 > 1
  BY <1>1
<1>3. CASE \E i \in DOMAIN q : q[i] \in S /\ \A j \in DOMAIN q : j > i => q[j] \in K
  <2>1. PICK i \in DOMAIN q : q[i] \in S /\ \A j \in DOMAIN q : j > i => q[j] \in K
    BY <1>3
  <2>2. CASE i = 1
    <3>1. \A j \in DOMAIN r : r[j] \in K
      BY <1>2, <2>1, <2>2
    <3> QED BY <1>1, <2>1, <2>2, <3>1 DEF Ends, r
  <2>3. CASE i # 1
    <3>1. i - 1 \in DOMAIN r /\ r[i - 1] \in S
      BY <1>1, <2>1, <2>3
    <3>2. ASSUME NEW j \in DOMAIN r, j > i - 1 PROVE r[j] \in K
      BY <1>1, <1>2, <2>1, <3>2
    <3> QED BY <3>1, <3>2 DEF Ends, r
  <2> QED BY <2>2, <2>3
<1>4. CASE now /\ \A j \in DOMAIN q : q[j] \in K
  <2>1. Head(q) \in K /\ \A j \in DOMAIN r : r[j] \in K
    BY <1>1, <1>2, <1>4
  <2> QED BY <1>4, <2>1 DEF Ends, r
<1> QED BY <1>3, <1>4 DEF Ends

LEMMA EndsEmpty ==
    ASSUME NEW S, NEW K, NEW now
    PROVE  Ends(<<>>, S, K, now) <=> now
BY DEF Ends

Com(c) == {m \in Message : m.com = c}

\* Messages c that a thread of the master still has to send to b.
Sent(out, b, c) == \E n \in DOMAIN out : out[n].to = b /\ out[n].com = c
ToSend(b, c)    == \E t \in Threads : Sent(thread[t].out, b, c)

\* BACKEND_INITIAL was read, the second loop is to come.
Joining(b) == thread["conn"].at = "set" /\ thread["conn"].b = b

Told(b) == node[b].up /\ pending[b] = <<>>

\* When b has handled what is on the way, it knows the cluster ...
Informed(b, cluster) ==
    LET S == {m \in Com("CLUSTER") : m.addrs = cluster}
    IN  Ends(net[b], S, S \cup Com("RESTART"),
             node[b].view = cluster /\ (Head(cluster) = b => node[b].primary))

\* ... it runs, or it is killed.
Running(b) == Ends(net[b], Com("RESTART"), Com("RESTART") \cup Com("CLUSTER"), ~node[b].killed)
Stopped(b) == Ends(net[b], Com("KILL"), Com("KILL"), node[b].killed /\ ~node[b].primary)

\* What is sent is true when it is sent: the registry waits for it.
Sound(m) ==
    /\ m \in Message /\ Connected(m.to)
    /\ IsAlive(m.to) <=> m.com # "KILL"
    /\ m.com = "CLUSTER" => m.addrs = get_cluster(alive, m.to)

OutInv ==
    \A t \in Threads : /\ thread[t].at = "send" <=> thread[t].out # <<>>
                       /\ \A n \in DOMAIN thread[t].out : Sound(thread[t].out[n])

\* Without quick restarts, a process that runs and was not read has sent
\* BACKEND_INITIAL only.
Fresh(b) ==
    /\ ~node[b].up => net[b] = <<>>
    /\ node[b].up /\ pending[b] # <<>> => pending[b] = <<Initial(node[b].fd)>>

Knows(b) ==
    /\ Told(b) /\ IsAlive(b) => ToSend(b, "CLUSTER") \/ Informed(b, get_cluster(alive, b))
    /\ node[b].up /\ (pending[b] # <<>> \/ IsAlive(b) \/ Joining(b)) =>
          ToSend(b, "RESTART") \/ Running(b)
    /\ Told(b) /\ ~IsAlive(b) /\ ~Joining(b) => ToSend(b, "KILL") \/ Stopped(b)

InfoInv == OutInv /\ \A b \in Backends : Fresh(b) /\ Knows(b)

LEMMA SameServer ==
    ASSUME NEW b, UNCHANGED <<node[b], pending[b], net[b]>>
    PROVE  /\ Told(b)' <=> Told(b)
           /\ Fresh(b)' <=> Fresh(b)
           /\ Running(b)' <=> Running(b)
           /\ Stopped(b)' <=> Stopped(b)
           /\ \A cluster : Informed(b, cluster)' <=> Informed(b, cluster)
<1>1. Told(b)' <=> Told(b)
  BY DEF Told
<1>2. Fresh(b)' <=> Fresh(b)
  BY DEF Fresh
<1>3. Running(b)' <=> Running(b)
  BY DEF Running
<1>4. Stopped(b)' <=> Stopped(b)
  BY DEF Stopped
<1>5. \A cluster : Informed(b, cluster)' <=> Informed(b, cluster)
  BY DEF Informed
<1> QED BY <1>1, <1>2, <1>3, <1>4, <1>5

LEMMA SameKnowledge ==
    ASSUME NEW b, UNCHANGED <<node[b], pending[b], net[b], alive>>, Fresh(b), Knows(b),
           \A c : ToSend(b, c)' <=> ToSend(b, c),
           Joining(b)' <=> Joining(b)
    PROVE  Fresh(b)' /\ Knows(b)'
<1>1. (IsAlive(b)' <=> IsAlive(b)) /\ get_cluster(alive, b)' = get_cluster(alive, b)
  BY DEF IsAlive
<1> QED BY <1>1, SameServer DEF Knows

\* Nothing is to be sent before the second loop of an operation.
LEMMA NothingSent ==
    ASSUME OutInv, \A t \in Threads : thread[t].at # "send"
    PROVE  /\ \A t \in Threads : thread[t].out = <<>>
           /\ \A b, c : ~ToSend(b, c)
<1>1. \A t \in Threads : thread[t].out = <<>>
  BY DEF OutInv
<1> QED BY <1>1 DEF ToSend, Sent

\* Between operations, a server that is alive or was killed is connected.
LEMMA AliveConnected ==
    ASSUME ListsInv, NEW b \in Backends, \A t \in Threads : thread[t].at \in {"idle", "send"}
    PROVE  /\ IsAlive(b) => Connected(b)
           /\ backends[b].state # "CRASH" => Connected(b)
<1>1. Agree(b)
  BY NothingPending DEF ListsInv
<1>2. backends[b].state # "CRASH" => Connected(b)
  BY DEF ListsInv, BackendsInv
<1> QED BY <1>1, <1>2 DEF Agree

\* The first loop of an operation changes nothing that the servers see.
LEMMA InfoFirst ==
    ASSUME ListsInv, InfoInv, NEW b \in Backends,
           BackendInitial(b) \/ BackendEof(b) \/ KillRequest(b) \/ RestartRequest(b)
    PROVE  InfoInv'
<1>q. \A t \in Threads : thread[t].at = "idle"
  BY BeginIdle
     DEF BackendInitial, BackendEof, KillRequest, RestartRequest, Admin, Threads, ListsInv
<1>n. (\A t \in Threads : thread[t].out = <<>>) /\ \A c, d : ~ToSend(c, d)
  BY <1>q, NothingSent DEF InfoInv
<1>d. DOMAIN thread = Threads /\ Threads = {"conn", "admin"}
  BY DEF ListsInv, ThreadShape, Threads
<1>u. UNCHANGED <<alive, net, node>>
  BY DEF BackendInitial, BackendEof, KillRequest, RestartRequest, Admin
<1>1. PICK t \in Threads, at \in {"set", "eof", "kill", "restart"} : \E x, fd :
         thread' = [thread EXCEPT ![t] = [at |-> at, b |-> x, fd |-> fd, out |-> <<>>]]
  BY DEF BackendInitial, BackendEof, KillRequest, RestartRequest, Admin, Begin, Threads
<1>2. \A s \in Threads : thread'[s].out = <<>> /\ thread'[s].at # "send"
  BY <1>1, <1>d, <1>n, <1>q
<1>3. OutInv' /\ \A c, d : ~ToSend(c, d)'
  BY <1>2 DEF OutInv, ToSend, Sent
<1>4. \A c : ~Joining(c)
  BY <1>q, <1>d DEF Joining
<1>5. ASSUME NEW c \in Backends, pending'[c] = pending[c], ~Joining(c)'
      PROVE  Fresh(c)' /\ Knows(c)'
  <2>1. Fresh(c) /\ Knows(c)
    BY DEF InfoInv
  <2> QED BY <1>3, <1>4, <1>5, <1>n, <1>u, <2>1, SameKnowledge
<1>6. CASE BackendInitial(b)
  <2>1. /\ pending' = [pending EXCEPT ![b] = Tail(@)] /\ pending[b] # <<>>
        /\ Head(pending[b]).type = "INITIAL"
        /\ thread' = [thread EXCEPT !["conn"] =
                         [at |-> "set", b |-> b, fd |-> Head(pending[b]).fd, out |-> <<>>]]
    BY <1>6 DEF BackendInitial, Begin
  <2>2. /\ DOMAIN pending = Backends /\ pending'[b] = Tail(pending[b])
        /\ \A c \in Backends : c # b => pending'[c] = pending[c]
    BY <2>1 DEF ListsInv, PendingInv
  <2>3. \A c : Joining(c)' <=> c = b
    BY <1>d, <2>1 DEF Joining
  <2>4. ~IsAlive(b)'
    <3>1. Agree(b) /\ ~Connected(b)
      BY <1>q, <2>1, NothingPending DEF ListsInv, Connected
    <3>2. ~IsAlive(b)
      BY <1>q, <3>1, AliveConnected
    <3> QED BY <1>u, <3>2 DEF IsAlive
  <2>5. Fresh(b) /\ Knows(b)
    BY DEF InfoInv
  <2>6. Fresh(b)'
    <3>1. ASSUME node[b].up PROVE pending'[b] = <<>>
      <4>1. pending[b] = <<Initial(node[b].fd)>>
        BY <2>1, <2>5, <3>1 DEF Fresh
      <4>2. Tail(<<Initial(node[b].fd)>>) = <<>>
        OBVIOUS
      <4> QED BY <2>2, <4>1, <4>2
    <3> QED BY <1>u, <2>5, <3>1 DEF Fresh
  <2>7. Knows(b)'
    <3>1. node[b].up => Running(b)
      BY <1>n, <2>1, <2>5 DEF Knows
    <3>2. Running(b)' <=> Running(b)
      BY <1>u DEF Running
    <3> QED BY <1>u, <2>3, <2>4, <3>1, <3>2 DEF Knows
  <2> QED BY <1>3, <1>5, <2>2, <2>3, <2>6, <2>7 DEF InfoInv
<1>7. CASE BackendEof(b)
  <2>1. /\ pending' = [pending EXCEPT ![b] = Tail(@)] /\ pending[b] # <<>>
        /\ Head(pending[b]).type = "EOF"
        /\ thread' = [thread EXCEPT !["conn"] =
                         [at |-> "eof", b |-> None, fd |-> Head(pending[b]).fd, out |-> <<>>]]
    BY <1>7 DEF BackendEof, Begin
  <2>2. /\ DOMAIN pending = Backends
        /\ \A c \in Backends : c # b => pending'[c] = pending[c]
    BY <2>1 DEF ListsInv, PendingInv
  <2>3. \A c : ~Joining(c)'
    BY <1>d, <2>1 DEF Joining
  <2>4. Fresh(b) /\ ~node[b].up
    <3>1. Fresh(b)
      BY DEF InfoInv
    <3>2. node[b].up => pending[b] = <<Initial(node[b].fd)>>
      BY <2>1, <3>1 DEF Fresh
    <3> QED BY <2>1, <3>1, <3>2 DEF Initial
  <2>5. Fresh(b)' /\ Knows(b)'
    BY <1>u, <2>4 DEF Fresh, Knows, Told
  <2> QED BY <1>3, <1>5, <2>2, <2>3, <2>5 DEF InfoInv
<1>8. CASE KillRequest(b) \/ RestartRequest(b)
  <2>1. UNCHANGED pending
    BY <1>8 DEF KillRequest, RestartRequest, Admin
  <2>2. \A c : ~Joining(c)'
    BY <1>8, <1>d, <1>q DEF KillRequest, RestartRequest, Admin, Begin, Joining
  <2> QED BY <1>3, <1>5, <2>1, <2>2 DEF InfoInv
<1> QED BY <1>6, <1>7, <1>8

LEMMA SendAllIs ==
    ASSUME ThreadShape, NEW t \in Threads, NEW out, SendAll(t, out)
    PROVE  /\ thread'[t].out = out /\ thread'[t].at \in {"idle", "send"}
           /\ thread'[t].at = "send" <=> out # <<>>
           /\ \A s \in Threads : s # t => thread'[s] = thread[s]
<1>1. CASE out = <<>>
  BY <1>1 DEF ThreadShape, SendAll, Idle
<1>2. CASE out # <<>>
  BY <1>2 DEF ThreadShape, SendAll
<1> QED BY <1>1, <1>2

\* A second loop that moved b and then tells its group.
LEMMA InfoMoved ==
    ASSUME ListsInv, InfoInv, ListsInv', UNCHANGED <<pending, net, node>>,
           NEW t \in Threads, NEW out, SendAll(t, out),
           \A s \in Threads : thread[s].at # "send",
           NEW b \in Backends,
           \A c \in Backends : c # b => (IsAlive(c)' <=> IsAlive(c)),
           \A c \in Backends : GroupOf[c] # GroupOf[b] =>
              get_cluster(alive', c) = get_cluster(alive, c),
           \A c \in Backends : GroupOf[c] = GroupOf[b] /\ IsAlive(c)' => Sent(out, c, "CLUSTER"),
           \A n \in DOMAIN out : Sound(out[n])',
           \A c : Joining(c) => c = b,
           \A c : ~Joining(c)',
           IsAlive(b)' => IsAlive(b) \/ Joining(b) \/ Sent(out, b, "RESTART"),
           ~IsAlive(b)' => Sent(out, b, "KILL") \/ ~Connected(b)
    PROVE  InfoInv'
<1>1. (\A s \in Threads : thread[s].out = <<>>) /\ \A c, d : ~ToSend(c, d)
  BY NothingSent DEF InfoInv
<1>2. /\ thread'[t].out = out /\ (thread'[t].at = "send" <=> out # <<>>)
      /\ \A s \in Threads : s # t => thread'[s] = thread[s]
  BY SendAllIs DEF ListsInv
<1>3. OutInv'
  BY <1>1, <1>2 DEF OutInv
<1>4. \A c, d : Sent(out, c, d) => ToSend(c, d)'
  BY <1>2 DEF ToSend, Sent
<1>5. ASSUME NEW c \in Backends PROVE Fresh(c)' /\ Knows(c)'
  <2>1. Fresh(c) /\ Knows(c)
    BY DEF InfoInv
  <2>2. /\ Told(c)' <=> Told(c)
        /\ Fresh(c)' <=> Fresh(c)
        /\ Running(c)' <=> Running(c)
        /\ Stopped(c)' <=> Stopped(c)
        /\ \A cluster : Informed(c, cluster)' <=> Informed(c, cluster)
    BY SameServer
  <2>3. Told(c)' /\ IsAlive(c)' =>
           ToSend(c, "CLUSTER")' \/ Informed(c, get_cluster(alive, c))'
    <3>1. CASE GroupOf[c] = GroupOf[b]
      BY <1>4, <3>1
    <3>2. CASE GroupOf[c] # GroupOf[b]
      BY <1>1, <2>1, <2>2, <3>2 DEF Knows
    <3> QED BY <3>1, <3>2
  <2>4. node'[c].up /\ (pending'[c] # <<>> \/ IsAlive(c)' \/ Joining(c)') =>
           ToSend(c, "RESTART")' \/ Running(c)'
    BY <1>1, <1>4, <2>1, <2>2 DEF Knows
  <2>5. Told(c)' /\ ~IsAlive(c)' /\ ~Joining(c)' => ToSend(c, "KILL")' \/ Stopped(c)'
    <3>1. CASE c = b
      <4>1. Told(c) => Connected(c)
        BY DEF Told, Connected
      <4> QED BY <1>4, <2>2, <3>1, <4>1
    <3>2. CASE c # b
      BY <1>1, <2>1, <2>2, <3>2 DEF Knows
    <3> QED BY <3>1, <3>2
  <2> QED BY <2>1, <2>2, <2>3, <2>4, <2>5 DEF Knows
<1> QED BY <1>3, <1>5 DEF InfoInv

\* A second loop that finds nothing to do.
LEMMA InfoIdle ==
    ASSUME ListsInv, InfoInv, UNCHANGED <<alive, pending, net, node>>,
           NEW t \in Threads, Finish(t) \/ (t = "conn" /\ Goto("conn", "eof2")),
           \A s \in Threads : thread[s].at # "send",
           thread["conn"].at = "set" => t = "conn" /\ IsAlive(thread["conn"].b)
    PROVE  InfoInv'
<1>1. (\A s \in Threads : thread[s].out = <<>>) /\ \A c, d : ~ToSend(c, d)
  BY NothingSent DEF InfoInv
<1>d. DOMAIN thread = Threads /\ Threads = {"conn", "admin"}
      /\ \A s \in Threads : DOMAIN thread[s] = {"at", "b", "fd", "out"}
  BY DEF ListsInv, ThreadShape, Threads
<1>2. \A s \in Threads : /\ thread'[s].out = <<>> /\ thread'[s].at # "send"
                         /\ s # t => thread'[s] = thread[s]
                         /\ s = t => thread'[s].at \in {"idle", "eof2"}
  BY <1>1, <1>d DEF Finish, Goto, Idle
<1>3. OutInv' /\ \A c, d : ~ToSend(c, d)'
  BY <1>2 DEF OutInv, ToSend, Sent
<1>4. \A c : ~Joining(c)' /\ (Joining(c) => IsAlive(c))
  BY <1>2, <1>d DEF Joining
<1>5. ASSUME NEW c \in Backends PROVE Fresh(c)' /\ Knows(c)'
  <2>1. Fresh(c) /\ Knows(c)
    BY DEF InfoInv
  <2>2. /\ Told(c)' <=> Told(c)
        /\ Fresh(c)' <=> Fresh(c)
        /\ Running(c)' <=> Running(c)
        /\ Stopped(c)' <=> Stopped(c)
        /\ \A cluster : Informed(c, cluster)' <=> Informed(c, cluster)
    BY SameServer
  <2>3. (IsAlive(c)' <=> IsAlive(c)) /\ get_cluster(alive, c)' = get_cluster(alive, c)
    BY DEF IsAlive
  <2> QED BY <1>1, <1>3, <1>4, <2>1, <2>2, <2>3 DEF Knows
<1> QED BY <1>3, <1>5 DEF InfoInv

AtRest == \A t \in Threads : thread[t].at \in {"idle", "send"}

LEMMA AtRestConnected ==
    ListsInv /\ AtRest => \A c \in Backends : /\ Agree(c)
                                              /\ IsAlive(c) => Connected(c)
                                              /\ backends[c].state # "CRASH" => Connected(c)
BY AliveConnected, NothingPending DEF ListsInv, AtRest

\* Messages that tell the group of b its cluster, and all are true.
Tells(out, b) ==
    /\ out \in Seq(Message)
    /\ \A n \in DOMAIN out : Sound(out[n])
    /\ \A c \in Backends : GroupOf[c] = GroupOf[b] /\ IsAlive(c) => Sent(out, c, "CLUSTER")

LEMMA BroadcastSound ==
    ListsInv /\ AtRest => \A c \in Backends : Tells(Broadcast(get_cluster(alive, c)), c)
<1> SUFFICES ASSUME ListsInv, AtRest, NEW b \in Backends
             PROVE  Tells(Broadcast(get_cluster(alive, b)), b)
  OBVIOUS
<1> DEFINE list == get_cluster(alive, b)
           out == Broadcast(list)
<1>g. list = InGroup(alive, GroupOf[b])
  BY DEF get_cluster
<1>1. /\ list \in Seq(Backends) /\ \A c : In(list, c) <=> IsAlive(c) /\ GroupOf[c] = GroupOf[b]
  <2>1. alive \in Seq(Backends)
    BY DEF ListsInv, AliveInv
  <2>2. \A c : In(alive, c) <=> IsAlive(c)
    BY DEF In, IsAlive
  <2> HIDE DEF list
  <2> QED BY <1>g, <2>1, <2>2, InGroupIs
<1> HIDE DEF list
<1>2. /\ out \in Seq(Message) /\ DOMAIN out = DOMAIN list
      /\ \A n \in DOMAIN list : /\ out[n].to = list[n] /\ out[n].com = "CLUSTER"
                                /\ out[n].addrs = list
  BY <1>1, MessageTypes DEF Broadcast
<1> HIDE DEF out
<1>3. ASSUME NEW n \in DOMAIN out PROVE Sound(out[n])
  <2>1. out[n] \in Message /\ list[n] \in Backends /\ In(list, list[n])
    BY <1>1, <1>2 DEF In
  <2>2. IsAlive(list[n]) /\ GroupOf[list[n]] = GroupOf[b]
    BY <1>1, <2>1
  <2>3. Connected(list[n])
    BY <2>1, <2>2, AtRestConnected
  <2>4. get_cluster(alive, list[n]) = list
    BY <1>g, <2>2 DEF get_cluster
  <2> QED BY <1>2, <2>1, <2>2, <2>3, <2>4 DEF Sound
<1>4. \A c \in Backends : GroupOf[c] = GroupOf[b] /\ IsAlive(c) => Sent(out, c, "CLUSTER")
  BY <1>1, <1>2 DEF Sent, In
<1> QED BY <1>2, <1>3, <1>4 DEF out, list, Tells

LEMMA SentAndThen ==
    ASSUME NEW out \in Seq(Message), NEW m \in Message
    PROVE  /\ \A n \in DOMAIN (out \o <<m>>) :
                 (out \o <<m>>)[n] = m \/ \E k \in DOMAIN out : (out \o <<m>>)[n] = out[k]
           /\ \A c, com : Sent(out, c, com) => Sent(out \o <<m>>, c, com)
           /\ Sent(out \o <<m>>, m.to, m.com)
<1> DEFINE r == out \o <<m>>
<1>1. /\ DOMAIN out = 1 .. Len(out) /\ DOMAIN r = 1 .. Len(out) + 1 /\ Len(out) \in Nat
      /\ r[Len(out) + 1] = m /\ \A n \in 1 .. Len(out) : r[n] = out[n]
  OBVIOUS
<1> HIDE DEF r
<1>2. \A n \in DOMAIN r : r[n] = m \/ \E k \in DOMAIN out : r[n] = out[k]
  BY <1>1
<1>3. \A c, com : Sent(out, c, com) => Sent(r, c, com)
  BY <1>1 DEF Sent
<1>4. Sent(r, m.to, m.com)
  BY <1>1 DEF Sent
<1> QED BY <1>2, <1>3, <1>4 DEF r

\* The second loops that add a server to alive_backends, or take it out.
LEMMA InfoJoined ==
    ASSUME ListsInv, InfoInv, ListsInv', UNCHANGED <<pending, net, node>>,
           NEW b \in Backends, ~IsAlive(b), alive' = Joined(b),
           NEW t \in Threads, thread[t].at \in {"set", "restart"},
           t = "conn" => thread["conn"].b = b,
           NEW out, SendAll(t, out),
           \/ Joining(b) /\ out = Broadcast(get_cluster(alive', b))
           \/ out = Broadcast(get_cluster(alive', b)) \o <<Command(b, "RESTART")>>
    PROVE  InfoInv'
<1> DEFINE m == Command(b, "RESTART")
<1>0. PICK all : all = Broadcast(get_cluster(alive', b))
  OBVIOUS
<1>1. \A c : IsAlive(c)' <=> IsAlive(c) \/ c = b
  BY JoinedHolds DEF ListsInv, In, IsAlive
<1>2. \A c \in Backends : GroupOf[c] # GroupOf[b] => get_cluster(alive', c) = get_cluster(alive, c)
  BY InGroupJoined DEF ListsInv, get_cluster
<1>3. \A s \in Threads : s # t => thread[s].at = "idle"
  BY OtherIdle
<1>4. \A s \in Threads : thread[s].at # "send" /\ thread'[s].at \in {"idle", "send"}
  BY <1>3, SendAllIs DEF ListsInv
<1>5. (\A c : Joining(c) => c = b) /\ \A c : ~Joining(c)'
  BY <1>3, <1>4 DEF Joining, Threads
<1>6. /\ all \in Seq(Message)
      /\ \A n \in DOMAIN all : Sound(all[n])'
      /\ \A c \in Backends : GroupOf[c] = GroupOf[b] /\ IsAlive(c)' => Sent(all, c, "CLUSTER")
  <2>1. (ListsInv /\ AtRest =>
            \A c \in Backends : Tells(Broadcast(get_cluster(alive, c)), c))'
    BY BroadcastSound, PTL
  <2> QED BY <1>0, <1>4, <2>1 DEF AtRest, Tells
<1>7. m \in Message /\ m.to = b /\ m.com = "RESTART"
  BY MessageTypes DEF Command
<1>8. Sound(m)'
  <2>1. (ListsInv /\ AtRest => \A c \in Backends : /\ Agree(c)
                                                   /\ IsAlive(c) => Connected(c)
                                                   /\ backends[c].state # "CRASH" => Connected(c))'
    BY AtRestConnected, PTL
  <2> QED BY <1>1, <1>4, <1>7, <2>1 DEF Sound, AtRest
<1> HIDE DEF m
<1>9. /\ \A n \in DOMAIN out : Sound(out[n])'
      /\ \A c \in Backends : GroupOf[c] = GroupOf[b] /\ IsAlive(c)' => Sent(out, c, "CLUSTER")
      /\ Joining(b) \/ Sent(out, b, "RESTART")
  <2>1. CASE Joining(b) /\ out = all
    BY <1>6, <2>1
  <2>2. CASE out = all \o <<m>>
    BY <1>6, <1>7, <1>8, <2>2, SentAndThen
  <2> QED BY <1>0, <2>1, <2>2 DEF m
<1> QED BY <1>1, <1>2, <1>4, <1>5, <1>9, InfoMoved

LEMMA InfoLeft ==
    ASSUME ListsInv, InfoInv, ListsInv', UNCHANGED <<pending, net, node>>,
           NEW b \in Backends, IsAlive(b), alive' = Left(b),
           NEW t \in Threads, thread[t].at \in {"eof", "kill"},
           NEW out, SendAll(t, out),
           \/ ~Connected(b) /\ out = Broadcast(get_cluster(alive', b))
           \/ Connected(b)' /\ out = Broadcast(get_cluster(alive', b)) \o <<Command(b, "KILL")>>
    PROVE  InfoInv'
<1> DEFINE m == Command(b, "KILL")
<1>0. PICK all : all = Broadcast(get_cluster(alive', b))
  OBVIOUS
<1>1. \A c : IsAlive(c)' <=> IsAlive(c) /\ c # b
  BY LeftHolds DEF ListsInv, In, IsAlive
<1>2. \A c \in Backends : GroupOf[c] # GroupOf[b] => get_cluster(alive', c) = get_cluster(alive, c)
  BY InGroupLeft DEF ListsInv, get_cluster
<1>3. \A s \in Threads : s # t => thread[s].at = "idle"
  BY OtherIdle
<1>4. \A s \in Threads : thread[s].at # "send" /\ thread'[s].at \in {"idle", "send"}
  BY <1>3, SendAllIs DEF ListsInv
<1>5. (\A c : ~Joining(c)) /\ \A c : ~Joining(c)'
  BY <1>3, <1>4 DEF Joining, Threads
<1>6. /\ all \in Seq(Message)
      /\ \A n \in DOMAIN all : Sound(all[n])'
      /\ \A c \in Backends : GroupOf[c] = GroupOf[b] /\ IsAlive(c)' => Sent(all, c, "CLUSTER")
  <2>1. (ListsInv /\ AtRest =>
            \A c \in Backends : Tells(Broadcast(get_cluster(alive, c)), c))'
    BY BroadcastSound, PTL
  <2> QED BY <1>0, <1>4, <2>1 DEF AtRest, Tells
<1>7. m \in Message /\ m.to = b /\ m.com = "KILL"
  BY MessageTypes DEF Command
<1>8. Connected(b)' => Sound(m)'
  BY <1>1, <1>7 DEF Sound
<1> HIDE DEF m
<1>9. /\ \A n \in DOMAIN out : Sound(out[n])'
      /\ \A c \in Backends : GroupOf[c] = GroupOf[b] /\ IsAlive(c)' => Sent(out, c, "CLUSTER")
      /\ ~Connected(b) \/ Sent(out, b, "KILL")
  <2>1. CASE ~Connected(b) /\ out = all
    BY <1>6, <2>1
  <2>2. CASE Connected(b)' /\ out = all \o <<m>>
    BY <1>6, <1>7, <1>8, <2>2, SentAndThen
  <2> QED BY <1>0, <2>1, <2>2 DEF m
<1> QED BY <1>1, <1>2, <1>4, <1>5, <1>9, InfoMoved

LEMMA InfoSecond ==
    ASSUME ListsInv, InfoInv, ListsInv', NoneAssumption,
           SetBackendFd \/ DeleteAlive \/ DeleteDead \/ KillBackend \/ RestartBackend
    PROVE  InfoInv'
<1>u. UNCHANGED <<backends, pending, net, node>>
  BY DEF SetBackendFd, DeleteAlive, DeleteDead, KillBackend, RestartBackend
<1>d. "conn" \in Threads /\ "admin" \in Threads /\ Threads = {"conn", "admin"}
  BY DEF Threads
\* The thread at work is the only one.
<1>o. \A t \in Threads : thread[t].at \in {"set", "eof", "eof2", "kill", "restart"} =>
         /\ \A s \in Threads : thread[s].at # "send"
         /\ thread["conn"].at = "set" => t = "conn"
  BY <1>d, OtherIdle
<1>1. CASE SetBackendFd
  <2>1. thread["conn"].at = "set" /\ thread["conn"].b \in Backends
    BY <1>1 DEF SetBackendFd, At, ListsInv, ThreadShape, Threads
  <2>2. PICK b \in Backends : b = thread["conn"].b
    BY <2>1
  <2>3. Joining(b)
    BY <2>1, <2>2 DEF Joining
  <2>4. CASE /\ ~IsAlive(b) /\ alive' = Joined(b)
             /\ SendAll("conn", Broadcast(get_cluster(alive', b)))
    BY <1>d, <1>u, <2>1, <2>2, <2>3, <2>4, InfoJoined
  <2>5. CASE IsAlive(b) /\ Finish("conn") /\ UNCHANGED alive
    BY <1>d, <1>o, <1>u, <2>1, <2>2, <2>5, InfoIdle
  <2> QED BY <1>1, <2>2, <2>4, <2>5 DEF SetBackendFd
<1>2. CASE DeleteAlive
  <2>1. thread["conn"].at = "eof"
    BY <1>2 DEF DeleteAlive, At
  <2>2. ASSUME NEW b \in Backends, IsAlive(b), entry[b].fd = thread["conn"].fd, alive' = Left(b),
               SendAll("conn", Broadcast(get_cluster(alive', b)))
        PROVE  InfoInv'
    <3>1. backends[b].fd # entry[b].fd
      BY <2>1, <2>2 DEF ListsInv, StepInv
    <3>2. Pending(b) /\ thread["admin"].at = "idle"
      BY <1>d, <2>1, <3>1, OtherIdle DEF ListsInv, EntryInv, Agree
    <3>3. backends[b] = Crashed
      BY <2>1, <3>2 DEF Pending
    <3>4. ~Connected(b)
      <4>1. Connected(b) => Own(b) \in Fds
        BY OwnFd DEF ListsInv, PendingInv, ToRead, Connected, Own
      <4> QED BY <3>3, <4>1 DEF ListsInv, BackendsInv, Crashed
    <3> QED BY <1>d, <1>u, <2>1, <2>2, <3>4, InfoLeft
  <2>3. CASE Goto("conn", "eof2") /\ UNCHANGED alive
    BY <1>d, <1>o, <1>u, <2>1, <2>3, InfoIdle
  <2> QED BY <1>2, <2>2, <2>3 DEF DeleteAlive
<1>3. CASE DeleteDead
  <2>1. thread["conn"].at = "eof2" /\ Finish("conn") /\ UNCHANGED alive
    BY <1>3 DEF DeleteDead, At
  <2> QED BY <1>d, <1>o, <1>u, <2>1, InfoIdle
<1>4. CASE KillBackend
  <2>1. thread["admin"].at = "kill" /\ thread["admin"].b \in Backends
    BY <1>4 DEF KillBackend, At, ListsInv, ThreadShape, Threads
  <2>2. PICK b \in Backends : b = thread["admin"].b
    BY <2>1
  <2>3. CASE /\ IsAlive(b) /\ entry' = [entry EXCEPT ![b].state = "DEAD"] /\ alive' = Left(b)
             /\ SendAll("admin", KillMessages(b, alive'))
    <3>1. \A s \in Threads : thread'[s].at \in {"idle", "send"}
      <4>1. \A s \in Threads : s # "admin" => thread[s].at = "idle"
        BY <1>d, <2>1, OtherIdle
      <4> QED BY <1>d, <2>3, <4>1, SendAllIs DEF ListsInv
    <3>2. entry'[b].state = "DEAD"
      BY <2>3 DEF ListsInv, EntryInv, Element
    <3>3. Connected(b)'
      <4>1. (ListsInv /\ AtRest => \A c \in Backends : /\ Agree(c)
                                                       /\ IsAlive(c) => Connected(c)
                                                       /\ backends[c].state # "CRASH" => Connected(c))'
        BY AtRestConnected, PTL
      <4>2. Agree(b)' /\ (backends'[b].state # "CRASH" => Connected(b)')
        BY <3>1, <4>1 DEF AtRest
      <4> QED BY <3>2, <4>2 DEF Agree
    <3> QED BY <1>d, <1>u, <2>1, <2>3, <3>3, InfoLeft DEF KillMessages
  <2>4. CASE ~IsAlive(b) /\ Finish("admin") /\ UNCHANGED alive
    BY <1>d, <1>o, <1>u, <2>1, <2>4, InfoIdle
  <2> QED BY <1>4, <2>2, <2>3, <2>4 DEF KillBackend
<1>5. CASE RestartBackend
  <2>1. thread["admin"].at = "restart" /\ thread["admin"].b \in Backends
    BY <1>5 DEF RestartBackend, At, ListsInv, ThreadShape, Threads
  <2>2. PICK b \in Backends : b = thread["admin"].b
    BY <2>1
  <2>3. CASE /\ ~IsAlive(b) /\ alive' = Joined(b)
             /\ SendAll("admin", Broadcast(get_cluster(alive', b)) \o <<Command(b, "RESTART")>>)
    BY <1>d, <1>u, <2>1, <2>3, InfoJoined
  <2>4. CASE Finish("admin") /\ UNCHANGED alive
    BY <1>d, <1>o, <1>u, <2>1, <2>4, InfoIdle
  <2> QED BY <1>5, <2>2, <2>3, <2>4 DEF RestartBackend
<1> QED BY <1>1, <1>2, <1>3, <1>4, <1>5

\* One message is written, and nothing else changes.
LEMMA InfoSend ==
    ASSUME ListsInv, InfoInv, TypeInv, NEW t \in Threads, Send(t)
    PROVE  InfoInv'
<1> DEFINE out == thread[t].out
<1>1. thread[t].at = "send" /\ out # <<>> /\ out \in Seq(Message)
  BY DEF Send, At, InfoInv, OutInv, TypeInv, TypeOK, Message
<1>2. PICK m : m = Head(out)
  OBVIOUS
<1>3. /\ m \in Message /\ Sound(m) /\ Tail(out) \in Seq(Message)
      /\ \A n \in DOMAIN Tail(out) : n + 1 \in DOMAIN out /\ Tail(out)[n] = out[n + 1]
      /\ \A n \in DOMAIN out : n = 1 \/ (n - 1 \in DOMAIN Tail(out) /\ Tail(out)[n - 1] = out[n])
      /\ out[1] = m
  <2>1. 1 \in DOMAIN out /\ m = out[1] /\ m \in Message
    BY <1>1, <1>2
  <2>2. Sound(m)
    BY <2>1 DEF InfoInv, OutInv
  <2> HIDE DEF out
  <2>3. Len(out) \in Nat \ {0} /\ DOMAIN out = 1 .. Len(out)
        /\ Tail(out) \in Seq(Message) /\ DOMAIN Tail(out) = 1 .. Len(out) - 1
        /\ \A n \in 1 .. Len(out) - 1 : Tail(out)[n] = out[n + 1]
    BY <1>1
  <2>4. \A n \in 1 .. Len(out) : n = 1 \/ (n - 1 \in 1 .. Len(out) - 1 /\ (n - 1) + 1 = n)
    BY <2>3
  <2>5. \A n \in DOMAIN out : n = 1 \/ (n - 1 \in DOMAIN Tail(out) /\ Tail(out)[n - 1] = out[n])
    BY <2>3, <2>4
  <2> QED BY <2>1, <2>2, <2>3, <2>5
<1>4. \A s \in Threads : s # t => thread[s].at = "idle" /\ thread[s].out = <<>>
  <2>1. \A s \in Threads : s # t => thread[s].at = "idle"
    BY <1>1, OtherIdle
  <2> QED BY <2>1 DEF InfoInv, OutInv
<1>5. /\ UNCHANGED <<backends, entry, alive, pending, node>>
      /\ net' = IF node[m.to].up THEN [net EXCEPT ![m.to] = Append(@, m)] ELSE net
      /\ thread' = [thread EXCEPT ![t] =
                       IF Tail(out) = <<>> THEN Idle ELSE [@ EXCEPT !.out = Tail(out)]]
  BY <1>2 DEF Send
<1>6. /\ thread'[t].out = Tail(out) /\ (thread'[t].at = "send" <=> Tail(out) # <<>>)
      /\ \A s \in Threads : s # t => thread'[s] = thread[s]
  <2>1. CASE Tail(out) = <<>>
    BY <1>5, <2>1 DEF ListsInv, ThreadShape, Idle
  <2>2. CASE Tail(out) # <<>>
    BY <1>1, <1>5, <2>2 DEF ListsInv, ThreadShape
  <2> QED BY <2>1, <2>2
<1>c. \A c : Connected(c)' <=> Connected(c)
  BY <1>5 DEF Connected
<1>a. (\A c : IsAlive(c)' <=> IsAlive(c)) /\ \A c : get_cluster(alive, c)' = get_cluster(alive, c)
  BY <1>5 DEF IsAlive
<1>j. (\A c : ~Joining(c)) /\ \A c : ~Joining(c)'
  <2>1. thread["conn"].at \in {"idle", "send"} /\ thread'["conn"].at # "set"
    <3>1. CASE t = "conn"
      BY <1>1, <1>5, <3>1 DEF ListsInv, ThreadShape, Idle
    <3>2. CASE t # "conn"
      BY <1>4, <1>6, <3>2 DEF Threads
    <3> QED BY <3>1, <3>2
  <2> QED BY <2>1 DEF Joining
<1>7. OutInv'
  <2>1. \A x : Sound(x) => Sound(x)'
    BY <1>a, <1>c DEF Sound
  <2>2. \A s \in Threads : thread'[s].at = "send" <=> thread'[s].out # <<>>
    BY <1>4, <1>6
  <2>3. \A n \in DOMAIN out : Sound(out[n])
    BY DEF InfoInv, OutInv
  <2>4. \A n \in DOMAIN Tail(out) : Sound(Tail(out)[n])
    BY <1>3, <2>3
  <2> HIDE DEF out
  <2>5. ASSUME NEW s \in Threads, NEW n \in DOMAIN thread'[s].out
        PROVE  Sound(thread'[s].out[n])
    <3>1. s = t
      BY <1>4, <1>6
    <3>2. thread'[s].out = Tail(out)
      BY <1>6, <3>1
    <3> QED BY <2>4, <3>2
  <2> QED BY <2>1, <2>2, <2>5 DEF OutInv
\* Only m is sent.
<1>8. ASSUME NEW c, NEW com, ToSend(c, com), c # m.to \/ com # m.com PROVE ToSend(c, com)'
  <2>1. PICK s \in Threads : Sent(thread[s].out, c, com)
    BY <1>8 DEF ToSend
  <2>2. s = t
    BY <1>4, <2>1 DEF Sent
  <2>3. PICK n \in DOMAIN out : out[n].to = c /\ out[n].com = com
    BY <2>1, <2>2 DEF Sent
  <2> HIDE DEF out
  <2>4. n # 1
    BY <1>3, <1>8, <2>3
  <2>5. Sent(Tail(out), c, com)
    BY <1>3, <2>3, <2>4 DEF Sent
  <2> QED BY <1>6, <2>5 DEF ToSend
<1>9. ASSUME NEW c \in Backends PROVE Fresh(c)' /\ Knows(c)'
  <2>0. Fresh(c) /\ Knows(c)
    BY DEF InfoInv
  <2>t. net[c] \in Seq(Message) /\ DOMAIN net = Backends
    BY DEF TypeInv, TypeOK, Message
  <2>1. CASE c # m.to \/ ~node[c].up
    <3>1. UNCHANGED <<node[c], pending[c], net[c]>>
      BY <1>5, <2>1, <2>t
    <3>2. CASE c # m.to
      <4>1. \A com : ToSend(c, com) => ToSend(c, com)'
        BY <1>8, <3>2
      <4> QED BY <1>a, <1>j, <2>0, <3>1, <4>1, SameServer DEF Knows
    <3>3. CASE ~node[c].up
      BY <2>0, <3>1, <3>3, SameServer DEF Knows, Told
    <3> QED BY <2>1, <3>2, <3>3
  <2>2. CASE c = m.to /\ node[c].up
    <3>1. pending[c] = <<>>
      <4> SUFFICES ASSUME pending[c] # <<>> PROVE FALSE
        OBVIOUS
      <4>1. Head(pending[c]).type = "EOF"
        BY <1>3, <2>2 DEF Sound, Connected
      <4>2. pending[c] = <<Initial(node[c].fd)>>
        BY <2>0, <2>2 DEF Fresh
      <4>3. Head(<<Initial(node[c].fd)>>) = Initial(node[c].fd)
        OBVIOUS
      <4> QED BY <4>1, <4>2, <4>3 DEF Initial
    <3>2. node'[c] = node[c] /\ pending'[c] = <<>> /\ net'[c] = Append(net[c], m)
      BY <1>5, <2>2, <2>t, <3>1
    <3>3. Fresh(c)'
      BY <2>2, <3>2 DEF Fresh
    <3>4. IsAlive(c) <=> m.com # "KILL"
      BY <1>3, <2>2 DEF Sound
    <3>5. IsAlive(c) => ToSend(c, "CLUSTER")' \/ Informed(c, get_cluster(alive, c))'
      <4> SUFFICES ASSUME IsAlive(c) PROVE ToSend(c, "CLUSTER")' \/ Informed(c, get_cluster(alive, c))'
        OBVIOUS
      <4> DEFINE S == {x \in Com("CLUSTER") : x.addrs = get_cluster(alive, c)}
                 K == S \cup Com("RESTART")
                 now == node[c].view = get_cluster(alive, c)
                        /\ (Head(get_cluster(alive, c)) = c => node[c].primary)
      <4>1. Informed(c, get_cluster(alive, c)) <=> Ends(net[c], S, K, now)
        BY DEF Informed
      <4>2. Informed(c, get_cluster(alive, c))' <=> Ends(Append(net[c], m), S, K, now)
        BY <1>a, <1>5, <3>2 DEF Informed
      <4>3. CASE m.com = "CLUSTER"
        <5>1. m \in S
          BY <1>3, <2>2, <4>3 DEF Sound, Com
        <5> HIDE DEF S, K, now
        <5> QED BY <1>3, <2>t, <4>2, <5>1, EndsAppend
      <4>4. CASE m.com = "RESTART"
        <5>1. m \in K
          BY <1>3, <4>4 DEF Com
        <5>2. ToSend(c, "CLUSTER")' \/ Ends(net[c], S, K, now)
          BY <1>8, <2>0, <2>2, <3>1, <4>1, <4>4 DEF Knows, Told
        <5> HIDE DEF S, K, now
        <5> QED BY <1>3, <2>t, <4>2, <5>1, <5>2, EndsAppend
      <4> QED BY <1>3, <3>4, <4>3, <4>4 DEF Message
    <3>6. IsAlive(c) => ToSend(c, "RESTART")' \/ Running(c)'
      <4> SUFFICES ASSUME IsAlive(c) PROVE ToSend(c, "RESTART")' \/ Running(c)'
        OBVIOUS
      <4> DEFINE S == Com("RESTART")
                 K == S \cup Com("CLUSTER")
                 now == ~node[c].killed
      <4>1. Running(c) <=> Ends(net[c], S, K, now)
        BY DEF Running
      <4>2. Running(c)' <=> Ends(Append(net[c], m), S, K, now)
        BY <3>2 DEF Running
      <4>3. CASE m.com = "RESTART"
        <5>1. m \in S
          BY <1>3, <4>3 DEF Com
        <5> HIDE DEF S, K, now
        <5> QED BY <1>3, <2>t, <4>2, <5>1, EndsAppend
      <4>4. CASE m.com = "CLUSTER"
        <5>1. m \in K
          BY <1>3, <4>4 DEF Com
        <5>2. ToSend(c, "RESTART")' \/ Ends(net[c], S, K, now)
          BY <1>8, <2>0, <2>2, <4>1, <4>4 DEF Knows
        <5> HIDE DEF S, K, now
        <5> QED BY <1>3, <2>t, <4>2, <5>1, <5>2, EndsAppend
      <4> QED BY <1>3, <3>4, <4>3, <4>4 DEF Message
    <3>7. ~IsAlive(c) => Stopped(c)'
      <4> SUFFICES ASSUME ~IsAlive(c) PROVE Stopped(c)'
        OBVIOUS
      <4> DEFINE S == Com("KILL")
                 now == node[c].killed /\ ~node[c].primary
      <4>1. Stopped(c)' <=> Ends(Append(net[c], m), S, S, now)
        BY <3>2 DEF Stopped
      <4>2. m \in S
        BY <1>3, <3>4 DEF Com
      <4> HIDE DEF S, now
      <4> QED BY <1>3, <2>t, <4>1, <4>2, EndsAppend
    <3> QED BY <1>a, <1>j, <3>2, <3>3, <3>5, <3>6, <3>7 DEF Knows
  <2> QED BY <2>1, <2>2
<1> QED BY <1>7, <1>9 DEF InfoInv

\* A server that starts has nothing to handle; one that dies knows nothing; one
\* that handles a message learns what it says.
LEMMA InfoProcesses ==
    ASSUME ListsInv, InfoInv, TypeInv, "quickRestart" \notin Hazards, NoneAssumption,
           NEW b \in Backends, Start(b) \/ Die(b) \/ Receive(b)
    PROVE  InfoInv'
<1>u. UNCHANGED <<backends, entry, alive, thread>>
  BY DEF Start, Die, Receive
<1>d. /\ DOMAIN node = Backends /\ DOMAIN pending = Backends /\ DOMAIN net = Backends
      /\ node[b] \in Process /\ net[b] \in Seq(Message)
  BY DEF TypeInv, TypeOK, Process, Message
<1>1. OutInv'
  <2>1. \A c \in Backends : Connected(c)' = Connected(c)
    BY ProcessesStep DEF ListsInv
  <2>2. \A m : Sound(m) => Sound(m)'
    <3>1. \A m : Sound(m) => m.to \in Backends
      BY DEF Sound, Message
    <3> QED BY <1>u, <2>1, <3>1 DEF Sound, IsAlive
  <2> QED BY <1>u, <2>2 DEF InfoInv, OutInv
<1>2. /\ \A c, com : ToSend(c, com)' <=> ToSend(c, com)
      /\ \A c : Joining(c)' <=> Joining(c)
      /\ \A c : IsAlive(c)' <=> IsAlive(c)
      /\ \A c : get_cluster(alive, c)' = get_cluster(alive, c)
  BY <1>u DEF ToSend, Sent, Joining, IsAlive
<1>3. ASSUME NEW c \in Backends, c # b PROVE Fresh(c)' /\ Knows(c)'
  <2>1. UNCHANGED <<node[c], pending[c], net[c], alive>>
    BY <1>d, <1>u, <1>3 DEF Start, Die, Receive
  <2>2. Fresh(c) /\ Knows(c)
    BY DEF InfoInv
  <2> QED BY <1>2, <2>1, <2>2, SameKnowledge
<1> SUFFICES Fresh(b)' /\ Knows(b)'
  BY <1>1, <1>3 DEF InfoInv
<1>0. Fresh(b) /\ Knows(b)
  BY DEF InfoInv
<1>4. CASE Start(b)
  <2>1. PICK fd \in Fds :
           /\ node' = [node EXCEPT ![b] = [Down EXCEPT !.up = TRUE, !.fd = fd]]
           /\ pending' = [pending EXCEPT ![b] = Append(@, [type |-> "INITIAL", fd |-> fd])]
           /\ UNCHANGED net
    BY <1>4 DEF Start
  <2>2. pending[b] = <<>> /\ net[b] = <<>>
    BY <1>0, <1>4 DEF Start, Fresh
  <2>3. pending'[b] = <<Initial(fd)>> /\ net'[b] = <<>>
    BY <1>d, <2>1, <2>2 DEF Initial
  <2>4. node'[b].fd = fd /\ ~node'[b].killed
    BY <1>d, <2>1 DEF Down
  <2>5. pending'[b] # <<>>
    BY <2>3
  <2>6. Running(b)'
    <3>1. Running(b)' <=> Ends(<<>>, Com("RESTART"), Com("RESTART") \cup Com("CLUSTER"),
                               ~node'[b].killed)
      BY <2>3 DEF Running
    <3> QED BY <2>4, <3>1, EndsEmpty
  <2> QED BY <2>3, <2>4, <2>5, <2>6 DEF Fresh, Knows, Told
<1>5. CASE Die(b)
  <2>1. node'[b] = Down /\ net'[b] = <<>> /\ ~Down.up
    BY <1>5, <1>d DEF Die, Down
  <2> QED BY <2>1 DEF Fresh, Knows, Told
<1>6. CASE Receive(b)
  <2>1. /\ net[b] # <<>> /\ UNCHANGED pending /\ net'[b] = Tail(net[b])
        /\ node'[b] = Handled(node[b], b, Head(net[b]))
    BY <1>6, <1>d DEF Receive
  <2>2. PICK m : m = Head(net[b])
    OBVIOUS
  <2>3. m \in Message
    BY <1>d, <2>1, <2>2
  <2>4. node'[b].up = node[b].up /\ node'[b].fd = node[b].fd
    BY <1>d, <2>1, <2>2, <2>3, HandledType
  <2>5. /\ m.com = "CLUSTER" =>
              /\ node'[b].view = m.addrs /\ node'[b].killed = node[b].killed
              /\ node'[b].primary <=> (node[b].primary \/ Head(m.addrs) = b)
        /\ m.com = "KILL" => node'[b].killed /\ ~node'[b].primary
        /\ m.com = "RESTART" => /\ ~node'[b].killed /\ node'[b].view = node[b].view
                                /\ node'[b].primary = node[b].primary
    <3>1. \A n \in Process :
             /\ m.com = "CLUSTER" =>
                   /\ Handled(n, b, m).view = m.addrs /\ Handled(n, b, m).killed = n.killed
                   /\ Handled(n, b, m).primary <=> (n.primary \/ Head(m.addrs) = b)
             /\ m.com = "KILL" => Handled(n, b, m).killed /\ ~Handled(n, b, m).primary
             /\ m.com = "RESTART" => /\ ~Handled(n, b, m).killed
                                     /\ Handled(n, b, m).view = n.view
                                     /\ Handled(n, b, m).primary = n.primary
      BY DEF Handled, Process
    <3> QED BY <1>d, <2>1, <2>2, <3>1
  <2>6. Fresh(b)'
    BY <1>0, <2>1, <2>4 DEF Fresh
  <2>7. Informed(b, get_cluster(alive, b)) => Informed(b, get_cluster(alive, b))'
    <3> SUFFICES ASSUME Informed(b, get_cluster(alive, b))
                 PROVE  Informed(b, get_cluster(alive, b))'
      OBVIOUS
    <3> DEFINE cluster == get_cluster(alive, b)
               S == {x \in Com("CLUSTER") : x.addrs = cluster}
               K == S \cup Com("RESTART")
               now(n) == n.view = cluster /\ (Head(cluster) = b => n.primary)
    <3>1. Ends(net[b], S, K, now(node[b]))
      BY DEF Informed
    <3>2. Informed(b, get_cluster(alive, b))' <=> Ends(Tail(net[b]), S, K, now(node'[b]))
      BY <1>u, <2>1 DEF Informed
    <3>3. m \in S => now(node'[b])
      BY <2>5 DEF Com
    <3>4. m \in K /\ now(node[b]) => now(node'[b])
      BY <2>5 DEF Com
    <3> HIDE DEF S, K, now, cluster
    <3> QED BY <1>d, <2>1, <2>2, <3>1, <3>2, <3>3, <3>4, EndsTail
  <2>8. Running(b) => Running(b)'
    <3> SUFFICES ASSUME Running(b) PROVE Running(b)'
      OBVIOUS
    <3> DEFINE S == Com("RESTART")
               K == S \cup Com("CLUSTER")
               now(n) == ~n.killed
    <3>1. Ends(net[b], S, K, now(node[b]))
      BY DEF Running
    <3>2. Running(b)' <=> Ends(Tail(net[b]), S, K, now(node'[b]))
      BY <2>1 DEF Running
    <3>3. m \in S => now(node'[b])
      BY <2>5 DEF Com
    <3>4. m \in K /\ now(node[b]) => now(node'[b])
      BY <2>5 DEF Com
    <3> HIDE DEF S, K, now
    <3> QED BY <1>d, <2>1, <2>2, <3>1, <3>2, <3>3, <3>4, EndsTail
  <2>9. Stopped(b) => Stopped(b)'
    <3> SUFFICES ASSUME Stopped(b) PROVE Stopped(b)'
      OBVIOUS
    <3> DEFINE S == Com("KILL")
               now(n) == n.killed /\ ~n.primary
    <3>1. Ends(net[b], S, S, now(node[b]))
      BY DEF Stopped
    <3>2. Stopped(b)' <=> Ends(Tail(net[b]), S, S, now(node'[b]))
      BY <2>1 DEF Stopped
    <3>3. m \in S => now(node'[b])
      BY <2>5 DEF Com
    <3> HIDE DEF S, now
    <3> QED BY <1>d, <2>1, <2>2, <3>1, <3>2, <3>3, EndsTail
  <2>10. Told(b)' <=> Told(b)
    BY <2>1, <2>4 DEF Told
  <2> QED BY <1>0, <1>2, <2>1, <2>4, <2>6, <2>7, <2>8, <2>9, <2>10 DEF Knows
<1> QED BY <1>4, <1>5, <1>6

LEMMA InfoAlways ==
    ASSUME "quickRestart" \notin Hazards
    PROVE  Spec => [](ListsInv /\ InfoInv)
<1>1. Init => InfoInv
  <2> SUFFICES ASSUME Init PROVE InfoInv OBVIOUS
  <2>1. OutInv
    BY DEF Init, OutInv, Idle
  <2>2. ASSUME NEW b \in Backends PROVE Fresh(b) /\ Knows(b)
    BY DEF Init, Down, Fresh, Knows, Told
  <2> QED BY <2>1, <2>2 DEF InfoInv
<1>2. ListsInv /\ ListsInv' /\ InfoInv /\ TypeInv /\ [Next]_vars => InfoInv'
  <2> SUFFICES ASSUME ListsInv, ListsInv', InfoInv, TypeInv, [Next]_vars PROVE InfoInv'
    OBVIOUS
  <2>1. CASE UNCHANGED vars
    <3>1. UNCHANGED <<backends, entry, alive, thread, pending, net, node>>
      BY <2>1 DEF vars
    <3>2. OutInv'
      <4>1. \A m : Sound(m) => Sound(m)'
        BY <3>1 DEF Sound, IsAlive, Connected
      <4> QED BY <3>1, <4>1 DEF InfoInv, OutInv
    <3>3. /\ \A c, com : ToSend(c, com)' <=> ToSend(c, com)
          /\ \A c : Joining(c)' <=> Joining(c)
      BY <3>1 DEF ToSend, Sent, Joining
    <3>4. ASSUME NEW c \in Backends PROVE Fresh(c)' /\ Knows(c)'
      BY <3>1, <3>3, SameKnowledge DEF InfoInv
    <3> QED BY <3>2, <3>4 DEF InfoInv
  <2>2. CASE Next
    BY <2>2, InfoFirst, InfoSecond, InfoSend, InfoProcesses, NoneAssumption
       DEF Next, ConnSteps, AdminSteps, Threads
  <2> QED BY <2>1, <2>2
<1> QED BY <1>1, <1>2, ListsAlways, TypeAlways, PTL DEF Spec

\* When everything was handled.
LEMMA InfoSettled ==
    ASSUME ListsInv, InfoInv, Settled, NEW b \in Backends, node[b].up
    PROVE  IF IsAlive(b)
           THEN /\ node[b].view = get_cluster(alive, b) /\ ~node[b].killed
                /\ Head(get_cluster(alive, b)) = b => node[b].primary
           ELSE node[b].killed /\ ~node[b].primary
<1>1. /\ pending[b] = <<>> /\ net[b] = <<>> /\ \A t \in Threads : thread[t].at = "idle"
  BY DEF Settled, Quiet
<1>2. (\A c, d : ~ToSend(c, d)) /\ ~Joining(b) /\ Told(b)
  BY <1>1, NothingSent DEF InfoInv, Joining, Threads, Told
<1>3. Knows(b)
  BY DEF InfoInv
<1>4. /\ Informed(b, get_cluster(alive, b)) =>
            /\ node[b].view = get_cluster(alive, b)
            /\ Head(get_cluster(alive, b)) = b => node[b].primary
      /\ Running(b) => ~node[b].killed
      /\ Stopped(b) => node[b].killed /\ ~node[b].primary
  BY <1>1, EndsEmpty DEF Informed, Running, Stopped
<1> QED BY <1>2, <1>3, <1>4 DEF Knows

(***************************************************************************)
(* Once everything sent was handled, every alive server knows its cluster, *)
(* and every other one that runs is killed and no primary: with one        *)
(* operation at a time and servers that start again only after the end of  *)
(* their connection was read, messages that are still on the way when the  *)
(* registry changes again, or that are lost with a process, do no harm.    *)
(***************************************************************************)
THEOREM ServersInformed ==
    ASSUME "quickRestart" \notin Hazards
    PROVE  Spec => []NodesInformed
<1>1. ListsInv /\ InfoInv => NodesInformed
  BY InfoSettled DEF NodesInformed
<1> QED BY <1>1, InfoAlways, PTL

(***************************************************************************)
(* Once everything sent was handled, the server that get_primary names for *)
(* a group runs, is not killed, and takes itself for the primary.          *)
(***************************************************************************)
THEOREM PrimaryAnswers ==
    ASSUME "quickRestart" \notin Hazards
    PROVE  Spec => []PrimaryServes
<1>1. ListsInv /\ InfoInv => PrimaryServes
  <2> SUFFICES ASSUME ListsInv, InfoInv, Settled, NEW g \in Groups, get_primary(alive, g) # None
               PROVE  LET n == node[get_primary(alive, g)] IN n.up /\ n.primary /\ ~n.killed
    BY DEF PrimaryServes
  <2>1. PICK n \in DOMAIN alive : IsFirst(alive, g, n) /\ get_primary(alive, g) = alive[n]
    BY PrimaryFirst
  <2>2. PICK b : b = alive[n]
    OBVIOUS
  <2>3. b \in Backends /\ IsAlive(b) /\ GroupOf[b] = g /\ alive \in Seq(Backends)
    BY <2>1, <2>2 DEF ListsInv, AliveInv, IsAlive, IsFirst
  <2>4. Head(get_cluster(alive, b)) = b
    BY <2>1, <2>2, <2>3, InGroupIs DEF get_cluster
  <2>5. node[b].up
    <3>1. Connected(b)
      BY <2>3, AtRestConnected DEF Settled, Quiet, AtRest
    <3> QED BY <2>3, <3>1 DEF Settled, Connected
  <2> QED BY <2>1, <2>2, <2>3, <2>4, <2>5, InfoSettled
<1> QED BY <1>1, InfoAlways, PTL

==============================================================================
