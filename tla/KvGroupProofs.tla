---------------------------- MODULE KvGroupProofs ----------------------------
(***************************************************************************)
(* What TLAPS proves of the members of a group, for every set of nodes and *)
(* every bound.                                                            *)
(***************************************************************************)
EXTENDS KvGroup, Functions, FiniteSetTheorems, TLAPS

------------------------------------------------------------------------------
(* Sequences.                                                              *)

\* One more element, one less, none.
LEMMA RangeAppend ==
    ASSUME NEW S, NEW q \in Seq(S), NEW e \in S
    PROVE  Append(q, e) \in Seq(S) /\ Range(Append(q, e)) = Range(q) \cup {e}
<1>1. /\ DOMAIN Append(q, e) = 1 .. Len(q) + 1 /\ DOMAIN q = 1 .. Len(q)
      /\ Len(q) \in Nat
      /\ \A i \in 1 .. Len(q) : Append(q, e)[i] = q[i]
      /\ Append(q, e)[Len(q) + 1] = e
  OBVIOUS
<1> QED BY <1>1 DEF Range

LEMMA RangeEmpty == Range(<<>>) = {}
BY DEF Range

LEMMA SeqSubset ==
    ASSUME NEW S, NEW T, S \subseteq T
    PROVE  Seq(S) \subseteq Seq(T)
<1> SUFFICES ASSUME NEW q \in Seq(S) PROVE q \in Seq(T)
  OBVIOUS
<1>1. Len(q) \in Nat /\ \A i \in 1 .. Len(q) : q[i] \in T
  OBVIOUS
<1>2. q = [i \in 1 .. Len(q) |-> q[i]]
  OBVIOUS
<1>3. [i \in 1 .. Len(q) |-> q[i]] \in Seq(T)
  BY <1>1
<1> QED BY <1>2, <1>3

------------------------------------------------------------------------------
(* Part of a sequence.                                                     *)

\* Nth enumerates the positions K in their order.
LEMMA NthFacts ==
    ASSUME NEW K \in SUBSET Nat, IsFiniteSet(K)
    PROVE  /\ Cardinality(K) \in Nat
           /\ \A k \in 1 .. Cardinality(K) : Nth(K, k) \in K
           /\ \A j, k \in 1 .. Cardinality(K) : j < k => Nth(K, j) < Nth(K, k)
           /\ \A n \in K : \E k \in 1 .. Cardinality(K) : Nth(K, k) = n
<1> DEFINE c == Cardinality(K)
           L(n) == {m \in K : m <= n}
           rank == [n \in K |-> Cardinality(L(n))]
<1>0. \A n \in K : n \in Nat OBVIOUS
<1>1. IsFiniteSet(K) /\ c \in Nat
  BY FS_CardinalityType
<1>2. \A n \in K : /\ IsFiniteSet(L(n)) /\ Cardinality(L(n)) \in Nat
                   /\ Cardinality(L(n)) <= c
                   /\ Cardinality(L(n)) # 0
  <2> SUFFICES ASSUME NEW n \in K
               PROVE  /\ IsFiniteSet(L(n)) /\ Cardinality(L(n)) \in Nat
                      /\ Cardinality(L(n)) <= c
                      /\ Cardinality(L(n)) # 0
    OBVIOUS
  <2>1. L(n) \in SUBSET K /\ n \in L(n) OBVIOUS
  <2> HIDE DEF L
  <2>2. IsFiniteSet(L(n)) /\ Cardinality(L(n)) <= c BY <1>1, <2>1, FS_Subset
  <2>3. Cardinality(L(n)) \in Nat BY <2>2, FS_CardinalityType
  <2>4. Cardinality(L(n)) # 0 BY <2>1, <2>2, FS_EmptySet
  <2> QED BY <2>2, <2>3, <2>4
<1>3. \A n, m \in K : n < m => rank[n] < rank[m]
  <2> SUFFICES ASSUME NEW n \in K, NEW m \in K, n < m
               PROVE  Cardinality(L(n)) < Cardinality(L(m))
    OBVIOUS
  <2>1. L(n) \in SUBSET L(m) /\ m \in L(m) /\ m \notin L(n)
    <3>1. n \in Nat /\ m \in Nat /\ ~(m <= n) /\ m <= m BY <1>0
    <3>2. \A k \in Nat : k <= n => k <= m BY <3>1
    <3> QED BY <1>0, <3>1, <3>2
  <2>2. /\ Cardinality(L(n)) \in Nat /\ Cardinality(L(m)) \in Nat
        /\ IsFiniteSet(L(m))
    BY <1>2
  <2> HIDE DEF L
  <2>3. Cardinality(L(n)) <= Cardinality(L(m)) /\ Cardinality(L(n)) # Cardinality(L(m))
    BY <2>1, <2>2, FS_Subset
  <2> QED BY <2>2, <2>3
<1>4. rank \in [K -> 1 .. c] BY <1>1, <1>2
<1>5. \A n \in K : rank[n] = Cardinality(L(n)) OBVIOUS
<1> HIDE DEF rank, c
<1>6. rank \in Injection(K, 1 .. c)
  <2>1. \A n, m \in K : rank[n] = rank[m] => n = m BY <1>1, <1>3, <1>4
  <2> QED BY <1>4, <2>1 DEF Injection, IsInjective
<1>7. rank \in Surjection(K, 1 .. c)
  <2>1. IsFiniteSet(1 .. c) /\ Cardinality(1 .. c) = c BY <1>1, FS_Interval
  <2> QED BY <1>6, <2>1, FS_Injection DEF c
<1>8. \A k \in 1 .. c : \E n \in K : rank[n] = k BY <1>7 DEF Surjection
<1>9. \A k \in 1 .. c : Nth(K, k) \in K /\ rank[Nth(K, k)] = k
  <2> SUFFICES ASSUME NEW k \in 1 .. c PROVE Nth(K, k) \in K /\ rank[Nth(K, k)] = k
    OBVIOUS
  <2>1. PICK n \in K : Cardinality({m \in K : m <= n}) = k BY <1>5, <1>8
  <2>2. Nth(K, k) \in K /\ Cardinality({m \in K : m <= Nth(K, k)}) = k
    BY <2>1 DEF Nth
  <2> QED BY <1>5, <2>2
<1>10. \A j, k \in 1 .. c : j < k => Nth(K, j) < Nth(K, k)
  <2> SUFFICES ASSUME NEW j \in 1 .. c, NEW k \in 1 .. c, j < k
               PROVE  Nth(K, j) < Nth(K, k)
    OBVIOUS
  <2> DEFINE n == Nth(K, j)
             m == Nth(K, k)
  <2>1. n \in K /\ m \in K /\ rank[n] = j /\ rank[m] = k BY <1>9
  <2>a. j \in Nat /\ k \in Nat OBVIOUS
  <2> HIDE DEF n, m
  <2>b. n \in Nat /\ m \in Nat BY <1>0, <2>1
  <2>2. n \in Nat /\ m \in Nat /\ j \in Nat /\ k \in Nat BY <2>a, <2>b
  <2>3. ~(m < n) /\ m # n BY <1>3, <2>1, <2>2
  <2> QED BY <2>2, <2>3 DEF n, m
<1>11. \A n \in K : \E k \in 1 .. c : Nth(K, k) = n
  <2> SUFFICES ASSUME NEW n \in K PROVE \E k \in 1 .. c : Nth(K, k) = n
    OBVIOUS
  <2>1. rank[n] \in 1 .. c BY <1>4
  <2>2. Nth(K, rank[n]) = n BY <1>6, <1>9, <2>1 DEF Injection, IsInjective
  <2> QED BY <2>1, <2>2
<1> QED BY <1>1, <1>9, <1>10, <1>11 DEF c

\* Positions of a sequence are a finite set.
LEMMA Positions ==
    ASSUME NEW len \in Nat, NEW K \in SUBSET (1 .. len)
    PROVE  K \in SUBSET Nat /\ IsFiniteSet(K)
<1>1. IsFiniteSet(1 .. len) BY FS_Interval
<1>2. IsFiniteSet(K) BY <1>1, FS_Subset
<1> QED BY <1>2

\* Pick takes the elements at K, all of them, once and in their order.
LEMMA PickFacts ==
    ASSUME NEW S, NEW s \in Seq(S), NEW K \in SUBSET (1 .. Len(s))
    PROVE  /\ Pick(s, K) \in Seq(S)
           /\ DOMAIN Pick(s, K) = 1 .. Cardinality(K)
           /\ \E f \in [DOMAIN Pick(s, K) -> K] :
                 /\ \A k \in DOMAIN Pick(s, K) : Pick(s, K)[k] = s[f[k]]
                 /\ \A j, k \in DOMAIN Pick(s, K) : j < k => f[j] < f[k]
                 /\ \A n \in K : \E k \in DOMAIN Pick(s, K) : f[k] = n
<1> DEFINE c == Cardinality(K)
           p == Pick(s, K)
           f == [k \in 1 .. c |-> Nth(K, k)]
<1>n. /\ c \in Nat
      /\ \A k \in 1 .. c : Nth(K, k) \in K
      /\ \A j, k \in 1 .. c : j < k => Nth(K, j) < Nth(K, k)
      /\ \A n \in K : \E k \in 1 .. c : Nth(K, k) = n
  <2>1. Len(s) \in Nat OBVIOUS
  <2>2. K \in SUBSET Nat /\ IsFiniteSet(K) BY <2>1, Positions
  <2> QED BY <2>2, NthFacts
<1> HIDE DEF c
<1>0. f \in [1 .. c -> K] BY <1>n
<1>1. p = [k \in 1 .. c |-> s[Nth(K, k)]] BY DEF Pick, c
<1>2. \A k \in 1 .. c : s[Nth(K, k)] \in S
  <2>1. \A n \in K : s[n] \in S OBVIOUS
  <2> QED BY <1>n, <2>1
<1>3. p \in Seq(S) /\ DOMAIN p = 1 .. c BY <1>n, <1>1, <1>2
<1>4. /\ \A k \in DOMAIN p : p[k] = s[f[k]]
      /\ \A j, k \in DOMAIN p : j < k => f[j] < f[k]
      /\ \A n \in K : \E k \in DOMAIN p : f[k] = n
  BY <1>n, <1>1, <1>3
<1> HIDE DEF f, p
<1> QED BY <1>0, <1>3, <1>4 DEF p, c


------------------------------------------------------------------------------
(* Types.                                                                  *)

Coms   == {"CLUSTER", "KILL", "RESTART", "WRITE", "CKPT", "SYNC"}
Val    == 0 .. MaxWrites
Record == [seq : Nat, val : Val]
LogType  == [state : {"absent", "bare", "ok"}, ckpt : Nat, ents : Seq(Record)]
DiskType == [base : Val, log : LogType]
Letter == [com : Coms, list : Seq(Nodes), from : Nodes \cup {None}, write : Write \cup {None}]
Process ==
    [main    : {"down", "wait", "join", "run"},
     conn    : {"idle", "forward", "ckpt", "serve", "join"},
     killed  : BOOLEAN,
     primary : BOOLEAN,
     view    : Seq(Nodes),
     seq     : Nat,
     update  : Val \cup {None},
     cur     : Write \cup {None},
     todo    : Seq(Nodes),
     serving : Nodes \cup {None},
     stage   : {"no", "ask", "log", "full"},
     peer    : Nodes \cup {None},
     link    : {None} \cup [log : LogType] \cup DiskType]

\* A list is never empty, a SYNC says from whom it is, and a write is one that
\* a client has sent.
Sensible(m, newest) ==
    /\ m.com = "CLUSTER" => m.list # <<>>
    /\ m.com = "SYNC" => m.from \in Nodes
    /\ m.com = "WRITE" => m.write \in Write /\ m.write.val <= newest
Queue(q, newest) ==
    q \in Seq(Letter) /\ \A i \in DOMAIN q : Sensible(q[i], newest)

\* A process: what it forwards is a write that a client has sent, and what it
\* reads from its primary is what it waits for.
Proc(d, newest) ==
    /\ d \in Process
    /\ d.conn = "forward" => d.cur \in Write /\ d.cur.val <= newest
    /\ d.stage \in {"no", "ask"} => d.link = None
    /\ d.stage = "log" => d.link \in {None} \cup [log : LogType]
    /\ d.stage = "full" => d.link \in {None} \cup DiskType

TypeInv ==
    /\ alive \in Seq(Nodes) /\ last \in Nodes \cup {None}
    /\ DOMAIN inbox = Nodes /\ \A n \in Nodes : Queue(inbox[n], sent)
    /\ DOMAIN node = Nodes /\ \A n \in Nodes : Proc(node[n], sent)
    /\ disk \in [Nodes -> DiskType]
    /\ sent \in Nat /\ sent <= MaxWrites
    /\ acked \in Nat /\ acked <= sent
    /\ faults \in 0 .. MaxFaults

LEMMA TypeOKHolds == TypeInv => TypeOK
<1> SUFFICES ASSUME TypeInv PROVE TypeOK
  OBVIOUS
<1>1. Val \subseteq Nat /\ Record \subseteq [seq : Nat, val : Nat]
  BY GroupBounds DEF Val, Record
<1>2. \A q : q \in Seq(Record) => q \in Seq([seq : Nat, val : Nat])
  BY <1>1, SeqSubset
<1>3. DiskType \subseteq [base : Nat, log : Log]
  BY <1>1, <1>2 DEF DiskType, LogType, Log
<1>4. \A n \in Nodes : node[n] \in Process /\ inbox[n] \in Seq(Letter) /\ disk[n] \in DiskType
  BY DEF TypeInv, Queue, Proc
<1>5. \A n \in Nodes : \A i \in DOMAIN inbox[n] : inbox[n][i].com \in Coms
  <2> SUFFICES ASSUME NEW n \in Nodes, NEW i \in DOMAIN inbox[n] PROVE inbox[n][i].com \in Coms
    OBVIOUS
  <2>1. inbox[n][i] \in Letter
    BY <1>4
  <2> QED BY <2>1 DEF Letter
<1>6. \A n \in Nodes :
        /\ node[n].seq \in Nat /\ node[n].update \in Nat \cup {None}
        /\ node[n].cur \in Write \cup {None}
        /\ node[n].view \in Seq(Nodes) /\ node[n].todo \in Seq(Nodes)
        /\ node[n].peer \in Nodes \cup {None} /\ node[n].serving \in Nodes \cup {None}
  BY <1>1, <1>4 DEF Process
<1>7. acked \in 0 .. sent /\ sent \in 0 .. MaxWrites /\ faults \in 0 .. MaxFaults
  BY GroupBounds DEF TypeInv
<1> QED BY <1>3, <1>4, <1>5, <1>6, <1>7 DEF TypeInv, TypeOK, Coms

------------------------------------------------------------------------------
(* Queues and lists.                                                       *)

LEMMA QueueTail ==
    ASSUME NEW w \in Nat, NEW q, Queue(q, w), q # <<>>
    PROVE  /\ Queue(Tail(q), w)
           /\ Head(q) \in Letter /\ Sensible(Head(q), w) /\ Head(q) = q[1]
           /\ 1 \in DOMAIN q
           /\ \A i \in DOMAIN Tail(q) : i + 1 \in DOMAIN q /\ Tail(q)[i] = q[i + 1]
           /\ \A i \in DOMAIN q : i # 1 => i - 1 \in DOMAIN Tail(q) /\ Tail(q)[i - 1] = q[i]
<1>1. /\ q \in Seq(Letter) /\ DOMAIN q = 1 .. Len(q) /\ Len(q) \in Nat \ {0}
      /\ \A i \in DOMAIN q : Sensible(q[i], w)
  BY DEF Queue
<1>2. /\ Tail(q) \in Seq(Letter) /\ DOMAIN Tail(q) = 1 .. Len(q) - 1 /\ Head(q) = q[1]
      /\ \A i \in 1 .. Len(q) - 1 : Tail(q)[i] = q[i + 1]
  BY <1>1
<1>3. 1 \in DOMAIN q /\ q[1] \in Letter
  BY <1>1
<1>4. \A i \in DOMAIN Tail(q) : i + 1 \in DOMAIN q /\ Tail(q)[i] = q[i + 1]
  BY <1>1, <1>2
<1>5. \A i \in DOMAIN q : i # 1 => i - 1 \in DOMAIN Tail(q) /\ Tail(q)[i - 1] = q[i]
  BY <1>1, <1>2
<1>6. Queue(Tail(q), w)
  BY <1>1, <1>2, <1>4 DEF Queue
<1> QED BY <1>1, <1>2, <1>3, <1>4, <1>5, <1>6

LEMMA QueueAppend ==
    ASSUME NEW w \in Nat, NEW q, Queue(q, w), NEW m \in Letter, Sensible(m, w)
    PROVE  /\ Queue(Append(q, m), w)
           /\ DOMAIN q = 1 .. Len(q) /\ Len(q) \in Nat
           /\ DOMAIN Append(q, m) = 1 .. Len(q) + 1
           /\ \A i \in DOMAIN q : i \in DOMAIN Append(q, m) /\ Append(q, m)[i] = q[i]
           /\ Len(q) + 1 \in DOMAIN Append(q, m) /\ Append(q, m)[Len(q) + 1] = m
           /\ \A i \in DOMAIN Append(q, m) : i \in DOMAIN q \/ i = Len(q) + 1
           /\ Append(q, m) # <<>>
<1>1. /\ q \in Seq(Letter) /\ DOMAIN q = 1 .. Len(q) /\ Len(q) \in Nat
      /\ \A i \in DOMAIN q : Sensible(q[i], w)
  BY DEF Queue
<1>2. /\ Append(q, m) \in Seq(Letter) /\ DOMAIN Append(q, m) = 1 .. Len(q) + 1
      /\ \A i \in 1 .. Len(q) : Append(q, m)[i] = q[i]
      /\ Append(q, m)[Len(q) + 1] = m
      /\ Append(q, m) # <<>>
  BY <1>1
<1>3. Queue(Append(q, m), w)
  BY <1>1, <1>2 DEF Queue
<1> QED BY <1>1, <1>2, <1>3

\* What is left of a queue when the SYNC of a dead node is gone.
LEMMA QueuePick ==
    ASSUME NEW w \in Nat, NEW q, Queue(q, w), NEW n
    PROVE  /\ Queue(Unasked(q, n), w)
           /\ Unasked(q, n) = <<>> \/ q # <<>>
           /\ \E f \in [DOMAIN Unasked(q, n) -> DOMAIN q] :
                 /\ \A k \in DOMAIN Unasked(q, n) :
                       /\ Unasked(q, n)[k] = q[f[k]]
                       /\ q[f[k]].com # "SYNC" \/ q[f[k]].from # n
                 /\ \A j, k \in DOMAIN Unasked(q, n) : j < k => f[j] < f[k]
                 /\ \A i \in DOMAIN q : q[i].com # "SYNC" \/ q[i].from # n =>
                       \E k \in DOMAIN Unasked(q, n) : f[k] = i
<1> DEFINE K == {i \in DOMAIN q : q[i].com # "SYNC" \/ q[i].from # n}
           p == Pick(q, K)
<1>1. /\ q \in Seq(Letter) /\ DOMAIN q = 1 .. Len(q) /\ Len(q) \in Nat
      /\ \A i \in DOMAIN q : Sensible(q[i], w)
  BY DEF Queue
<1>2. K \in SUBSET (1 .. Len(q)) /\ K \subseteq DOMAIN q
  BY <1>1
<1>3. \A i : i \in K <=> i \in DOMAIN q /\ (q[i].com # "SYNC" \/ q[i].from # n)
  OBVIOUS
<1> HIDE DEF K
<1>4. /\ p \in Seq(Letter) /\ DOMAIN p = 1 .. Cardinality(K)
      /\ \E f \in [DOMAIN p -> K] :
            /\ \A k \in DOMAIN p : p[k] = q[f[k]]
            /\ \A j, k \in DOMAIN p : j < k => f[j] < f[k]
            /\ \A i \in K : \E k \in DOMAIN p : f[k] = i
  BY <1>1, <1>2, PickFacts
<1> HIDE DEF p
<1>5. PICK f \in [DOMAIN p -> K] :
            /\ \A k \in DOMAIN p : p[k] = q[f[k]]
            /\ \A j, k \in DOMAIN p : j < k => f[j] < f[k]
            /\ \A i \in K : \E k \in DOMAIN p : f[k] = i
  BY <1>4
<1>6. f \in [DOMAIN p -> DOMAIN q]
  BY <1>2
<1>7. \A k \in DOMAIN p : q[f[k]].com # "SYNC" \/ q[f[k]].from # n
  BY <1>3
<1>8. Queue(p, w)
  BY <1>1, <1>4, <1>5, <1>6 DEF Queue
<1>9. ASSUME p # <<>> PROVE q # <<>>
  <2>0. p \in Seq(Letter)
    BY <1>4
  <2>1. 1 \in DOMAIN p
    BY <1>9, <2>0
  <2>2. f[1] \in DOMAIN q
    BY <1>6, <2>1
  <2> QED BY <1>1, <2>2
<1>10. p = Unasked(q, n)
  BY DEF p, K, Unasked
<1> QED BY <1>3, <1>5, <1>6, <1>7, <1>8, <1>9, <1>10

LEMMA WithoutIs ==
    ASSUME NEW list \in Seq(Nodes), NEW x
    PROVE  /\ Without(list, x) \in Seq(Nodes)
           /\ Range(Without(list, x)) = Range(list) \ {x}
           /\ \E f \in [DOMAIN Without(list, x) -> DOMAIN list] :
                 /\ \A k \in DOMAIN Without(list, x) : Without(list, x)[k] = list[f[k]]
                 /\ \A j, k \in DOMAIN Without(list, x) : j < k => f[j] < f[k]
                 /\ \A i \in DOMAIN list : list[i] # x => \E k \in DOMAIN Without(list, x) : f[k] = i
           /\ list # <<>> /\ Head(list) # x =>
                 Without(list, x) # <<>> /\ Head(Without(list, x)) = Head(list)
           /\ x \in Range(list) => Len(Without(list, x)) <= Len(list) - 1
           /\ Len(Without(list, x)) \in Nat
<1> DEFINE K == {i \in DOMAIN list : list[i] # x}
           p == Pick(list, K)
<1>1. /\ DOMAIN list = 1 .. Len(list) /\ Len(list) \in Nat /\ list \in Seq(Nodes)
      /\ \A i \in DOMAIN list : list[i] \in Nodes
      /\ list # <<>> => Head(list) = list[1] /\ 1 \in DOMAIN list
  OBVIOUS
<1>2. K \in SUBSET (1 .. Len(list)) /\ K \subseteq DOMAIN list
  BY <1>1
<1>3. \A i : i \in K <=> i \in DOMAIN list /\ list[i] # x
  OBVIOUS
<1>c. x \in Range(list) => Cardinality(K) <= Len(list) - 1
  <2> SUFFICES ASSUME x \in Range(list) PROVE Cardinality(K) <= Len(list) - 1
    OBVIOUS
  <2>1. PICK i \in 1 .. Len(list) : list[i] = x
    BY <1>1 DEF Range
  <2>2. K \subseteq (1 .. Len(list)) \ {i}
    BY <1>2, <2>1
  <2>3. IsFiniteSet(1 .. Len(list)) /\ Cardinality(1 .. Len(list)) = Len(list)
    BY SMTT(40), <1>1, FS_Interval
  <2>4. /\ IsFiniteSet((1 .. Len(list)) \ {i})
        /\ Cardinality((1 .. Len(list)) \ {i}) = Len(list) - 1
    BY <2>1, <2>3, FS_RemoveElement
  <2> QED BY <2>2, <2>4, FS_Subset
<1> HIDE DEF K
<1>l. list \in Seq(Nodes) /\ K \in SUBSET (1 .. Len(list))
  BY <1>2
<1>4. /\ p \in Seq(Nodes)
      /\ DOMAIN p = 1 .. Cardinality(K)
      /\ \E f \in [DOMAIN p -> K] :
            /\ \A k \in DOMAIN p : p[k] = list[f[k]]
            /\ \A j, k \in DOMAIN p : j < k => f[j] < f[k]
            /\ \A n \in K : \E k \in DOMAIN p : f[k] = n
  BY <1>l, PickFacts
<1>p. p = Without(list, x)
  BY DEF p, K, Without
<1> HIDE DEF p
<1>5. PICK f \in [DOMAIN p -> K] :
            /\ \A k \in DOMAIN p : p[k] = list[f[k]]
            /\ \A j, k \in DOMAIN p : j < k => f[j] < f[k]
            /\ \A n \in K : \E k \in DOMAIN p : f[k] = n
  BY <1>4
<1>6. f \in [DOMAIN p -> DOMAIN list]
  BY <1>2
<1>7. \A i \in DOMAIN list : list[i] # x => \E k \in DOMAIN p : f[k] = i
  BY <1>3, <1>5
<1>8. Range(p) = Range(list) \ {x}
  <2>1. \A k \in DOMAIN p : f[k] \in DOMAIN list /\ list[f[k]] # x
    BY <1>3
  <2>2. ASSUME NEW y \in Range(p) PROVE y \in Range(list) \ {x}
    BY <1>5, <2>1 DEF Range
  <2>3. ASSUME NEW y \in Range(list) \ {x} PROVE y \in Range(p)
    BY <1>5, <1>7 DEF Range
  <2> QED BY <2>2, <2>3
<1>9. Len(p) = Cardinality(K) /\ Len(p) \in Nat
  <2>1. Len(p) \in Nat /\ DOMAIN p = 1 .. Len(p)
    BY <1>4
  <2>2. Cardinality(K) \in Nat
    BY <1>2, Positions, FS_CardinalityType, <1>1
  <2> QED BY <1>4, <2>1, <2>2
<1>10. ASSUME list # <<>>, Head(list) # x PROVE p # <<>> /\ Head(p) = Head(list)
  <2>1. 1 \in DOMAIN list /\ list[1] # x
    BY <1>1, <1>10
  <2>2. PICK k \in DOMAIN p : f[k] = 1
    BY <1>7, <2>1
  <2>3. k \in 1 .. Len(p) /\ 1 \in DOMAIN p /\ p # <<>>
    BY <1>4, <1>9, <2>2
  <2>4. f[1] \in DOMAIN list /\ f[1] >= 1
    BY <1>1, <1>6, <2>3
  <2>5. k = 1
    <3>1. k > 1 => f[1] < f[k]
      BY <1>5, <2>3
    <3>2. k \in Nat /\ k >= 1
      BY <1>9, <2>3
    <3>3. f[1] \in Nat
      BY <1>1, <2>4
    <3> QED BY <2>2, <2>4, <3>1, <3>2, <3>3
  <2>6. p \in Seq(Nodes) /\ p[1] = list[1]
    <3>1. p[1] = list[f[1]] /\ f[1] = 1
      BY <1>5, <2>2, <2>3, <2>5
    <3> QED BY <1>4, <3>1
  <2> QED BY <1>1, <1>10, <2>3, <2>6
<1>11. \E g \in [DOMAIN p -> DOMAIN list] :
          /\ \A k \in DOMAIN p : p[k] = list[g[k]]
          /\ \A j, k \in DOMAIN p : j < k => g[j] < g[k]
          /\ \A i \in DOMAIN list : list[i] # x => \E k \in DOMAIN p : g[k] = i
  BY <1>5, <1>6, <1>7
<1>12. x \in Range(list) => Len(p) <= Len(list) - 1
  BY <1>9, <1>c
<1>13. p \in Seq(Nodes)
  BY <1>4
<1> QED BY <1>8, <1>9, <1>10, <1>11, <1>12, <1>13 DEF p, K, Without

\* Messages.
News(list) == Message("CLUSTER", list, None, None)

LEMMA Letters ==
    /\ \A list \in Seq(Nodes) : \A w :
          list # <<>> => News(list) \in Letter /\ Sensible(News(list), w)
    /\ \A com \in {"KILL", "RESTART", "CKPT"} : \A w :
          LET m == Message(com, <<>>, None, None) IN m \in Letter /\ Sensible(m, w)
    /\ \A n \in Nodes : \A w :
          LET m == Message("SYNC", <<>>, n, None) IN m \in Letter /\ Sensible(m, w)
    /\ \A x \in Write : \A w : x.val <= w =>
          LET m == Message("WRITE", <<>>, None, x) IN m \in Letter /\ Sensible(m, w)
<1>1. <<>> \in Seq(Nodes)
  OBVIOUS
<1> QED BY <1>1 DEF News, Message, Letter, Coms, Sensible

------------------------------------------------------------------------------
(* The steps of the code, by what they change in a process.                *)

SameRole(e, d)  == e.main = d.main /\ e.killed = d.killed /\ e.primary = d.primary
SameSync(e, d)  == e.stage = d.stage /\ e.peer = d.peer /\ e.link = d.link
SameCache(e, d) == e.seq = d.seq /\ e.update = d.update
SameWork(e, d)  == e.conn = d.conn /\ e.cur = d.cur /\ e.todo = d.todo

\* A step of n that changes its own process and disk.
Own(n, e, dk) ==
    /\ node' = [node EXCEPT ![n] = e] /\ disk' = [disk EXCEPT ![n] = dk]
    /\ alive' = alive /\ last' = last /\ faults' = faults
    /\ dk \in DiskType

\* e is the process nd at the end of a message.
Ended(n, e, nd) ==
    /\ SameRole(e, nd) /\ SameSync(e, nd) /\ SameCache(e, nd)
    /\ e.view = nd.view /\ e.serving = nd.serving /\ e.cur = None
    /\ \/ e.conn = "idle" /\ e.todo = <<>>
       \/ /\ e.conn = "ckpt" /\ nd.primary /\ nd.main = "run"
          /\ e.todo \in {<<>>, Others(nd, n)}

LEMMA EndMessageIs ==
    ASSUME NEW w, NEW n \in Nodes, NEW nd, Proc(nd, w), NEW dk, EndMessage(n, nd, dk)
    PROVE  \E e : /\ Proc(e, w) /\ Ended(n, e, nd)
                  /\ node' = [node EXCEPT ![n] = e] /\ disk' = [disk EXCEPT ![n] = dk]
<1>1. PICK c \in NextConn(nd, dk) :
          node' = [node EXCEPT ![n] =
                     [nd EXCEPT !.conn = c, !.cur = None,
                                !.todo = IF c = "ckpt" /\ Head(nd.view) = n
                                         THEN Others(nd, n) ELSE <<>>]]
  BY DEF EndMessage
<1>2. c = "idle" \/ (c = "ckpt" /\ nd.primary /\ nd.main = "run")
  BY DEF NextConn
<1> DEFINE t == IF c = "ckpt" /\ Head(nd.view) = n THEN Others(nd, n) ELSE <<>>
           e == [nd EXCEPT !.conn = c, !.cur = None, !.todo = t]
<1>3. t \in Seq(Nodes) /\ t \in {<<>>, Others(nd, n)} /\ (c = "idle" => t = <<>>)
  <2>1. nd.view \in Seq(Nodes)
    BY DEF Proc, Process
  <2>2. Others(nd, n) \in Seq(Nodes)
    BY <2>1, WithoutIs DEF Others
  <2> QED BY <2>2
<1>4. node' = [node EXCEPT ![n] = e]
  BY <1>1
<1> HIDE DEF t
<1>5. /\ e \in Process /\ e.conn = c /\ e.cur = None /\ e.todo = t
      /\ SameRole(e, nd) /\ SameSync(e, nd) /\ SameCache(e, nd)
      /\ e.view = nd.view /\ e.serving = nd.serving
  BY ZenonT(60), <1>2, <1>3 DEF Proc, Process, SameRole, SameSync, SameCache
<1> HIDE DEF e
<1>6. Proc(e, w)
  BY <1>2, <1>5 DEF Proc, SameSync
<1>7. Ended(n, e, nd)
  BY <1>2, <1>3, <1>5 DEF Ended
<1> QED BY <1>4, <1>6, <1>7 DEF EndMessage

\* A process is one that a client or the primary gives work.
LEMMA FieldTypes ==
    ASSUME NEW w, NEW d, Proc(d, w)
    PROVE  /\ d.main \in {"down", "wait", "join", "run"}
           /\ d.conn \in {"idle", "forward", "ckpt", "serve", "join"}
           /\ d.killed \in BOOLEAN /\ d.primary \in BOOLEAN
           /\ d.view \in Seq(Nodes) /\ d.todo \in Seq(Nodes)
           /\ d.seq \in Nat /\ d.update \in Val \cup {None} /\ d.cur \in Write \cup {None}
           /\ d.serving \in Nodes \cup {None} /\ d.peer \in Nodes \cup {None}
           /\ d.stage \in {"no", "ask", "log", "full"}
BY DEF Proc, Process

LEMMA DownProc == \A w : Proc(Down, w) /\ Proc(Fresh, w)
<1>1. <<>> \in Seq(Nodes)
  OBVIOUS
<1> QED BY <1>1 DEF Proc, Process, Down, Fresh

\* What a write does to a process and its disk.
LEMMA AppliedIs ==
    ASSUME NEW w, NEW d, Proc(d, w), NEW dk \in DiskType, NEW x \in Write
    PROVE  /\ Proc(Applied(d, dk, x), w) /\ Logged(d, dk, x) \in DiskType
           /\ SameRole(Applied(d, dk, x), d) /\ SameSync(Applied(d, dk, x), d)
           /\ SameWork(Applied(d, dk, x), d)
           /\ Applied(d, dk, x).view = d.view /\ Applied(d, dk, x).serving = d.serving
           /\ Applied(d, dk, x).seq = d.seq + 1
           /\ Applied(d, dk, x).update = IF Accepts(d, dk, x) THEN x.val ELSE d.update
           /\ Logged(d, dk, x) = IF Accepts(d, dk, x)
                THEN [base |-> dk.base,
                      log  |-> [state |-> IF dk.log.state = "absent" THEN "bare" ELSE dk.log.state,
                                ckpt  |-> dk.log.ckpt,
                                ents  |-> Append(dk.log.ents, [seq |-> d.seq + 1, val |-> x.val])]]
                ELSE dk
<1> DEFINE u == IF Accepts(d, dk, x) THEN x.val ELSE d.update
           c == d.seq + 1
           e == [d EXCEPT !.seq = c, !.update = u]
<1>0. d \in Process /\ d.seq \in Nat
  BY FieldTypes DEF Proc
<1>1. Applied(d, dk, x) = e
  BY <1>0 DEF Applied, Process
<1>2. x.val \in Val /\ u \in Val \cup {None} /\ c \in Nat
  BY <1>0, GroupBounds, FieldTypes DEF Write, Val
<1>u. u = (IF Accepts(d, dk, x) THEN x.val ELSE d.update) /\ c = d.seq + 1
  OBVIOUS
<1> HIDE DEF u, c
<1>3. /\ e \in Process /\ e.seq = c /\ e.update = u
      /\ SameRole(e, d) /\ SameSync(e, d) /\ SameWork(e, d) /\ e.view = d.view /\ e.serving = d.serving
  BY <1>0, <1>2 DEF Process, SameRole, SameSync, SameWork
<1> HIDE DEF e
<1>4. Proc(e, w)
  BY <1>3 DEF Proc, SameSync, SameWork
<1> DEFINE r == [seq |-> c, val |-> x.val]
           s == IF dk.log.state = "absent" THEN "bare" ELSE dk.log.state
           l == [state |-> s, ckpt |-> dk.log.ckpt, ents |-> Append(dk.log.ents, r)]
<1>5. r \in Record
  BY <1>2 DEF Record
<1>6. dk.base \in Val /\ dk.log \in LogType /\ dk.log.ents \in Seq(Record) /\ dk.log.ckpt \in Nat
      /\ dk.log.state \in {"absent", "bare", "ok"}
  BY DEF DiskType, LogType
<1>7. s \in {"absent", "bare", "ok"}
  BY <1>6
<1>8. Accepts(d, dk, x) => Logged(d, dk, x) = [base |-> dk.base, log |-> l]
  <2> SUFFICES ASSUME Accepts(d, dk, x) PROVE Logged(d, dk, x) = [base |-> dk.base, log |-> l]
    OBVIOUS
  <2>1. Logged(d, dk, x) = [dk EXCEPT !.log.ents = Append(@, r),
                                      !.log.state = IF @ = "absent" THEN "bare" ELSE @]
    BY <1>u DEF Logged
  <2> HIDE DEF r
  <2> QED BY <1>6, <2>1 DEF DiskType, LogType
<1>9. Append(dk.log.ents, r) \in Seq(Record)
  BY <1>5, <1>6
<1>u2. r = [seq |-> d.seq + 1, val |-> x.val]
  BY <1>u
<1> HIDE DEF r
<1>10. l \in LogType
  BY <1>6, <1>7, <1>9 DEF LogType
<1> HIDE DEF l
<1>11. Logged(d, dk, x) \in DiskType
  BY <1>6, <1>8, <1>10 DEF DiskType, Logged
<1>12. ~Accepts(d, dk, x) => Logged(d, dk, x) = dk
  BY DEF Logged
<1> QED BY <1>1, <1>3, <1>4, <1>8, <1>11, <1>12, <1>u, <1>u2 DEF l

------------------------------------------------------------------------------
(* The stages of a process, and the calls of the master that it has not    *)
(* read.  d is the process of the node n, q its inbox, mem whether it is a *)
(* member.                                                                 *)

Holds(q, com) == \E i \in DOMAIN q : q[i].com = com

Stages(n, d) ==
    /\ d.main = "join" => d.stage # "no"
    /\ d.stage # "no" => d.main \in {"join", "run"}
    /\ d.conn = "join" <=> (d.main = "run" /\ d.stage # "no")
    /\ d.stage = "ask" => d.peer \in Nodes /\ d.peer # n
    /\ d.stage = "no" => d.peer = None

Called(d, q, mem) ==
    /\ d.main = "down" => d = Down /\ q = <<>> /\ ~mem
    /\ d.main = "wait" \/ d.stage # "no" =>
          mem /\ ~d.killed /\ ~Holds(q, "KILL") /\ ~Holds(q, "RESTART")
    /\ d.killed => d.main = "run" /\ ~Holds(q, "KILL")
    /\ d.main # "down" /\ ~mem => d.killed \/ Holds(q, "KILL")
    /\ mem /\ (d.killed \/ Holds(q, "KILL")) => Holds(q, "RESTART")
    /\ \A i \in DOMAIN q : q[i].com = "KILL" => \A j \in DOMAIN q :
          /\ j < i => q[j].com \in {"WRITE", "CKPT"}
          /\ j > i => q[j].com # "KILL"
    /\ \A i \in DOMAIN q : q[i].com = "RESTART" =>
          /\ mem
          /\ d.killed \/ \E j \in DOMAIN q : j < i /\ q[j].com = "KILL"
          /\ \A j \in DOMAIN q : j # i => q[j].com # "RESTART"

\* The node knows its group when it recovers, and that it is the primary if the
\* list names it first.
Told(n, d, q) ==
    /\ d.main # "down" /\ d.view = <<>> => q # <<>> /\ q[1].com = "CLUSTER"
    /\ d.main = "wait" /\ d.view # <<>> /\ Head(d.view) = n => d.primary
    /\ \A i \in DOMAIN q : q[i].com = "RESTART" =>
          \/ \E j \in DOMAIN q : j < i /\ q[j].com = "CLUSTER"
          \/ ~Holds(q, "KILL") /\ (Head(d.view) = n => d.primary)

Shape(n, d, q, mem) == Stages(n, d) /\ Called(d, q, mem) /\ Told(n, d, q)

\* A SYNC from n that p has not read is the one for which n waits.
Asks(n, dn, p, dp, q) ==
    \A i \in DOMAIN q : q[i].com = "SYNC" /\ q[i].from = n =>
       /\ n # p /\ dn.stage = "log" /\ dn.peer = p /\ dn.link = None
       /\ dp.main # "wait"
       /\ \A j \in DOMAIN q : j # i => q[j].com # "SYNC" \/ q[j].from # n

Member(n) == n \in Range(alive)

Basic ==
    /\ TypeInv
    /\ \A n \in Nodes : Shape(n, node[n], inbox[n], Member(n))
    /\ \A n, p \in Nodes : Asks(n, node[n], p, node[p], inbox[p])

LEMMA ShapeAppend ==
    ASSUME NEW w \in Nat, NEW q, Queue(q, w), NEW m \in Letter, Sensible(m, w),
           m.com \notin {"KILL", "RESTART"}, NEW n, NEW mem, NEW d, d.main # "down", Shape(n, d, q, mem)
    PROVE  Shape(n, d, Append(q, m), mem)
<1> DEFINE r == Append(q, m)
           k == Len(q) + 1
<1>1. /\ DOMAIN q = 1 .. Len(q) /\ Len(q) \in Nat /\ DOMAIN r = 1 .. k
      /\ \A i \in DOMAIN q : i \in DOMAIN r /\ r[i] = q[i]
      /\ k \in DOMAIN r /\ r[k] = m
      /\ \A i \in DOMAIN r : i \in DOMAIN q \/ i = k
      /\ r # <<>> /\ \A i \in DOMAIN q : i < k
  BY QueueAppend
<1> HIDE DEF r, k
<1>2. \A com : com \in {"KILL", "RESTART"} => (Holds(r, com) <=> Holds(q, com))
  BY <1>1 DEF Holds
<1>3. \A i \in DOMAIN r : r[i].com \in {"KILL", "RESTART"} => i \in DOMAIN q
  BY <1>1
<1>4. Called(d, r, mem)
  <2>1. \A i \in DOMAIN r : r[i].com = "KILL" => \A j \in DOMAIN r :
          /\ j < i => r[j].com \in {"WRITE", "CKPT"}
          /\ j > i => r[j].com # "KILL"
    <3> SUFFICES ASSUME NEW i \in DOMAIN r, r[i].com = "KILL", NEW j \in DOMAIN r
                 PROVE  /\ j < i => r[j].com \in {"WRITE", "CKPT"}
                        /\ j > i => r[j].com # "KILL"
      OBVIOUS
    <3>1. i \in DOMAIN q /\ q[i].com = "KILL"
      BY <1>1, <1>3
    <3>2. CASE j \in DOMAIN q
      BY <1>1, <3>1, <3>2 DEF Shape, Called
    <3>3. CASE j = k
      BY <1>1, <3>1, <3>3
    <3> QED BY <1>1, <3>2, <3>3
  <2>2. \A i \in DOMAIN r : r[i].com = "RESTART" =>
          /\ mem
          /\ d.killed \/ \E j \in DOMAIN r : j < i /\ r[j].com = "KILL"
          /\ \A j \in DOMAIN r : j # i => r[j].com # "RESTART"
    <3> SUFFICES ASSUME NEW i \in DOMAIN r, r[i].com = "RESTART"
                 PROVE  /\ mem
                        /\ d.killed \/ \E j \in DOMAIN r : j < i /\ r[j].com = "KILL"
                        /\ \A j \in DOMAIN r : j # i => r[j].com # "RESTART"
      OBVIOUS
    <3>1. i \in DOMAIN q /\ q[i].com = "RESTART"
      BY <1>1, <1>3
    <3>2. /\ mem
          /\ d.killed \/ \E j \in DOMAIN q : j < i /\ q[j].com = "KILL"
          /\ \A j \in DOMAIN q : j # i => q[j].com # "RESTART"
      BY <3>1 DEF Shape, Called
    <3> QED BY <1>1, <1>3, <3>2
  <2> QED BY <1>1, <1>2, <2>1, <2>2 DEF Shape, Called
<1>5. Told(n, d, r)
  <2>1. d.view = <<>> => r # <<>> /\ r[1].com = "CLUSTER"
    <3> SUFFICES ASSUME d.view = <<>> PROVE r # <<>> /\ r[1].com = "CLUSTER"
      OBVIOUS
    <3>1. q # <<>> /\ q[1].com = "CLUSTER"
      BY DEF Shape, Told
    <3>2. 1 \in DOMAIN q
      BY <3>1 DEF Queue
    <3> QED BY <1>1, <3>1, <3>2
  <2>2. \A i \in DOMAIN r : r[i].com = "RESTART" =>
          \/ \E j \in DOMAIN r : j < i /\ r[j].com = "CLUSTER"
          \/ ~Holds(r, "KILL") /\ (Head(d.view) = n => d.primary)
    <3> SUFFICES ASSUME NEW i \in DOMAIN r, r[i].com = "RESTART"
                 PROVE  \/ \E j \in DOMAIN r : j < i /\ r[j].com = "CLUSTER"
                        \/ ~Holds(r, "KILL") /\ (Head(d.view) = n => d.primary)
      OBVIOUS
    <3>1. i \in DOMAIN q /\ q[i].com = "RESTART"
      BY <1>1, <1>3
    <3>2. \/ \E j \in DOMAIN q : j < i /\ q[j].com = "CLUSTER"
          \/ ~Holds(q, "KILL") /\ (Head(d.view) = n => d.primary)
      BY <3>1 DEF Shape, Told
    <3> QED BY <1>1, <1>2, <3>2
  <2> QED BY <2>1, <2>2 DEF Shape, Told
<1> QED BY <1>4, <1>5 DEF Shape, r

LEMMA ShapeUnasked ==
    ASSUME NEW w \in Nat, NEW q, Queue(q, w), NEW x, NEW n, NEW mem, NEW d, Shape(n, d, q, mem)
    PROVE  Shape(n, d, Unasked(q, x), mem)
<1> DEFINE r == Unasked(q, x)
<1>1. /\ r = <<>> \/ q # <<>>
      /\ Queue(r, w)
      /\ \E f \in [DOMAIN r -> DOMAIN q] :
            /\ \A k \in DOMAIN r :
                  /\ r[k] = q[f[k]]
                  /\ q[f[k]].com # "SYNC" \/ q[f[k]].from # x
            /\ \A j, k \in DOMAIN r : j < k => f[j] < f[k]
            /\ \A i \in DOMAIN q : q[i].com # "SYNC" \/ q[i].from # x =>
                  \E k \in DOMAIN r : f[k] = i
  BY QueuePick
<1> HIDE DEF r
<1>2. PICK f \in [DOMAIN r -> DOMAIN q] :
            /\ \A k \in DOMAIN r :
                  /\ r[k] = q[f[k]]
                  /\ q[f[k]].com # "SYNC" \/ q[f[k]].from # x
            /\ \A j, k \in DOMAIN r : j < k => f[j] < f[k]
            /\ \A i \in DOMAIN q : q[i].com # "SYNC" \/ q[i].from # x =>
                  \E k \in DOMAIN r : f[k] = i
  BY <1>1
<1>3. /\ DOMAIN q = 1 .. Len(q) /\ Len(q) \in Nat
      /\ DOMAIN r = 1 .. Len(r) /\ Len(r) \in Nat
  BY <1>1 DEF Queue
<1>4. /\ \A j, k \in DOMAIN r : f[j] < f[k] => j < k
      /\ \A j, k \in DOMAIN r : f[j] = f[k] => j = k
  <2> SUFFICES ASSUME NEW j \in DOMAIN r, NEW k \in DOMAIN r
               PROVE  (f[j] < f[k] => j < k) /\ (f[j] = f[k] => j = k)
    OBVIOUS
  <2>1. f[j] \in Nat /\ f[k] \in Nat /\ j \in Nat /\ k \in Nat
    BY <1>3
  <2>2. (j < k => f[j] < f[k]) /\ (k < j => f[k] < f[j])
    BY <1>2
  <2> QED BY <2>1, <2>2
<1>5. \A i \in DOMAIN q : q[i].com # "SYNC" => \E k \in DOMAIN r : f[k] = i /\ r[k] = q[i]
  BY <1>2
<1>6. \A com : com # "SYNC" => (Holds(r, com) <=> Holds(q, com))
  BY <1>2, <1>5 DEF Holds
<1>7. Called(d, r, mem)
  <2>1. \A i \in DOMAIN r : r[i].com = "KILL" => \A j \in DOMAIN r :
          /\ j < i => r[j].com \in {"WRITE", "CKPT"}
          /\ j > i => r[j].com # "KILL"
    <3> SUFFICES ASSUME NEW i \in DOMAIN r, r[i].com = "KILL", NEW j \in DOMAIN r
                 PROVE  /\ j < i => r[j].com \in {"WRITE", "CKPT"}
                        /\ j > i => r[j].com # "KILL"
      OBVIOUS
    <3>1. f[i] \in DOMAIN q /\ q[f[i]].com = "KILL" /\ f[j] \in DOMAIN q
      BY <1>2
    <3>2. /\ f[j] < f[i] => q[f[j]].com \in {"WRITE", "CKPT"}
          /\ f[j] > f[i] => q[f[j]].com # "KILL"
      BY <3>1 DEF Shape, Called
    <3>3. j > i => f[j] > f[i]
      <4>1. i < j => f[i] < f[j]
        BY <1>2
      <4> QED BY <1>3, <3>1, <4>1
    <3> QED BY <1>2, <3>2, <3>3
  <2>2. \A i \in DOMAIN r : r[i].com = "RESTART" =>
          /\ mem
          /\ d.killed \/ \E j \in DOMAIN r : j < i /\ r[j].com = "KILL"
          /\ \A j \in DOMAIN r : j # i => r[j].com # "RESTART"
    <3> SUFFICES ASSUME NEW i \in DOMAIN r, r[i].com = "RESTART"
                 PROVE  /\ mem
                        /\ d.killed \/ \E j \in DOMAIN r : j < i /\ r[j].com = "KILL"
                        /\ \A j \in DOMAIN r : j # i => r[j].com # "RESTART"
      OBVIOUS
    <3>1. f[i] \in DOMAIN q /\ q[f[i]].com = "RESTART"
      BY <1>2
    <3>2. /\ mem
          /\ d.killed \/ \E j \in DOMAIN q : j < f[i] /\ q[j].com = "KILL"
          /\ \A j \in DOMAIN q : j # f[i] => q[j].com # "RESTART"
      BY <3>1 DEF Shape, Called
    <3>3. (\E j \in DOMAIN q : j < f[i] /\ q[j].com = "KILL") =>
             \E j \in DOMAIN r : j < i /\ r[j].com = "KILL"
      BY <1>4, <1>5
    <3>4. \A j \in DOMAIN r : j # i => r[j].com # "RESTART"
      BY <1>2, <1>4, <3>2
    <3> QED BY <3>2, <3>3, <3>4
  <2>3. q = <<>> => r = <<>>
    BY <1>1
  <2> QED BY <1>6, <2>1, <2>2, <2>3 DEF Shape, Called
<1>8. Told(n, d, r)
  <2>1. d.main # "down" /\ d.view = <<>> => r # <<>> /\ r[1].com = "CLUSTER"
    <3> SUFFICES ASSUME d.main # "down", d.view = <<>> PROVE r # <<>> /\ r[1].com = "CLUSTER"
      OBVIOUS
    <3>1. q # <<>> /\ q[1].com = "CLUSTER"
      BY DEF Shape, Told
    <3>2. 1 \in DOMAIN q
      BY <3>1 DEF Queue
    <3>3. PICK k \in DOMAIN r : f[k] = 1 /\ r[k] = q[1]
      BY <1>5, <3>1, <3>2
    <3>4. 1 \in DOMAIN r /\ r # <<>>
      BY <1>3, <3>3
    <3>5. k = 1
      <4>1. 1 < k => f[1] < f[k]
        BY <1>2, <3>3, <3>4
      <4>2. f[1] \in 1 .. Len(q) /\ k \in 1 .. Len(r)
        BY <1>3, <3>3, <3>4
      <4> QED BY <1>3, <3>3, <4>1, <4>2
    <3> QED BY <3>1, <3>3, <3>4, <3>5
  <2>2. \A i \in DOMAIN r : r[i].com = "RESTART" =>
          \/ \E j \in DOMAIN r : j < i /\ r[j].com = "CLUSTER"
          \/ ~Holds(r, "KILL") /\ (Head(d.view) = n => d.primary)
    <3> SUFFICES ASSUME NEW i \in DOMAIN r, r[i].com = "RESTART"
                 PROVE  \/ \E j \in DOMAIN r : j < i /\ r[j].com = "CLUSTER"
                        \/ ~Holds(r, "KILL") /\ (Head(d.view) = n => d.primary)
      OBVIOUS
    <3>1. f[i] \in DOMAIN q /\ q[f[i]].com = "RESTART"
      BY <1>2
    <3>2. \/ \E j \in DOMAIN q : j < f[i] /\ q[j].com = "CLUSTER"
          \/ ~Holds(q, "KILL") /\ (Head(d.view) = n => d.primary)
      BY <3>1 DEF Shape, Told
    <3>3. (\E j \in DOMAIN q : j < f[i] /\ q[j].com = "CLUSTER") =>
             \E j \in DOMAIN r : j < i /\ r[j].com = "CLUSTER"
      BY <1>4, <1>5
    <3> QED BY <1>6, <3>2, <3>3
  <2> QED BY <2>1, <2>2 DEF Shape, Told
<1> QED BY <1>7, <1>8 DEF Shape, r

\* A message that is not a call has been read.
LEMMA CalledTail ==
    ASSUME NEW w \in Nat, NEW q, Queue(q, w), q # <<>>, NEW mem, NEW d, Called(d, q, mem),
           Head(q).com \notin {"KILL", "RESTART"}
    PROVE  Called(d, Tail(q), mem)
<1> DEFINE r == Tail(q)
<1>1. /\ Queue(r, w) /\ Head(q) = q[1] /\ 1 \in DOMAIN q
      /\ \A i \in DOMAIN r : i + 1 \in DOMAIN q /\ r[i] = q[i + 1]
      /\ \A i \in DOMAIN q : i # 1 => i - 1 \in DOMAIN r /\ r[i - 1] = q[i]
  BY QueueTail
<1>2. /\ DOMAIN q = 1 .. Len(q) /\ Len(q) \in Nat
      /\ DOMAIN r = 1 .. Len(r) /\ Len(r) \in Nat
  BY <1>1 DEF Queue
<1> HIDE DEF r
<1>3. q[1].com \notin {"KILL", "RESTART"}
  BY <1>1
<1>4. \A i \in DOMAIN q : q[i].com \in {"KILL", "RESTART"} =>
         i - 1 \in DOMAIN r /\ r[i - 1] = q[i]
  BY <1>1, <1>3
<1>5. \A com : com \in {"KILL", "RESTART"} => (Holds(r, com) <=> Holds(q, com))
  BY <1>1, <1>4 DEF Holds
<1>6. Called(d, r, mem)
  <2>1. \A i \in DOMAIN r : r[i].com = "KILL" => \A j \in DOMAIN r :
          /\ j < i => r[j].com \in {"WRITE", "CKPT"}
          /\ j > i => r[j].com # "KILL"
    <3> SUFFICES ASSUME NEW i \in DOMAIN r, r[i].com = "KILL", NEW j \in DOMAIN r
                 PROVE  /\ j < i => r[j].com \in {"WRITE", "CKPT"}
                        /\ j > i => r[j].com # "KILL"
      OBVIOUS
    <3>1. i + 1 \in DOMAIN q /\ q[i + 1].com = "KILL" /\ j + 1 \in DOMAIN q /\ r[j] = q[j + 1]
      BY <1>1
    <3>2. /\ j + 1 < i + 1 => q[j + 1].com \in {"WRITE", "CKPT"}
          /\ j + 1 > i + 1 => q[j + 1].com # "KILL"
      BY <3>1 DEF Called
    <3> QED BY <1>2, <3>1, <3>2
  <2>2. \A i \in DOMAIN r : r[i].com = "RESTART" =>
          /\ mem
          /\ d.killed \/ \E j \in DOMAIN r : j < i /\ r[j].com = "KILL"
          /\ \A j \in DOMAIN r : j # i => r[j].com # "RESTART"
    <3> SUFFICES ASSUME NEW i \in DOMAIN r, r[i].com = "RESTART"
                 PROVE  /\ mem
                        /\ d.killed \/ \E j \in DOMAIN r : j < i /\ r[j].com = "KILL"
                        /\ \A j \in DOMAIN r : j # i => r[j].com # "RESTART"
      OBVIOUS
    <3>1. i + 1 \in DOMAIN q /\ q[i + 1].com = "RESTART"
      BY <1>1
    <3>2. /\ mem
          /\ d.killed \/ \E j \in DOMAIN q : j < i + 1 /\ q[j].com = "KILL"
          /\ \A j \in DOMAIN q : j # i + 1 => q[j].com # "RESTART"
      BY <3>1 DEF Called
    <3>3. (\E j \in DOMAIN q : j < i + 1 /\ q[j].com = "KILL") =>
             \E j \in DOMAIN r : j < i /\ r[j].com = "KILL"
      <4> SUFFICES ASSUME NEW j \in DOMAIN q, j < i + 1, q[j].com = "KILL"
                   PROVE  \E k \in DOMAIN r : k < i /\ r[k].com = "KILL"
        OBVIOUS
      <4>1. j - 1 \in DOMAIN r /\ r[j - 1] = q[j]
        BY <1>4
      <4> QED BY <1>2, <4>1
    <3>4. \A j \in DOMAIN r : j # i => r[j].com # "RESTART"
      <4> SUFFICES ASSUME NEW j \in DOMAIN r, j # i PROVE r[j].com # "RESTART"
        OBVIOUS
      <4>1. j + 1 \in DOMAIN q /\ r[j] = q[j + 1] /\ j + 1 # i + 1
        BY <1>1, <1>2
      <4> QED BY <3>2, <4>1
    <3> QED BY <3>2, <3>3, <3>4
  <2>3. q # <<>>
    OBVIOUS
  <2> QED BY <1>5, <2>1, <2>2, <2>3 DEF Called
<1> QED BY <1>6 DEF r

LEMMA ShapeTail ==
    ASSUME NEW w \in Nat, NEW q, Queue(q, w), q # <<>>, NEW n, NEW mem, NEW d, Shape(n, d, q, mem),
           Head(q).com \notin {"CLUSTER", "KILL", "RESTART"}
    PROVE  Shape(n, d, Tail(q), mem)
<1> DEFINE r == Tail(q)
<1>1. /\ Queue(r, w) /\ Head(q) = q[1] /\ 1 \in DOMAIN q
      /\ \A i \in DOMAIN r : i + 1 \in DOMAIN q /\ r[i] = q[i + 1]
      /\ \A i \in DOMAIN q : i # 1 => i - 1 \in DOMAIN r /\ r[i - 1] = q[i]
  BY QueueTail
<1>2. /\ DOMAIN q = 1 .. Len(q) /\ Len(q) \in Nat
      /\ DOMAIN r = 1 .. Len(r) /\ Len(r) \in Nat
  BY <1>1 DEF Queue
<1> HIDE DEF r
<1>3. q[1].com \notin {"CLUSTER", "KILL", "RESTART"}
  BY <1>1
<1>4. \A i \in DOMAIN q : q[i].com \in {"CLUSTER", "KILL", "RESTART"} =>
         i - 1 \in DOMAIN r /\ r[i - 1] = q[i]
  BY <1>1, <1>3
<1>5. \A com : com \in {"CLUSTER", "KILL", "RESTART"} => (Holds(r, com) <=> Holds(q, com))
  BY <1>1, <1>4 DEF Holds
<1>6. Called(d, r, mem)
  BY CalledTail DEF Shape, r
<1>7. Told(n, d, r)
  <2>1. d.main # "down" => d.view # <<>>
    BY <1>3 DEF Shape, Told
  <2>2. \A i \in DOMAIN r : r[i].com = "RESTART" =>
          \/ \E j \in DOMAIN r : j < i /\ r[j].com = "CLUSTER"
          \/ ~Holds(r, "KILL") /\ (Head(d.view) = n => d.primary)
    <3> SUFFICES ASSUME NEW i \in DOMAIN r, r[i].com = "RESTART"
                 PROVE  \/ \E j \in DOMAIN r : j < i /\ r[j].com = "CLUSTER"
                        \/ ~Holds(r, "KILL") /\ (Head(d.view) = n => d.primary)
      OBVIOUS
    <3>1. i + 1 \in DOMAIN q /\ q[i + 1].com = "RESTART"
      BY <1>1
    <3>2. \/ \E j \in DOMAIN q : j < i + 1 /\ q[j].com = "CLUSTER"
          \/ ~Holds(q, "KILL") /\ (Head(d.view) = n => d.primary)
      BY <3>1 DEF Shape, Told
    <3>3. (\E j \in DOMAIN q : j < i + 1 /\ q[j].com = "CLUSTER") =>
             \E j \in DOMAIN r : j < i /\ r[j].com = "CLUSTER"
      <4> SUFFICES ASSUME NEW j \in DOMAIN q, j < i + 1, q[j].com = "CLUSTER"
                   PROVE  \E k \in DOMAIN r : k < i /\ r[k].com = "CLUSTER"
        OBVIOUS
      <4>1. j - 1 \in DOMAIN r /\ r[j - 1] = q[j]
        BY <1>4
      <4> QED BY <1>2, <4>1
    <3> QED BY <1>5, <3>2, <3>3
  <2> QED BY <2>1, <2>2 DEF Shape, Told
<1> QED BY <1>6, <1>7 DEF Shape, r

\* A process that has changed nothing of what Shape looks at.
LEMMA ShapeSame ==
    ASSUME NEW n, NEW q, NEW mem, NEW d, NEW e, Shape(n, d, q, mem), d.main # "down",
           SameRole(e, d), e.stage = d.stage, e.view = d.view,
           e.conn = "join" <=> d.conn = "join",
           e.stage \in {"ask", "no"} => e.peer = d.peer
    PROVE  Shape(n, e, q, mem)
BY DEF Shape, Stages, Called, Told, SameRole

LEMMA ShapeCluster ==
    ASSUME NEW w \in Nat, NEW q, Queue(q, w), q # <<>>, NEW n, NEW mem, NEW d, Shape(n, d, q, mem),
           Head(q).com = "CLUSTER", d.main # "down",
           NEW e, e.main = d.main, e.killed = d.killed, SameSync(e, d), e.view = Head(q).list,
           e.primary = (d.primary \/ Head(e.view) = n),
           e.conn = "join" <=> d.conn = "join"
    PROVE  Shape(n, e, Tail(q), mem) /\ e.view # <<>>
<1>1. Sensible(Head(q), w) /\ Head(q) = q[1] /\ 1 \in DOMAIN q /\ Queue(Tail(q), w)
      /\ \A i \in DOMAIN Tail(q) : i + 1 \in DOMAIN q /\ Tail(q)[i] = q[i + 1]
  BY QueueTail
<1>2. e.view # <<>>
  BY <1>1 DEF Sensible
<1>3. Called(d, Tail(q), mem)
  BY CalledTail DEF Shape
<1>4. ~Holds(Tail(q), "KILL")
  <2> SUFFICES ASSUME NEW i \in DOMAIN Tail(q), Tail(q)[i].com = "KILL" PROVE FALSE
    BY DEF Holds
  <2>1. i + 1 \in DOMAIN q /\ q[i + 1].com = "KILL" /\ i \in Nat \ {0}
    BY <1>1 DEF Queue
  <2>2. 1 < i + 1 => q[1].com \in {"WRITE", "CKPT"}
    BY <1>1, <2>1 DEF Shape, Called
  <2> QED BY <1>1, <2>1, <2>2
<1>5. Called(e, Tail(q), mem)
  <2>1. d.main = "down" => FALSE
    OBVIOUS
  <2> QED BY <1>3, <2>1 DEF Called, SameSync
<1>6. Stages(n, e)
  BY DEF Shape, Stages, SameSync
<1>7. Told(n, e, Tail(q))
  BY <1>2, <1>4 DEF Told
<1> QED BY <1>2, <1>5, <1>6, <1>7 DEF Shape

LEMMA ShapeKilled ==
    ASSUME NEW w \in Nat, NEW q, Queue(q, w), q # <<>>, NEW n, NEW mem, NEW d, Shape(n, d, q, mem),
           Head(q).com = "KILL", d.main \in {"wait", "join", "run"},
           NEW e, e.main = d.main, e.killed, SameSync(e, d), e.view = d.view,
           e.conn = "join" <=> d.conn = "join"
    PROVE  Shape(n, e, Tail(q), mem)
<1> DEFINE r == Tail(q)
<1>1. /\ Head(q) = q[1] /\ 1 \in DOMAIN q /\ Queue(r, w)
      /\ \A i \in DOMAIN r : i + 1 \in DOMAIN q /\ r[i] = q[i + 1]
      /\ \A i \in DOMAIN q : i # 1 => i - 1 \in DOMAIN r /\ r[i - 1] = q[i]
  BY QueueTail
<1>2. /\ DOMAIN q = 1 .. Len(q) /\ Len(q) \in Nat
      /\ DOMAIN r = 1 .. Len(r) /\ Len(r) \in Nat
  BY <1>1 DEF Queue
<1> HIDE DEF r
<1>3. Holds(q, "KILL") /\ q[1].com = "KILL"
  BY <1>1 DEF Holds
<1>4. ~d.killed /\ d.main = "run" /\ d.stage = "no"
  BY <1>3 DEF Shape, Stages, Called, Process
<1>5. ~Holds(r, "KILL")
  <2> SUFFICES ASSUME NEW i \in DOMAIN r, r[i].com = "KILL" PROVE FALSE
    BY DEF Holds
  <2>1. i + 1 \in DOMAIN q /\ q[i + 1].com = "KILL" /\ i + 1 > 1
    BY <1>1, <1>2
  <2> QED BY <1>1, <1>3, <2>1 DEF Shape, Called
<1>6. ASSUME NEW i \in DOMAIN r, r[i].com = "RESTART"
      PROVE  /\ mem
             /\ \A j \in DOMAIN r : j # i => r[j].com # "RESTART"
             /\ \E j \in DOMAIN r : j < i /\ r[j].com = "CLUSTER"
  <2>1. i + 1 \in DOMAIN q /\ q[i + 1].com = "RESTART"
    BY <1>1, <1>6
  <2>2. mem /\ \A j \in DOMAIN q : j # i + 1 => q[j].com # "RESTART"
    BY <2>1 DEF Shape, Called
  <2>3. PICK j \in DOMAIN q : j < i + 1 /\ q[j].com = "CLUSTER"
    BY <1>3, <2>1 DEF Shape, Told
  <2>4. j # 1 /\ j - 1 \in DOMAIN r /\ r[j - 1] = q[j]
    BY <1>1, <1>3, <2>3
  <2>5. \A k \in DOMAIN r : k # i => r[k].com # "RESTART"
    <3> SUFFICES ASSUME NEW k \in DOMAIN r, k # i PROVE r[k].com # "RESTART"
      OBVIOUS
    <3>1. k + 1 \in DOMAIN q /\ k + 1 # i + 1 /\ r[k] = q[k + 1]
      BY <1>1, <1>2
    <3> QED BY <2>2, <3>1
  <2> QED BY <1>2, <2>2, <2>3, <2>4, <2>5
<1>7. mem => Holds(r, "RESTART")
  <2> SUFFICES ASSUME mem PROVE Holds(r, "RESTART")
    OBVIOUS
  <2>1. PICK i \in DOMAIN q : q[i].com = "RESTART"
    BY <1>3 DEF Shape, Called, Holds
  <2>2. i - 1 \in DOMAIN r /\ r[i - 1] = q[i]
    BY <1>1, <1>3, <2>1
  <2> QED BY <2>1, <2>2 DEF Holds
<1>8. Stages(n, e)
  BY DEF Shape, Stages, SameSync
<1>9. Called(e, r, mem)
  <2>1. e.main = "run" /\ e.stage = "no"
    BY <1>4 DEF SameSync
  <2>2. \A i \in DOMAIN r : r[i].com # "KILL"
    BY <1>5 DEF Holds
  <2> QED BY <1>5, <1>6, <1>7, <2>1, <2>2 DEF Called
<1>10. Told(n, e, r)
  <2>1. e.view # <<>>
    BY <1>3 DEF Shape, Told
  <2>2. e.main = "run"
    BY <1>4
  <2> QED BY <1>6, <2>1, <2>2 DEF Told
<1> QED BY <1>8, <1>9, <1>10 DEF Shape, r

\* RESTART has been read: the node either runs again, or is to be synchronised.
LEMMA ShapeRestarted ==
    ASSUME NEW w \in Nat, NEW q, Queue(q, w), q # <<>>, NEW n, NEW mem, NEW d, Shape(n, d, q, mem),
           Head(q).com = "RESTART", d.main # "down", d.killed,
           NEW e, e.main = d.main, ~e.killed, e.view = d.view, Stages(n, e)
    PROVE  /\ Shape(n, e, Tail(q), mem)
           /\ mem /\ d.main = "run" /\ d.stage = "no" /\ d.view # <<>> /\ (Head(d.view) = n => d.primary)
<1> DEFINE r == Tail(q)
<1>1. /\ Head(q) = q[1] /\ 1 \in DOMAIN q /\ Queue(r, w)
      /\ \A i \in DOMAIN r : i + 1 \in DOMAIN q /\ r[i] = q[i + 1]
  BY QueueTail
<1>2. /\ DOMAIN q = 1 .. Len(q) /\ Len(q) \in Nat
      /\ DOMAIN r = 1 .. Len(r) /\ Len(r) \in Nat
  BY <1>1 DEF Queue
<1> HIDE DEF r
<1>3. q[1].com = "RESTART"
  BY <1>1
<1>4. /\ mem /\ \A j \in DOMAIN q : j # 1 => q[j].com # "RESTART"
      /\ d.main = "run" /\ ~Holds(q, "KILL") /\ d.stage = "no"
  BY <1>1, <1>3 DEF Shape, Called
<1>5. d.view # <<>> /\ (Head(d.view) = n => d.primary)
  <2>1. ~\E j \in DOMAIN q : j < 1 /\ q[j].com = "CLUSTER"
    BY <1>2
  <2> QED BY <1>1, <1>3, <2>1 DEF Shape, Told
<1>6. \A i \in DOMAIN r : r[i].com \notin {"KILL", "RESTART"}
  <2> SUFFICES ASSUME NEW i \in DOMAIN r PROVE r[i].com \notin {"KILL", "RESTART"}
    OBVIOUS
  <2>1. i + 1 \in DOMAIN q /\ i + 1 # 1 /\ r[i] = q[i + 1]
    BY <1>1, <1>2
  <2> QED BY <1>4, <2>1 DEF Holds
<1>7. Called(e, r, mem) /\ Told(n, e, r)
  BY <1>4, <1>5, <1>6 DEF Called, Told, Holds
<1> QED BY <1>4, <1>5, <1>7 DEF Shape, r

\* A message of another kind than SYNC, or a SYNC of another node, arrives; a
\* message is read; those of a dead node disappear.
LEMMA AsksAppend ==
    ASSUME NEW w \in Nat, NEW q, Queue(q, w), NEW m \in Letter, Sensible(m, w),
           NEW n, NEW dn, NEW p, NEW dp, Asks(n, dn, p, dp, q), m.com # "SYNC" \/ m.from # n
    PROVE  Asks(n, dn, p, dp, Append(q, m))
<1>1. \A i \in DOMAIN Append(q, m) : Append(q, m)[i].com = "SYNC" /\ Append(q, m)[i].from = n =>
         i \in DOMAIN q /\ Append(q, m)[i] = q[i]
  BY QueueAppend
<1>2. \A i \in DOMAIN q : Append(q, m)[i] = q[i]
  BY QueueAppend
<1> QED BY <1>1, <1>2 DEF Asks

LEMMA AsksTail ==
    ASSUME NEW w \in Nat, NEW q, Queue(q, w), q # <<>>,
           NEW n, NEW dn, NEW p, NEW dp, Asks(n, dn, p, dp, q)
    PROVE  /\ Asks(n, dn, p, dp, Tail(q))
           /\ Head(q).com = "SYNC" /\ Head(q).from = n =>
                 \A j \in DOMAIN Tail(q) : Tail(q)[j].com # "SYNC" \/ Tail(q)[j].from # n
<1> DEFINE r == Tail(q)
<1>1. /\ Head(q) = q[1] /\ 1 \in DOMAIN q /\ Queue(r, w)
      /\ \A i \in DOMAIN r : i + 1 \in DOMAIN q /\ r[i] = q[i + 1]
  BY QueueTail
<1>2. DOMAIN r = 1 .. Len(r) /\ Len(r) \in Nat
  BY <1>1 DEF Queue
<1> HIDE DEF r
<1>3. \A i, j \in DOMAIN r : i + 1 \in DOMAIN q /\ (i # j => i + 1 # j + 1) /\ i + 1 # 1
  BY <1>1, <1>2
<1>4. Asks(n, dn, p, dp, r)
  <2> SUFFICES ASSUME NEW i \in DOMAIN r, r[i].com = "SYNC" /\ r[i].from = n
               PROVE  /\ n # p /\ dn.stage = "log" /\ dn.peer = p /\ dn.link = None
                      /\ dp.main # "wait"
                      /\ \A j \in DOMAIN r : j # i => r[j].com # "SYNC" \/ r[j].from # n
    BY DEF Asks
  <2>1. i + 1 \in DOMAIN q /\ q[i + 1].com = "SYNC" /\ q[i + 1].from = n
    BY <1>1
  <2>2. /\ n # p /\ dn.stage = "log" /\ dn.peer = p /\ dn.link = None
        /\ dp.main # "wait"
        /\ \A j \in DOMAIN q : j # i + 1 => q[j].com # "SYNC" \/ q[j].from # n
    BY <2>1 DEF Asks
  <2> QED BY <1>1, <1>3, <2>2
<1>5. Head(q).com = "SYNC" /\ Head(q).from = n =>
         \A j \in DOMAIN r : r[j].com # "SYNC" \/ r[j].from # n
  BY <1>1, <1>3 DEF Asks
<1> QED BY <1>4, <1>5 DEF r

LEMMA AsksUnasked ==
    ASSUME NEW w \in Nat, NEW q, Queue(q, w), NEW x,
           NEW n, NEW dn, NEW p, NEW dp, Asks(n, dn, p, dp, q)
    PROVE  /\ Asks(n, dn, p, dp, Unasked(q, x))
           /\ \A j \in DOMAIN Unasked(q, x) :
                 Unasked(q, x)[j].com # "SYNC" \/ Unasked(q, x)[j].from # x
<1> DEFINE r == Unasked(q, x)
<1>1. \E f \in [DOMAIN r -> DOMAIN q] :
            /\ \A k \in DOMAIN r :
                  /\ r[k] = q[f[k]]
                  /\ q[f[k]].com # "SYNC" \/ q[f[k]].from # x
            /\ \A j, k \in DOMAIN r : j < k => f[j] < f[k]
            /\ \A i \in DOMAIN q : q[i].com # "SYNC" \/ q[i].from # x =>
                  \E k \in DOMAIN r : f[k] = i
  BY QueuePick
<1>q. Queue(r, w)
  BY QueuePick
<1> HIDE DEF r
<1>2. PICK f \in [DOMAIN r -> DOMAIN q] :
            /\ \A k \in DOMAIN r :
                  /\ r[k] = q[f[k]]
                  /\ q[f[k]].com # "SYNC" \/ q[f[k]].from # x
            /\ \A j, k \in DOMAIN r : j < k => f[j] < f[k]
  BY <1>1
<1>3. \A j, k \in DOMAIN r : j # k => f[j] # f[k]
  <2> SUFFICES ASSUME NEW j \in DOMAIN r, NEW k \in DOMAIN r, j # k PROVE f[j] # f[k]
    OBVIOUS
  <2>1. j \in Nat /\ k \in Nat /\ f[j] \in Nat /\ f[k] \in Nat
    <3>1. DOMAIN r = 1 .. Len(r) /\ DOMAIN q = 1 .. Len(q) /\ Len(q) \in Nat /\ Len(r) \in Nat
      BY <1>q DEF Queue
    <3> QED BY <3>1
  <2>2. (j < k => f[j] < f[k]) /\ (k < j => f[k] < f[j])
    BY <1>2
  <2> QED BY <2>1, <2>2
<1>4. Asks(n, dn, p, dp, r)
  BY <1>2, <1>3 DEF Asks
<1>5. \A j \in DOMAIN r : r[j].com # "SYNC" \/ r[j].from # x
  BY <1>2
<1> QED BY <1>4, <1>5 DEF r

------------------------------------------------------------------------------
(* Steps of one process.                                                   *)

LEMMA Later ==
    ASSUME NEW w \in Nat, NEW v \in Nat, w <= v
    PROVE  /\ \A q : Queue(q, w) => Queue(q, v)
           /\ \A d : Proc(d, w) => Proc(d, v)
<1>1. \A m \in Letter : Sensible(m, w) => Sensible(m, v)
  <2> SUFFICES ASSUME NEW m \in Letter, Sensible(m, w) PROVE Sensible(m, v)
    OBVIOUS
  <2>1. m.write \in Write => m.write.val \in Nat
    BY GroupBounds DEF Write
  <2> QED BY <2>1 DEF Sensible
<1>2. \A q : Queue(q, w) => Queue(q, v)
  BY <1>1 DEF Queue
<1>3. \A d : Proc(d, w) => Proc(d, v)
  <2> SUFFICES ASSUME NEW d, Proc(d, w) PROVE Proc(d, v)
    OBVIOUS
  <2>1. d.cur \in Write => d.cur.val \in Nat
    BY GroupBounds DEF Write
  <2> QED BY <2>1 DEF Proc
<1> QED BY <1>2, <1>3

LEMMA BasicFacts ==
    ASSUME Basic, NEW n \in Nodes
    PROVE  /\ Proc(node[n], sent) /\ Queue(inbox[n], sent) /\ disk[n] \in DiskType
           /\ Shape(n, node[n], inbox[n], Member(n))
           /\ sent \in Nat /\ sent <= MaxWrites /\ acked \in Nat /\ acked <= sent
           /\ DOMAIN node = Nodes /\ DOMAIN inbox = Nodes /\ DOMAIN disk = Nodes
           /\ node[n].main \in {"down", "wait", "join", "run"}
           /\ alive \in Seq(Nodes)
           /\ disk = [disk EXCEPT ![n] = disk[n]]
<1>1. Proc(node[n], sent)
  BY DEF Basic, TypeInv
<1>2. disk \in [Nodes -> DiskType] => disk = [disk EXCEPT ![n] = disk[n]]
  OBVIOUS
<1> QED BY <1>1, <1>2, FieldTypes DEF Basic, TypeInv

LEMMA LocalStep ==
    ASSUME Basic, NEW n \in Nodes, NEW e, NEW dk \in DiskType,
           node' = [node EXCEPT ![n] = e], disk' = [disk EXCEPT ![n] = dk],
           alive' = alive, last' = last, faults' = faults,
           sent' \in Nat, sent <= sent', sent' <= MaxWrites, acked' \in Nat, acked' <= sent',
           Proc(e, sent'),
           inbox' = inbox \/ (inbox[n] # <<>> /\ inbox' = Unread(n)),
           Shape(n, e, inbox'[n], Member(n)),
           node[n].stage = "log" /\ node[n].link = None => SameSync(e, node[n]),
           e.main = "wait" => node[n].main = "wait"
    PROVE  Basic'
<1> PICK v : v = sent'
  OBVIOUS
<1>0. v \in Nat /\ sent \in Nat /\ sent <= v
  BY BasicFacts
<1>1. \A m \in Nodes : inbox'[m] = inbox[m] \/ (inbox[m] # <<>> /\ inbox'[m] = Tail(inbox[m]))
  BY BasicFacts DEF Unread
<1>2. \A m \in Nodes : m # n => inbox'[m] = inbox[m] /\ node'[m] = node[m]
  BY BasicFacts DEF Unread
<1>3. node'[n] = e /\ DOMAIN node' = Nodes /\ DOMAIN inbox' = Nodes
  BY BasicFacts DEF Unread
<1>4. \A m \in Nodes : Queue(inbox'[m], v)
  <2> SUFFICES ASSUME NEW m \in Nodes PROVE Queue(inbox'[m], v)
    OBVIOUS
  <2>1. Queue(inbox[m], sent)
    BY BasicFacts
  <2>2. inbox[m] # <<>> => Queue(Tail(inbox[m]), sent)
    BY <1>0, <2>1, QueueTail
  <2>3. Queue(inbox'[m], sent)
    BY <1>1, <2>1, <2>2
  <2> QED BY <1>0, <2>3, Later
<1>5. \A m \in Nodes : Proc(node'[m], v)
  <2> SUFFICES ASSUME NEW m \in Nodes PROVE Proc(node'[m], v)
    OBVIOUS
  <2>1. Proc(node[m], v)
    BY <1>0, BasicFacts, Later
  <2> QED BY <1>2, <1>3, <2>1
<1>6. TypeInv'
  <2>1. disk' \in [Nodes -> DiskType]
    BY DEF Basic, TypeInv
  <2> QED BY <1>3, <1>4, <1>5, <2>1 DEF Basic, TypeInv
<1>7. \A m \in Nodes : Shape(m, node'[m], inbox'[m], Member(m)')
  <2> SUFFICES ASSUME NEW m \in Nodes PROVE Shape(m, node'[m], inbox'[m], Member(m)')
    OBVIOUS
  <2>1. Member(m)' = Member(m)
    BY DEF Member
  <2>2. CASE m = n
    BY <1>3, <2>1, <2>2
  <2>3. CASE m # n
    BY <1>2, <2>1, <2>3 DEF Basic
  <2> QED BY <2>2, <2>3
<1>8. \A x, p \in Nodes : Asks(x, node'[x], p, node'[p], inbox'[p])
  <2> SUFFICES ASSUME NEW x \in Nodes, NEW p \in Nodes
               PROVE  Asks(x, node'[x], p, node'[p], inbox'[p])
    OBVIOUS
  <2>1. Asks(x, node[x], p, node[p], inbox[p]) /\ Queue(inbox[p], sent)
    BY BasicFacts DEF Basic
  <2>2. inbox[p] # <<>> => Asks(x, node[x], p, node[p], Tail(inbox[p]))
    BY <1>0, <2>1, AsksTail
  <2>3. Asks(x, node[x], p, node[p], inbox'[p])
    BY <1>1, <2>1, <2>2
  <2>4. node[x].stage = "log" /\ node[x].link = None => SameSync(node'[x], node[x])
    BY <1>2, <1>3 DEF SameSync
  <2>5. node'[p].main = "wait" => node[p].main = "wait"
    BY <1>2, <1>3
  <2> QED BY <2>3, <2>4, <2>5 DEF Asks, SameSync
<1> QED BY <1>6, <1>7, <1>8 DEF Basic

\* The end of a message, read from the inbox or sent by a client, or of the
\* work that it began.
LEMMA EndingStep ==
    ASSUME Basic, NEW n \in Nodes, node[n].main # "down", NEW nd, NEW dk \in DiskType,
           EndMessage(n, nd, dk), Proc(nd, sent'),
           alive' = alive, last' = last, faults' = faults,
           sent' \in Nat, sent <= sent', sent' <= MaxWrites, acked' \in Nat, acked' <= sent',
           inbox' = inbox \/ (inbox[n] # <<>> /\ inbox' = Unread(n)),
           node[n].conn # "join" => nd.conn # "join",
           \A e : Ended(n, e, nd) => Shape(n, e, inbox'[n], Member(n)),
           SameSync(nd, node[n]), nd.main = node[n].main
    PROVE  Basic'
<1> PICK v : v = sent'
  OBVIOUS
<1>1. PICK e : /\ Proc(e, v) /\ Ended(n, e, nd)
               /\ node' = [node EXCEPT ![n] = e] /\ disk' = [disk EXCEPT ![n] = dk]
  <2>1. Proc(nd, v)
    OBVIOUS
  <2> QED BY ONLY <2>1, n \in Nodes, EndMessage(n, nd, dk), EndMessageIs
<1>2. SameSync(e, node[n]) /\ e.main = node[n].main
  BY <1>1 DEF Ended, SameSync, SameRole
<1>3. Shape(n, e, inbox'[n], Member(n))
  BY <1>1
<1> QED BY <1>1, <1>2, <1>3, LocalStep

\* A process that was not waiting for its log was not told to wait for it.
LEMMA NotJoining ==
    ASSUME Basic, NEW n \in Nodes, node[n].main # "down", node[n].conn # "join",
           NEW e, SameRole(e, node[n]), SameSync(e, node[n]), e.view = node[n].view, e.conn # "join"
    PROVE  Shape(n, e, inbox[n], Member(n))
<1>1. Shape(n, node[n], inbox[n], Member(n))
  BY BasicFacts
<1> QED BY <1>1, ShapeSame DEF SameSync

\* What EndMessage leaves of a process, for Shape.
LEMMA EndedShape ==
    ASSUME Basic, NEW n \in Nodes, node[n].main # "down", node[n].conn # "join", NEW nd,
           SameRole(nd, node[n]), SameSync(nd, node[n]), nd.view = node[n].view,
           NEW e, Ended(n, e, nd)
    PROVE  Shape(n, e, inbox[n], Member(n))
<1>1. SameRole(e, node[n]) /\ SameSync(e, node[n]) /\ e.view = node[n].view /\ e.conn # "join"
  BY DEF Ended, SameRole, SameSync
<1> QED BY <1>1, NotJoining

LEMMA EndedUnread ==
    ASSUME Basic, NEW n \in Nodes, node[n].main # "down", node[n].conn # "join", NEW nd,
           SameRole(nd, node[n]), SameSync(nd, node[n]), nd.view = node[n].view,
           inbox[n] # <<>>, Head(inbox[n]).com \notin {"CLUSTER", "KILL", "RESTART"},
           NEW e, Ended(n, e, nd)
    PROVE  Shape(n, e, Tail(inbox[n]), Member(n))
<1>1. /\ SameRole(e, node[n]) /\ SameSync(e, node[n]) /\ e.view = node[n].view /\ e.conn # "join"
  BY DEF Ended, SameRole, SameSync
<1>2. Shape(n, node[n], inbox[n], Member(n)) /\ Queue(inbox[n], sent) /\ sent \in Nat
  BY BasicFacts
<1>3. Shape(n, node[n], Tail(inbox[n]), Member(n))
  BY <1>2, ShapeTail
<1> QED BY <1>1, <1>3, ShapeSame DEF SameSync

LEMMA CheckpointedIs ==
    ASSUME NEW w, NEW d, Proc(d, w), NEW dk \in DiskType
    PROVE  Checkpointed(d, dk) \in DiskType
<1>1. Value(d, dk) \in Val /\ d.seq \in Nat
  BY FieldTypes DEF Value, DiskType
<1>2. <<>> \in Seq(Record)
  OBVIOUS
<1> QED BY <1>1, <1>2 DEF Checkpointed, DiskType, LogType

LEMMA ReplayedIs ==
    ASSUME NEW w, NEW d, Proc(d, w), NEW log \in LogType
    PROVE  /\ Proc(Replayed(d, log), w)
           /\ SameRole(Replayed(d, log), d) /\ SameSync(Replayed(d, log), d)
           /\ SameWork(Replayed(d, log), d)
           /\ Replayed(d, log).view = d.view /\ Replayed(d, log).serving = d.serving
           /\ Replayed(d, log).seq = log.ckpt + Len(log.ents)
           /\ Replayed(d, log).update = IF log.ents = <<>> THEN None ELSE log.ents[Len(log.ents)].val
<1> DEFINE u == IF log.ents = <<>> THEN None ELSE Last(log.ents).val
           c == log.ckpt + Len(log.ents)
           e == [d EXCEPT !.seq = c, !.update = u]
<1>0. d \in Process
  BY DEF Proc
<1>1. Replayed(d, log) = e
  BY DEF Replayed
<1>2. log.ckpt \in Nat /\ log.ents \in Seq(Record) /\ Len(log.ents) \in Nat /\ c \in Nat
  BY DEF LogType
<1>3. log.ents # <<>> => Last(log.ents) = log.ents[Len(log.ents)] /\ log.ents[Len(log.ents)] \in Record
  BY <1>2 DEF Last
<1>4. u \in Val \cup {None}
  BY <1>3 DEF Record
<1>5. u = IF log.ents = <<>> THEN None ELSE log.ents[Len(log.ents)].val
  BY <1>3
<1>c. c = log.ckpt + Len(log.ents)
  OBVIOUS
<1> HIDE DEF u, c
<1>6. /\ e \in Process /\ e.seq = c /\ e.update = u
      /\ SameRole(e, d) /\ SameSync(e, d) /\ SameWork(e, d) /\ e.view = d.view /\ e.serving = d.serving
  BY <1>0, <1>2, <1>4 DEF Process, SameRole, SameSync, SameWork
<1> HIDE DEF e
<1>7. Proc(e, w)
  BY <1>6 DEF Proc, SameSync, SameWork
<1> QED BY <1>1, <1>5, <1>6, <1>7, <1>c

LEMMA InitialIs ==
    ASSUME NEW w, NEW d, Proc(d, w), NEW dk \in DiskType
    PROVE  /\ Proc(Initial(d, dk), w) /\ WithLog(d, dk) \in DiskType
           /\ SameRole(Initial(d, dk), d) /\ SameSync(Initial(d, dk), d)
           /\ SameWork(Initial(d, dk), d)
           /\ Initial(d, dk).view = d.view /\ Initial(d, dk).serving = d.serving
<1>1. dk.log \in LogType /\ dk.base \in Val
  BY DEF DiskType
<1>2. [state |-> "ok", ckpt |-> d.seq, ents |-> <<>>] \in LogType
  <2>1. d.seq \in Nat
    BY FieldTypes
  <2>2. <<>> \in Seq(Record)
    OBVIOUS
  <2> QED BY <2>1, <2>2 DEF LogType
<1>3. WithLog(d, dk) \in DiskType
  BY <1>1, <1>2 DEF WithLog, DiskType
<1>4. SameRole(d, d) /\ SameSync(d, d) /\ SameWork(d, d)
  BY DEF SameRole, SameSync, SameWork
<1>5. CASE dk.log.state = "absent"
  BY <1>3, <1>4, <1>5 DEF Initial
<1>6. CASE dk.log.state # "absent"
  BY <1>1, <1>3, <1>6, ReplayedIs DEF Initial
<1> QED BY <1>5, <1>6

\* forward_to_secondary is about to begin.
Forwarding(n, e, nd, w) ==
    /\ SameRole(e, nd) /\ SameSync(e, nd) /\ SameCache(e, nd)
    /\ e.view = nd.view /\ e.serving = nd.serving
    /\ e.conn = "forward" /\ e.cur = w /\ e.todo = Others(nd, n)

LEMMA RunWriteForwards ==
    ASSUME Basic, NEW n \in Nodes, NEW x \in Write, RunWrite(n, x), node[n].primary,
           NEW v \in Nat, sent <= v, x.val <= v
    PROVE  /\ disk' = disk
           /\ \E e : Forwarding(n, e, node[n], x) /\ Proc(e, v) /\ node' = [node EXCEPT ![n] = e]
<1> DEFINE d == node[n]
           t == Others(d, n)
           e == [d EXCEPT !.conn = "forward", !.cur = x, !.todo = t]
<1>0. d \in Process /\ Proc(d, v) /\ d.view \in Seq(Nodes)
  BY BasicFacts, FieldTypes, Later DEF Proc
<1>1. t \in Seq(Nodes)
  BY <1>0, WithoutIs DEF Others
<1>2. disk' = disk /\ node' = [node EXCEPT ![n].conn = "forward", ![n].cur = x, ![n].todo = t]
  BY DEF RunWrite
<1>3. DOMAIN node = Nodes
  BY BasicFacts
<1>t. t = Others(d, n)
  OBVIOUS
<1> HIDE DEF t
<1>4. node' = [node EXCEPT ![n] = e]
  BY <1>2, <1>3
<1>5. e \in Process /\ Forwarding(n, e, d, x)
  BY ZenonT(60), <1>0, <1>1, <1>t DEF Process, Forwarding, SameRole, SameSync, SameCache
<1> HIDE DEF e
<1>6. Proc(e, v)
  BY <1>0, <1>5 DEF Proc, Forwarding, SameSync
<1> QED BY <1>2, <1>4, <1>5, <1>6

LEMMA SameProcess == \A d : SameRole(d, d) /\ SameSync(d, d) /\ SameCache(d, d) /\ SameWork(d, d)
BY DEF SameRole, SameSync, SameCache, SameWork

LEMMA ClientReadBasic == ASSUME Basic, NEW n \in Nodes, ClientRead(n) PROVE Basic'
<1>1. /\ EndMessage(n, node[n], disk[n]) /\ node[n].main = "run" /\ node[n].conn = "idle"
      /\ UNCHANGED <<alive, last, inbox, sent, acked, faults>>
  BY DEF ClientRead, Serves
<1>2. Proc(node[n], sent) /\ disk[n] \in DiskType /\ sent \in Nat /\ sent <= MaxWrites
      /\ acked \in Nat /\ acked <= sent
  BY BasicFacts
<1>3. \A e : Ended(n, e, node[n]) => Shape(n, e, inbox[n], Member(n))
  BY <1>1, EndedShape, SameProcess
<1> QED BY <1>1, <1>2, <1>3, EndingStep, SameProcess

LEMMA EndServeBasic == ASSUME Basic, NEW n \in Nodes, EndServe(n) PROVE Basic'
<1>1. /\ EndMessage(n, node[n], disk[n]) /\ node[n].conn = "serve"
      /\ UNCHANGED <<alive, last, inbox, sent, acked, faults>>
  BY DEF EndServe
<1>2. Proc(node[n], sent) /\ disk[n] \in DiskType /\ sent \in Nat /\ sent <= MaxWrites
      /\ acked \in Nat /\ acked <= sent
  BY BasicFacts
<1>u. node[n].main # "down"
  BY <1>1, BasicFacts DEF Shape, Called, Down, Fresh
<1>3. \A e : Ended(n, e, node[n]) => Shape(n, e, inbox[n], Member(n))
  BY <1>1, <1>u, EndedShape, SameProcess
<1> QED BY <1>1, <1>2, <1>3, <1>u, EndingStep, SameProcess

\* What a command expects is a value a client can have sent, or nothing.
LEMMA ExpectedIs ==
    ASSUME NEW n \in Nodes, Proc(node[n], sent), disk[n] \in DiskType,
           sent \in Nat, sent <= MaxWrites, NEW prev \in Expected(n)
    PROVE  prev \in Val \cup {None}
<1>1. Table(n) \in Val \cup {None}
  BY FieldTypes DEF Table, Value, DiskType
<1>2. CASE prev \in {None, Table(n)}
  BY <1>1, <1>2
<1>3. CASE prev \in 0 .. sent
  BY <1>3, GroupBounds DEF Val
<1> QED BY <1>2, <1>3 DEF Expected

LEMMA ClientWriteBasic == ASSUME Basic, NEW n \in Nodes, ClientWrite(n) PROVE Basic'
<1>1. PICK prev \in Expected(n) : RunWrite(n, [val |-> sent + 1, prev |-> prev, client |-> TRUE])
  BY DEF ClientWrite
<1>2. /\ node[n].main = "run" /\ node[n].conn = "idle" /\ node[n].primary
      /\ sent < MaxWrites /\ sent' = sent + 1
      /\ UNCHANGED <<alive, last, inbox, acked, faults>>
  BY DEF ClientWrite, Serves
<1>3. Proc(node[n], sent) /\ disk[n] \in DiskType /\ sent \in Nat /\ sent <= MaxWrites
      /\ acked \in Nat /\ acked <= sent
  BY BasicFacts
<1> DEFINE x == [val |-> sent + 1, prev |-> prev, client |-> TRUE]
<1>4. x \in Write /\ x.val = sent + 1
  <2>1. prev \in Val \cup {None}
    BY <1>1, <1>3, ExpectedIs
  <2>2. sent + 1 \in 1 .. MaxWrites
    BY <1>2, <1>3, GroupBounds
  <2> QED BY <2>1, <2>2 DEF Write, Val
<1>5. RunWrite(n, x)
  BY <1>1
<1> HIDE DEF x
<1>v. sent + 1 \in Nat /\ sent <= sent + 1 /\ x.val <= sent + 1
  BY <1>3, <1>4
<1>6. /\ disk' = disk
      /\ \E e : Forwarding(n, e, node[n], x) /\ Proc(e, sent + 1) /\ node' = [node EXCEPT ![n] = e]
  BY <1>2, <1>4, <1>5, <1>v, RunWriteForwards
<1>7. PICK e : Forwarding(n, e, node[n], x) /\ Proc(e, sent + 1) /\ node' = [node EXCEPT ![n] = e]
  BY <1>6
<1>8. /\ SameRole(e, node[n]) /\ SameSync(e, node[n]) /\ e.view = node[n].view /\ e.conn = "forward"
  BY <1>7 DEF Forwarding
<1>9. Shape(n, e, inbox[n], Member(n))
  BY <1>2, <1>8, NotJoining
<1>10. disk' = [disk EXCEPT ![n] = disk[n]]
  BY <1>6, BasicFacts
<1>11. e.main = "wait" => node[n].main = "wait"
  BY <1>8 DEF SameRole
<1>12. sent' \in Nat /\ sent <= sent' /\ sent' <= MaxWrites /\ acked' \in Nat /\ acked' <= sent'
  BY <1>2, <1>3, GroupBounds
<1> QED BY <1>2, <1>3, <1>7, <1>8, <1>9, <1>10, <1>11, <1>12, LocalStep

LEMMA Forwarder ==
    ASSUME Basic, NEW n \in Nodes, node[n].conn = "forward"
    PROVE  node[n].main # "down" /\ node[n].cur \in Write /\ node[n].cur.val <= sent
BY BasicFacts DEF Shape, Called, Down, Fresh, Proc

LEMMA ApplyWriteBasic == ASSUME Basic, NEW n \in Nodes, ApplyWrite(n) PROVE Basic'
<1> DEFINE x == node[n].cur
           nd == Applied(node[n], disk[n], x)
           dk == Logged(node[n], disk[n], x)
<1>1. /\ EndMessage(n, nd, dk) /\ node[n].conn = "forward"
      /\ acked' \in {x.val, acked}
      /\ UNCHANGED <<alive, last, inbox, sent, faults>>
  BY DEF ApplyWrite
<1>2. Proc(node[n], sent) /\ disk[n] \in DiskType /\ sent \in Nat /\ sent <= MaxWrites
      /\ acked \in Nat /\ acked <= sent
  BY BasicFacts
<1>3. node[n].main # "down" /\ x \in Write /\ x.val \in Nat /\ x.val <= sent
  BY <1>1, Forwarder, GroupBounds DEF Write
<1>4. /\ Proc(nd, sent) /\ dk \in DiskType
      /\ SameRole(nd, node[n]) /\ SameSync(nd, node[n]) /\ SameWork(nd, node[n]) /\ nd.view = node[n].view
  BY <1>2, <1>3, AppliedIs
<1> HIDE DEF nd, dk
<1>5. \A e : Ended(n, e, nd) => Shape(n, e, inbox[n], Member(n))
  BY <1>1, <1>3, <1>4, EndedShape
<1>6. nd.conn # "join" /\ nd.main = node[n].main
  BY <1>1, <1>4 DEF SameWork, SameRole
<1> QED BY <1>1, <1>2, <1>3, <1>4, <1>5, <1>6, EndingStep

LEMMA CheckpointBasic == ASSUME Basic, NEW n \in Nodes, Checkpoint(n) PROVE Basic'
<1> DEFINE d == node[n]
           e == [d EXCEPT !.conn = "idle"]
           dk == Checkpointed(d, disk[n])
<1>1. /\ d.conn = "ckpt" /\ node' = [node EXCEPT ![n].conn = "idle"]
      /\ disk' = [disk EXCEPT ![n] = Checkpointed(d, @)]
      /\ UNCHANGED <<alive, last, inbox, sent, acked, faults>>
  BY DEF Checkpoint
<1>2. Proc(d, sent) /\ disk[n] \in DiskType /\ sent \in Nat /\ sent <= MaxWrites
      /\ acked \in Nat /\ acked <= sent /\ DOMAIN disk = Nodes /\ DOMAIN node = Nodes
  BY BasicFacts
<1>3. d.main # "down"
  BY <1>1, BasicFacts DEF Shape, Called, Down, Fresh
<1>4. node' = [node EXCEPT ![n] = e] /\ disk' = [disk EXCEPT ![n] = dk] /\ dk \in DiskType
  BY <1>1, <1>2, CheckpointedIs
<1>5. /\ e \in Process /\ SameRole(e, d) /\ SameSync(e, d) /\ e.view = d.view /\ e.conn = "idle"
  BY <1>2 DEF Proc, Process, SameRole, SameSync
<1> HIDE DEF e, dk
<1>6. Proc(e, sent)
  BY <1>2, <1>5 DEF Proc, SameSync
<1>7. Shape(n, e, inbox[n], Member(n))
  BY <1>1, <1>3, <1>5, NotJoining
<1>8. e.main = "wait" => node[n].main = "wait"
  BY <1>5 DEF SameRole
<1>9. sent' = sent /\ acked' = acked /\ inbox' = inbox /\ alive' = alive /\ last' = last /\ faults' = faults
  BY <1>1
<1>10. Shape(n, e, inbox'[n], Member(n)) /\ Proc(e, sent') /\ SameSync(e, node[n])
  BY <1>5, <1>6, <1>7, <1>9
<1>11. sent' \in Nat /\ sent <= sent' /\ sent' <= MaxWrites /\ acked' \in Nat /\ acked' <= sent'
  BY <1>2, <1>9
<1> QED BY <1>4, <1>8, <1>9, <1>10, <1>11, LocalStep

\* The disjuncts of RunServer, ReadLog and the others in which the process goes on.
RunsPrimary(n) ==
    /\ node[n].main = "wait" /\ node[n].view # <<>> /\ node[n].primary /\ CanInit(disk[n])
    /\ node' = [node EXCEPT ![n] = [Initial(node[n], disk[n]) EXCEPT !.main = "run"]]
    /\ disk' = [disk EXCEPT ![n] = WithLog(node[n], @)]
    /\ UNCHANGED <<alive, last, inbox, sent, acked, faults>>

RunsSecondary(n) ==
    /\ node[n].main = "wait" /\ node[n].view # <<>> /\ ~node[n].primary
    /\ node' = [node EXCEPT ![n].main = "join", ![n].stage = "ask", ![n].peer = Head(node[n].view)]
    /\ UNCHANGED <<alive, last, inbox, disk, sent, acked, faults>>

Forgets(n) ==
    /\ node[n].stage = "log" /\ node[n].link # None
    /\ NeedFullSync(disk[n].log, node[n].link.log)
    /\ node' = [node EXCEPT ![n].stage = "full", ![n].link = None,
                            ![n].seq = 0, ![n].update = None]
    /\ disk' = [disk EXCEPT ![n] = BlankDisk]
    /\ UNCHANGED <<alive, last, inbox, sent, acked, faults>>

LEMMA RunsPrimaryBasic == ASSUME Basic, NEW n \in Nodes, RunsPrimary(n) PROVE Basic'
<1> DEFINE d == node[n]
           f == Initial(d, disk[n])
           e == [f EXCEPT !.main = "run"]
           dk == WithLog(d, disk[n])
<1>1. Proc(d, sent) /\ disk[n] \in DiskType /\ sent \in Nat /\ sent <= MaxWrites
      /\ acked \in Nat /\ acked <= sent /\ DOMAIN disk = Nodes
      /\ Shape(n, d, inbox[n], Member(n)) /\ Queue(inbox[n], sent)
  BY BasicFacts
<1>2. /\ Proc(f, sent) /\ dk \in DiskType
      /\ SameRole(f, d) /\ SameSync(f, d) /\ SameWork(f, d) /\ f.view = d.view
  BY <1>1, InitialIs
<1>3. node' = [node EXCEPT ![n] = e] /\ disk' = [disk EXCEPT ![n] = dk] /\ d.main = "wait" /\ d.view # <<>>
  BY <1>1 DEF RunsPrimary
<1> HIDE DEF f, dk
<1>4. /\ e \in Process /\ e.main = "run" /\ e.killed = d.killed /\ e.primary = d.primary
      /\ SameSync(e, d) /\ e.view = d.view /\ e.conn = d.conn /\ SameWork(e, f)
  BY ZenonT(60), <1>2 DEF Proc, Process, SameRole, SameSync, SameWork
<1> HIDE DEF e
<1>5. Proc(e, sent)
  BY <1>1, <1>4, <1>2 DEF Proc, SameSync, SameWork
<1>6. Shape(n, e, inbox[n], Member(n))
  <2>1. d.stage = "no" /\ d.conn # "join" /\ Member(n) /\ ~d.killed
        /\ ~Holds(inbox[n], "KILL") /\ ~Holds(inbox[n], "RESTART")
    BY <1>1, <1>3 DEF Shape, Stages, Called
  <2>2. \A i \in DOMAIN inbox[n] : inbox[n][i].com \notin {"KILL", "RESTART"}
    BY <2>1 DEF Holds
  <2>3. Stages(n, e)
    BY <1>1, <1>4, <2>1 DEF Shape, Stages, SameSync
  <2>4. Called(e, inbox[n], Member(n))
    BY <1>4, <2>1, <2>2 DEF Called, SameSync
  <2>5. Told(n, e, inbox[n])
    BY <1>3, <1>4, <2>2 DEF Told
  <2> QED BY <2>3, <2>4, <2>5 DEF Shape
<1>7. sent' = sent /\ acked' = acked /\ inbox' = inbox /\ alive' = alive /\ last' = last /\ faults' = faults
  BY DEF RunsPrimary
<1>8. Shape(n, e, inbox'[n], Member(n)) /\ Proc(e, sent') /\ SameSync(e, node[n]) /\ e.main # "wait"
  BY <1>4, <1>5, <1>6, <1>7
<1>9. sent' \in Nat /\ sent <= sent' /\ sent' <= MaxWrites /\ acked' \in Nat /\ acked' <= sent'
  BY <1>1, <1>7
<1> QED BY <1>2, <1>3, <1>7, <1>8, <1>9, LocalStep

LEMMA RunsSecondaryBasic == ASSUME Basic, NEW n \in Nodes, RunsSecondary(n) PROVE Basic'
<1> DEFINE d == node[n]
           p == Head(d.view)
           e == [d EXCEPT !.main = "join", !.stage = "ask", !.peer = p]
<1>1. Proc(d, sent) /\ disk[n] \in DiskType /\ sent \in Nat /\ sent <= MaxWrites
      /\ acked \in Nat /\ acked <= sent /\ DOMAIN node = Nodes
      /\ Shape(n, d, inbox[n], Member(n)) /\ Queue(inbox[n], sent)
      /\ disk = [disk EXCEPT ![n] = disk[n]]
  BY BasicFacts
<1>2. d.main = "wait" /\ d.view # <<>> /\ ~d.primary
      /\ node' = [node EXCEPT ![n].main = "join", ![n].stage = "ask", ![n].peer = p]
  BY DEF RunsSecondary
<1>3. node' = [node EXCEPT ![n] = e]
  BY <1>1, <1>2
<1>4. p \in Nodes /\ p # n
  <2>1. p \in Nodes
    BY <1>1, <1>2, FieldTypes
  <2>2. p # n
    BY <1>1, <1>2 DEF Shape, Told
  <2> QED BY <2>1, <2>2
<1> HIDE DEF p
<1>5. /\ e \in Process /\ e.main = "join" /\ e.killed = d.killed /\ e.primary = d.primary
      /\ e.stage = "ask" /\ e.peer = p /\ e.link = d.link /\ e.view = d.view /\ SameWork(e, d)
  <2>1. d \in Process
    BY <1>1 DEF Proc
  <2> HIDE DEF d
  <2> QED BY ZenonT(60), <1>4, <2>1 DEF Process, SameWork
<1> HIDE DEF e
<1>6. d.stage = "no" /\ d.conn # "join" /\ Member(n) /\ ~d.killed
        /\ ~Holds(inbox[n], "KILL") /\ ~Holds(inbox[n], "RESTART")
  BY <1>1, <1>2 DEF Shape, Stages, Called
<1>7. Proc(e, sent)
  BY <1>1, <1>5, <1>6 DEF Proc, SameWork
<1>8. Shape(n, e, inbox[n], Member(n))
  <2>2. \A i \in DOMAIN inbox[n] : inbox[n][i].com \notin {"KILL", "RESTART"}
    BY <1>6 DEF Holds
  <2>3. Stages(n, e)
    BY <1>4, <1>5, <1>6 DEF Stages, SameWork
  <2>4. Called(e, inbox[n], Member(n))
    BY <1>5, <1>6, <2>2 DEF Called
  <2>5. Told(n, e, inbox[n])
    BY <1>2, <1>5, <2>2 DEF Told
  <2> QED BY <2>3, <2>4, <2>5 DEF Shape
<1>9. sent' = sent /\ acked' = acked /\ inbox' = inbox /\ alive' = alive /\ last' = last /\ faults' = faults
      /\ disk' = disk
  BY DEF RunsSecondary
<1>10. Shape(n, e, inbox'[n], Member(n)) /\ Proc(e, sent') /\ node[n].stage # "log" /\ e.main # "wait"
  BY <1>5, <1>6, <1>7, <1>8, <1>9
<1>11. sent' \in Nat /\ sent <= sent' /\ sent' <= MaxWrites /\ acked' \in Nat /\ acked' <= sent'
  BY <1>1, <1>9
<1>12. disk' = [disk EXCEPT ![n] = disk[n]]
  BY <1>1, <1>9
<1> QED BY <1>1, <1>3, <1>9, <1>10, <1>11, <1>12, LocalStep

LEMMA BlankDiskType == BlankDisk \in DiskType
<1>1. <<>> \in Seq(Record)
  OBVIOUS
<1> QED BY <1>1, GroupBounds DEF BlankDisk, BlankLog, DiskType, LogType, Empty, Val

LEMMA ForgetsBasic == ASSUME Basic, NEW n \in Nodes, Forgets(n) PROVE Basic'
<1> DEFINE d == node[n]
           e == [d EXCEPT !.stage = "full", !.link = None, !.seq = 0, !.update = None]
<1>1. Proc(d, sent) /\ disk[n] \in DiskType /\ sent \in Nat /\ sent <= MaxWrites
      /\ acked \in Nat /\ acked <= sent /\ DOMAIN node = Nodes
      /\ Shape(n, d, inbox[n], Member(n)) /\ Queue(inbox[n], sent)
  BY BasicFacts
<1>2. d.stage = "log" /\ d.link # None
      /\ node' = [node EXCEPT ![n].stage = "full", ![n].link = None, ![n].seq = 0, ![n].update = None]
  BY DEF Forgets
<1>3. node' = [node EXCEPT ![n] = e]
  BY <1>1, <1>2
<1>4. /\ e \in Process /\ SameRole(e, d) /\ e.stage = "full" /\ e.peer = d.peer /\ e.link = None
      /\ e.view = d.view /\ SameWork(e, d)
  BY ZenonT(60), <1>1 DEF Proc, Process, SameRole, SameWork
<1> HIDE DEF e
<1>5. Proc(e, sent)
  BY <1>1, <1>4 DEF Proc, SameWork
<1>6. Shape(n, e, inbox[n], Member(n))
  BY <1>1, <1>2, <1>4 DEF Shape, Stages, Called, Told, SameRole, SameWork, Down, Fresh
<1>7. sent' = sent /\ acked' = acked /\ inbox' = inbox /\ alive' = alive /\ last' = last /\ faults' = faults
      /\ disk' = [disk EXCEPT ![n] = BlankDisk]
  BY DEF Forgets
<1>8. Shape(n, e, inbox'[n], Member(n)) /\ Proc(e, sent') /\ node[n].link # None
      /\ (e.main = "wait" => node[n].main = "wait")
  BY <1>2, <1>4, <1>5, <1>6, <1>7 DEF SameRole
<1>9. sent' \in Nat /\ sent <= sent' /\ sent' <= MaxWrites /\ acked' \in Nat /\ acked' <= sent'
  BY <1>1, <1>7
<1> QED BY <1>3, <1>7, <1>8, <1>9, BlankDiskType, LocalStep

\* run_command.
Reads(n, m) == Up(n) /\ node[n].conn = "idle" /\ inbox[n] # <<>> /\ m = Head(inbox[n])

LEMMA ReadFacts ==
    ASSUME Basic, NEW n \in Nodes, NEW m, Reads(n, m)
    PROVE  /\ m \in Letter /\ Sensible(m, sent)
           /\ Unread(n)[n] = Tail(inbox[n])
           /\ \/ node[n].stage = "no" /\ node[n].peer = None /\ node[n].link = None
              \/ node[n].main = "join"
<1>1. Queue(inbox[n], sent) /\ sent \in Nat /\ DOMAIN inbox = Nodes /\ Proc(node[n], sent)
      /\ Shape(n, node[n], inbox[n], Member(n))
  BY BasicFacts
<1>2. m \in Letter /\ Sensible(m, sent)
  BY <1>1, QueueTail DEF Reads
<1>3. node[n].stage = "no" \/ node[n].main = "join"
  BY <1>1 DEF Reads, Shape, Stages
<1>4. node[n].stage = "no" => node[n].peer = None /\ node[n].link = None
  BY <1>1 DEF Shape, Stages, Proc
<1> QED BY <1>1, <1>2, <1>3, <1>4 DEF Unread

LEMMA ReadStep ==
    ASSUME Basic, NEW n \in Nodes, NEW m, Reads(n, m), NEW nd, NEW dk \in DiskType,
           EndMessage(n, nd, dk), Proc(nd, sent), inbox' = Unread(n), Quietly,
           nd.conn # "join",
           \A e : Ended(n, e, nd) => Shape(n, e, Tail(inbox[n]), Member(n)),
           SameSync(nd, node[n]), nd.main = node[n].main
    PROVE  Basic'
<1>1. sent \in Nat /\ sent <= MaxWrites /\ acked \in Nat /\ acked <= sent
  BY BasicFacts
<1>2. sent' = sent /\ acked' = acked /\ alive' = alive /\ last' = last /\ faults' = faults
  BY DEF Quietly
<1>3. sent' \in Nat /\ sent <= sent' /\ sent' <= MaxWrites /\ acked' \in Nat /\ acked' <= sent'
      /\ Proc(nd, sent')
  BY <1>1, <1>2
<1>4. \A e : Ended(n, e, nd) => Shape(n, e, inbox'[n], Member(n))
  BY ReadFacts
<1>5. inbox[n] # <<>> /\ node[n].main # "down"
  BY DEF Reads, Up
<1> QED BY <1>2, <1>3, <1>4, <1>5, EndingStep

LEMMA ClusterBasic ==
    ASSUME Basic, NEW n \in Nodes, NEW m, Reads(n, m), Cluster(n, m) PROVE Basic'
<1> DEFINE d == node[n]
           b == d.primary \/ Head(m.list) = n
           nd == [d EXCEPT !.view = m.list, !.primary = b]
<1>1. Queue(inbox[n], sent) /\ sent \in Nat /\ Proc(d, sent) /\ disk[n] \in DiskType
      /\ Shape(n, d, inbox[n], Member(n))
  BY BasicFacts
<1>2. m \in Letter /\ m.list \in Seq(Nodes) /\ m.com = "CLUSTER"
  BY ReadFacts DEF Letter, Cluster
<1>3. EndMessage(n, nd, disk[n]) /\ inbox' = Unread(n) /\ Quietly
  BY DEF Cluster
<1>b. b \in BOOLEAN /\ b = (d.primary \/ Head(m.list) = n)
  BY <1>1, FieldTypes
<1> HIDE DEF b
<1>4. /\ nd \in Process /\ nd.main = d.main /\ nd.killed = d.killed /\ nd.primary = b
      /\ SameSync(nd, d) /\ nd.view = m.list /\ SameWork(nd, d)
  <2>1. d \in Process
    BY <1>1 DEF Proc
  <2> HIDE DEF d
  <2> QED BY ZenonT(60), <1>2, <1>b, <2>1 DEF Process, SameSync, SameWork
<1> HIDE DEF nd
<1>5. Proc(nd, sent)
  BY <1>1, <1>4 DEF Proc, SameSync, SameWork
<1>6. ASSUME NEW e, Ended(n, e, nd) PROVE Shape(n, e, Tail(inbox[n]), Member(n))
  <2>1. /\ e.main = d.main /\ e.killed = d.killed /\ e.primary = b
        /\ SameSync(e, d) /\ e.view = m.list /\ e.conn # "join"
    BY <1>4, <1>6 DEF Ended, SameRole, SameSync
  <2>2. d.conn # "join" /\ d.main # "down" /\ inbox[n] # <<>> /\ m = Head(inbox[n])
    BY DEF Reads, Up
  <2>3. e.primary = (d.primary \/ Head(e.view) = n)
    BY <1>b, <2>1
  <2> QED BY <1>1, <1>2, <2>1, <2>2, <2>3, ShapeCluster
<1>7. nd.conn # "join" /\ nd.main = d.main
  BY <1>4 DEF Reads, SameWork
<1> QED BY <1>1, <1>3, <1>4, <1>5, <1>6, <1>7, ReadStep

LEMMA KilledBasic ==
    ASSUME Basic, NEW n \in Nodes, NEW m, Reads(n, m), Killed(n, m) PROVE Basic'
<1> DEFINE d == node[n]
           nd == [d EXCEPT !.killed = TRUE, !.primary = FALSE]
<1>1. Queue(inbox[n], sent) /\ sent \in Nat /\ Proc(d, sent) /\ disk[n] \in DiskType
      /\ Shape(n, d, inbox[n], Member(n)) /\ d.main \in {"down", "wait", "join", "run"}
  BY BasicFacts
<1>2. m.com = "KILL" /\ EndMessage(n, nd, disk[n]) /\ inbox' = Unread(n) /\ Quietly
  BY DEF Killed
<1>4. /\ nd \in Process /\ nd.main = d.main /\ nd.killed
      /\ SameSync(nd, d) /\ nd.view = d.view /\ SameWork(nd, d)
  <2>1. d \in Process
    BY <1>1 DEF Proc
  <2> HIDE DEF d
  <2> QED BY ZenonT(60), <2>1 DEF Process, SameSync, SameWork
<1> HIDE DEF nd
<1>5. Proc(nd, sent)
  BY <1>1, <1>4 DEF Proc, SameSync, SameWork
<1>6. ASSUME NEW e, Ended(n, e, nd) PROVE Shape(n, e, Tail(inbox[n]), Member(n))
  <2>1. /\ e.main = d.main /\ e.killed
        /\ SameSync(e, d) /\ e.view = d.view /\ e.conn # "join"
    BY <1>4, <1>6 DEF Ended, SameRole, SameSync
  <2>2. d.conn # "join" /\ d.main # "down" /\ inbox[n] # <<>> /\ m = Head(inbox[n])
    BY DEF Reads, Up
  <2> QED BY <1>1, <1>2, <2>1, <2>2, ShapeKilled
<1>7. nd.conn # "join" /\ nd.main = d.main
  BY <1>4 DEF Reads, SameWork
<1> QED BY <1>1, <1>2, <1>4, <1>5, <1>6, <1>7, ReadStep

LEMMA UnreadEnded ==
    ASSUME Basic, NEW n \in Nodes, NEW m, Reads(n, m), m.com \notin {"CLUSTER", "KILL", "RESTART"}, NEW nd,
           SameRole(nd, node[n]), SameSync(nd, node[n]), nd.view = node[n].view
    PROVE  \A e : Ended(n, e, nd) => Shape(n, e, Tail(inbox[n]), Member(n))
BY EndedUnread DEF Reads, Up

LEMMA CheckpointSecondaryBasic ==
    ASSUME Basic, NEW n \in Nodes, NEW m, Reads(n, m), CheckpointSecondary(n, m) PROVE Basic'
<1>1. /\ EndMessage(n, node[n], Checkpointed(node[n], disk[n]))
      /\ m.com = "CKPT" /\ inbox' = Unread(n) /\ Quietly
  BY DEF CheckpointSecondary
<1>2. Checkpointed(node[n], disk[n]) \in DiskType /\ Proc(node[n], sent)
  BY BasicFacts, CheckpointedIs
<1>3. \A e : Ended(n, e, node[n]) => Shape(n, e, Tail(inbox[n]), Member(n))
  BY <1>1, UnreadEnded, SameProcess
<1>4. node[n].conn # "join"
  BY DEF Reads
<1> QED BY <1>1, <1>2, <1>3, <1>4, ReadStep, SameProcess

LEMMA IgnoredBasic ==
    ASSUME Basic, NEW n \in Nodes, NEW m, Reads(n, m), Ignored(n, m) PROVE Basic'
<1>1. EndMessage(n, node[n], disk[n]) /\ inbox' = Unread(n) /\ Quietly
  BY DEF Ignored
<1>2. disk[n] \in DiskType /\ Proc(node[n], sent) /\ Shape(n, node[n], inbox[n], Member(n))
      /\ Queue(inbox[n], sent) /\ sent \in Nat
  BY BasicFacts
<1>3. inbox[n] # <<>> /\ m = inbox[n][1] /\ 1 \in DOMAIN inbox[n] /\ \A j \in DOMAIN inbox[n] : ~(j < 1)
  <2>1. inbox[n] # <<>> /\ m = inbox[n][1] /\ 1 \in DOMAIN inbox[n]
    BY <1>2, QueueTail DEF Reads
  <2>2. DOMAIN inbox[n] = 1 .. Len(inbox[n])
    BY <1>2 DEF Queue
  <2> QED BY <2>1, <2>2
<1>4. m.com \notin {"CLUSTER", "KILL", "RESTART"}
  <2>1. node[n].killed => m.com # "KILL"
    BY <1>2, <1>3 DEF Shape, Called, Holds
  <2>2. ~node[n].killed => m.com # "RESTART"
    BY <1>2, <1>3 DEF Shape, Called
  <2> QED BY <2>1, <2>2 DEF Ignored
<1>5. \A e : Ended(n, e, node[n]) => Shape(n, e, Tail(inbox[n]), Member(n))
  BY <1>4, UnreadEnded, SameProcess
<1>6. node[n].conn # "join"
  BY DEF Reads
<1> QED BY <1>1, <1>2, <1>5, <1>6, ReadStep, SameProcess

LEMMA ForwardedBasic ==
    ASSUME Basic, NEW n \in Nodes, NEW m, Reads(n, m), Forwarded(n, m) PROVE Basic'
<1> DEFINE x == m.write
<1>1. m.com = "WRITE" /\ RunWrite(n, x) /\ inbox' = Unread(n) /\ Quietly
  BY DEF Forwarded
<1>2. disk[n] \in DiskType /\ Proc(node[n], sent) /\ Shape(n, node[n], inbox[n], Member(n))
      /\ sent \in Nat /\ sent <= MaxWrites /\ acked \in Nat /\ acked <= sent
      /\ disk = [disk EXCEPT ![n] = disk[n]]
  BY BasicFacts
<1>3. x \in Write /\ x.val <= sent
  BY <1>1, ReadFacts DEF Sensible
<1> HIDE DEF x
<1>4. node[n].conn # "join"
  BY DEF Reads
<1>5. CASE ~node[n].primary
  <2> DEFINE nd == Applied(node[n], disk[n], x)
             dk == Logged(node[n], disk[n], x)
  <2>1. EndMessage(n, nd, dk)
    BY <1>1, <1>5 DEF RunWrite
  <2>2. /\ Proc(nd, sent) /\ dk \in DiskType /\ SameRole(nd, node[n]) /\ SameSync(nd, node[n])
        /\ SameWork(nd, node[n]) /\ nd.view = node[n].view
    <3>1. Proc(node[n], sent) /\ disk[n] \in DiskType /\ x \in Write
      BY <1>2, <1>3
    <3> QED BY ONLY <3>1, AppliedIs
  <2> HIDE DEF nd, dk
  <2>3. \A e : Ended(n, e, nd) => Shape(n, e, Tail(inbox[n]), Member(n))
    BY <1>1, <2>2, UnreadEnded
  <2>4. nd.conn # "join" /\ nd.main = node[n].main
    BY <1>4, <2>2 DEF SameWork, SameRole
  <2> QED BY <1>1, <2>1, <2>2, <2>3, <2>4, ReadStep
<1>6. CASE node[n].primary
  <2>1. /\ disk' = disk
        /\ \E e : Forwarding(n, e, node[n], x) /\ Proc(e, sent) /\ node' = [node EXCEPT ![n] = e]
    BY <1>1, <1>2, <1>3, <1>6, RunWriteForwards
  <2>2. PICK e : Forwarding(n, e, node[n], x) /\ Proc(e, sent) /\ node' = [node EXCEPT ![n] = e]
    BY <2>1
  <2>3. /\ SameRole(e, node[n]) /\ SameSync(e, node[n]) /\ e.view = node[n].view /\ e.conn = "forward"
    BY <2>2 DEF Forwarding
  <2>4. Shape(n, e, inbox'[n], Member(n))
    <3>1. Shape(n, node[n], Tail(inbox[n]), Member(n))
      <4>1. Queue(inbox[n], sent)
        BY BasicFacts
      <4>2. inbox[n] # <<>> /\ Head(inbox[n]).com \notin {"CLUSTER", "KILL", "RESTART"}
        BY <1>1 DEF Reads
      <4> QED BY <1>2, <4>1, <4>2, ShapeTail
    <3>2. node[n].main # "down"
      BY DEF Reads, Up
    <3>3. Shape(n, e, Tail(inbox[n]), Member(n))
      BY <1>4, <2>3, <3>1, <3>2, ShapeSame DEF SameSync
    <3> QED BY <1>1, <3>3, ReadFacts
  <2>5. disk' = [disk EXCEPT ![n] = disk[n]]
    BY <1>2, <2>1
  <2>6. sent' = sent /\ acked' = acked /\ alive' = alive /\ last' = last /\ faults' = faults
    BY <1>1 DEF Quietly
  <2>7. /\ sent' \in Nat /\ sent <= sent' /\ sent' <= MaxWrites /\ acked' \in Nat /\ acked' <= sent'
        /\ Proc(e, sent')
    BY <1>2, <2>2, <2>6
  <2>8. e.main = "wait" => node[n].main = "wait"
    BY <2>3 DEF SameRole
  <2>9. inbox[n] # <<>> /\ inbox' = Unread(n)
    BY <1>1 DEF Reads
  <2> QED BY <1>2, <2>2, <2>3, <2>4, <2>5, <2>6, <2>7, <2>8, <2>9, LocalStep
<1> QED BY <1>5, <1>6

RestartedPrimary(n, m) ==
    LET nd == [node[n] EXCEPT !.killed = FALSE] IN
    /\ m.com = "RESTART" /\ node[n].killed
    /\ nd.primary /\ CanInit(disk[n])
    /\ EndMessage(n, Initial(nd, disk[n]), WithLog(nd, disk[n]))
    /\ inbox' = Unread(n) /\ Quietly

RestartedSecondary(n, m) ==
    LET nd == [node[n] EXCEPT !.killed = FALSE] IN
    /\ m.com = "RESTART" /\ node[n].killed
    /\ ~nd.primary
    /\ node' = [node EXCEPT ![n] = [nd EXCEPT !.conn = "join", !.stage = "ask",
                                              !.peer = Head(nd.view)]]
    /\ inbox' = Unread(n) /\ UNCHANGED disk /\ Quietly

Revived(d) == [d EXCEPT !.killed = FALSE]

LEMMA RevivedIs ==
    ASSUME NEW w, NEW d, Proc(d, w)
    PROVE  /\ Proc(Revived(d), w) /\ ~Revived(d).killed
           /\ Revived(d).main = d.main /\ Revived(d).primary = d.primary /\ Revived(d).view = d.view
           /\ Revived(d).serving = d.serving
           /\ SameSync(Revived(d), d) /\ SameCache(Revived(d), d) /\ SameWork(Revived(d), d)
<1> DEFINE e == Revived(d)
<1>1. d \in Process
  BY DEF Proc
<1>2. /\ e \in Process /\ ~e.killed /\ e.main = d.main /\ e.primary = d.primary /\ e.view = d.view
      /\ e.serving = d.serving
      /\ SameSync(e, d) /\ SameCache(e, d) /\ SameWork(e, d)
  BY ZenonT(60), <1>1 DEF Revived, Process, SameSync, SameCache, SameWork
<1> HIDE DEF e
<1>3. Proc(e, w)
  BY <1>2 DEF Proc, SameSync, SameWork
<1> QED BY <1>2, <1>3 DEF e

LEMMA RestartedPrimaryBasic ==
    ASSUME Basic, NEW n \in Nodes, NEW m, Reads(n, m), RestartedPrimary(n, m) PROVE Basic'
<1> DEFINE d == node[n]
           f == Revived(d)
           nd == Initial(f, disk[n])
           dk == WithLog(f, disk[n])
<1>1. /\ m.com = "RESTART" /\ d.killed /\ EndMessage(n, nd, dk)
      /\ inbox' = Unread(n) /\ Quietly
  BY DEF RestartedPrimary, Revived
<1>2. disk[n] \in DiskType /\ Proc(d, sent) /\ Shape(n, d, inbox[n], Member(n))
      /\ Queue(inbox[n], sent) /\ sent \in Nat
  BY BasicFacts
<1>3. /\ Proc(f, sent) /\ ~f.killed /\ f.main = d.main /\ f.view = d.view /\ SameSync(f, d) /\ SameWork(f, d)
  BY <1>2, RevivedIs
<1> HIDE DEF f
<1>4. /\ Proc(nd, sent) /\ dk \in DiskType
      /\ SameRole(nd, f) /\ SameSync(nd, f) /\ SameWork(nd, f) /\ nd.view = f.view
  BY <1>2, <1>3, InitialIs
<1> HIDE DEF nd, dk
<1>5. d.conn # "join" /\ d.main # "down" /\ inbox[n] # <<>> /\ Head(inbox[n]).com = "RESTART"
  BY <1>1 DEF Reads, Up
<1>6. ASSUME NEW e, Ended(n, e, nd) PROVE Shape(n, e, Tail(inbox[n]), Member(n))
  <2>1. /\ e.main = d.main /\ ~e.killed /\ SameSync(e, d) /\ e.view = d.view /\ e.conn # "join"
    BY <1>3, <1>4, <1>6 DEF Ended, SameRole, SameSync
  <2>2. Stages(n, e)
    BY <1>2, <1>5, <2>1 DEF Shape, Stages, SameSync
  <2> QED BY <1>1, <1>2, <1>5, <2>1, <2>2, ShapeRestarted
<1>7. nd.conn # "join" /\ nd.main = d.main /\ SameSync(nd, d)
  BY <1>3, <1>4, <1>5 DEF SameWork, SameRole, SameSync
<1> QED BY <1>1, <1>4, <1>6, <1>7, ReadStep

LEMMA RestartedSecondaryBasic ==
    ASSUME Basic, NEW n \in Nodes, NEW m, Reads(n, m), RestartedSecondary(n, m) PROVE Basic'
<1> DEFINE d == node[n]
           p == Head(d.view)
           e == [Revived(d) EXCEPT !.conn = "join", !.stage = "ask", !.peer = p]
<1>1. disk[n] \in DiskType /\ Proc(d, sent) /\ Shape(n, d, inbox[n], Member(n))
      /\ Queue(inbox[n], sent) /\ sent \in Nat
      /\ sent <= MaxWrites /\ acked \in Nat /\ acked <= sent
      /\ disk = [disk EXCEPT ![n] = disk[n]]
  BY BasicFacts
<1> DEFINE f == Revived(d)
<1>2. /\ Proc(f, sent) /\ f.main = d.main /\ f.view = d.view /\ SameSync(f, d) /\ SameWork(f, d)
      /\ ~f.killed /\ f.primary = d.primary
  BY <1>1, RevivedIs
<1>3. /\ m.com = "RESTART" /\ d.killed /\ ~d.primary /\ inbox' = Unread(n) /\ disk' = disk /\ Quietly
      /\ node' = [node EXCEPT ![n] = e]
  BY <1>2 DEF RestartedSecondary, Revived
<1>4. d.main # "down" /\ inbox[n] # <<>> /\ Head(inbox[n]).com = "RESTART"
  BY <1>3 DEF Reads, Up
<1>5. /\ Member(n) /\ d.main = "run" /\ d.stage = "no" /\ d.view # <<>> /\ Head(d.view) # n
      /\ d.link = None
  <2>1. Stages(n, f)
    BY <1>1, <1>2 DEF Shape, Stages, SameSync, SameWork
  <2>2. /\ Member(n) /\ d.main = "run" /\ d.stage = "no" /\ d.view # <<>>
        /\ (Head(d.view) = n => d.primary)
    BY <1>1, <1>2, <1>3, <1>4, <2>1, ShapeRestarted
  <2> QED BY <1>1, <1>3, <2>2 DEF Proc
<1>6. p \in Nodes /\ p # n
  <2>1. d.view \in Seq(Nodes)
    BY <1>1, FieldTypes
  <2> QED BY <1>5, <2>1
<1> HIDE DEF p
<1>7. /\ e \in Process /\ e.main = "run" /\ ~e.killed /\ e.conn = "join"
      /\ e.stage = "ask" /\ e.peer = p /\ e.link = None /\ e.view = d.view
  <2>1. f \in Process /\ f.main = "run" /\ f.link = None
    BY <1>2, <1>5 DEF Proc, SameSync
  <2>2. e = [f EXCEPT !.conn = "join", !.stage = "ask", !.peer = p]
    OBVIOUS
  <2> HIDE DEF f, e
  <2> QED BY ZenonT(60), <1>2, <1>6, <2>1, <2>2 DEF Process
<1> HIDE DEF e
<1>8. Proc(e, sent)
  BY <1>7 DEF Proc
<1>9. Stages(n, e)
  BY <1>6, <1>7 DEF Stages
<1>10. Shape(n, e, Tail(inbox[n]), Member(n))
  <2> DEFINE q == inbox[n]
             mem == Member(n)
  <2>1. /\ sent \in Nat /\ Queue(q, sent) /\ q # <<>> /\ Shape(n, d, q, mem)
        /\ Head(q).com = "RESTART" /\ d.main # "down" /\ d.killed
        /\ e.main = d.main /\ ~e.killed /\ e.view = d.view /\ Stages(n, e)
    BY <1>1, <1>3, <1>4, <1>5, <1>7, <1>9
  <2> HIDE DEF d, q, mem
  <2>2. Shape(n, e, Tail(q), mem)
    BY ONLY <2>1, ShapeRestarted
  <2> QED BY <2>2 DEF q, mem
<1>11. sent' = sent /\ acked' = acked /\ alive' = alive /\ last' = last /\ faults' = faults
  BY <1>3 DEF Quietly
<1>12. /\ sent' \in Nat /\ sent <= sent' /\ sent' <= MaxWrites /\ acked' \in Nat /\ acked' <= sent'
       /\ Proc(e, sent') /\ node[n].stage # "log" /\ e.main # "wait"
  BY <1>1, <1>5, <1>7, <1>8, <1>11
<1>13. Shape(n, e, inbox'[n], Member(n))
  BY <1>3, <1>10, ReadFacts
<1>14. disk' = [disk EXCEPT ![n] = disk[n]]
  BY <1>1, <1>3
<1> QED BY <1>1, <1>3, <1>4, <1>11, <1>12, <1>13, <1>14, LocalStep

------------------------------------------------------------------------------
(* Steps that change several processes.                                    *)

LEMMA BasicScalars ==
    ASSUME Basic
    PROVE  /\ alive \in Seq(Nodes) /\ last \in Nodes \cup {None}
           /\ DOMAIN inbox = Nodes /\ DOMAIN node = Nodes /\ disk \in [Nodes -> DiskType]
           /\ sent \in Nat /\ sent <= MaxWrites /\ acked \in Nat /\ acked <= sent
           /\ faults \in 0 .. MaxFaults
BY DEF Basic, TypeInv

\* PrimarySyncSecondary when it goes on.
SyncStarts(n, m) ==
    /\ m.com = "SYNC" /\ ~node[n].killed /\ node[n].primary /\ disk[n].log.state # "absent"
    /\ node' = [node EXCEPT ![n].conn = "serve", ![n].serving = m.from,
                            ![m.from].link = [log |-> disk[n].log]]
    /\ inbox' = Unread(n) /\ UNCHANGED disk /\ Quietly

\* What it changes in the processes of the primary n and the secondary s.
SyncLink(n, s) ==
    /\ s \in Nodes /\ s # n /\ DOMAIN node' = Nodes
    /\ node[s].stage = "log" /\ node[s].peer = n /\ node[s].link = None
    /\ node'[n] = [node[n] EXCEPT !.conn = "serve", !.serving = s]
    /\ node'[s] = [node[s] EXCEPT !.link = [log |-> disk[n].log]]
    /\ \A x \in Nodes : x # n /\ x # s => node'[x] = node[x]

LEMMA SyncStartsIs ==
    ASSUME Basic, NEW n \in Nodes, NEW m, Reads(n, m), SyncStarts(n, m)
    PROVE  SyncLink(n, m.from)
<1> DEFINE s == m.from
<1>1. m \in Letter /\ Sensible(m, sent) /\ m.com = "SYNC"
  BY ReadFacts DEF SyncStarts
<1>2. s \in Nodes
  BY <1>1 DEF Sensible
<1>3. Queue(inbox[n], sent) /\ sent \in Nat /\ DOMAIN node = Nodes
  BY BasicFacts
<1>4. 1 \in DOMAIN inbox[n] /\ inbox[n][1].com = "SYNC" /\ inbox[n][1].from = s
  BY <1>1, <1>3, QueueTail DEF Reads
<1>5. Asks(s, node[s], n, node[n], inbox[n])
  BY <1>2 DEF Basic
<1>6. s # n /\ node[s].stage = "log" /\ node[s].peer = n /\ node[s].link = None
  BY <1>4, <1>5 DEF Asks
<1>7. node' = [node EXCEPT ![n].conn = "serve", ![n].serving = s, ![s].link = [log |-> disk[n].log]]
  BY DEF SyncStarts
<1> HIDE DEF s
<1>8. /\ node'[n] = [node[n] EXCEPT !.conn = "serve", !.serving = s]
      /\ node'[s] = [node[s] EXCEPT !.link = [log |-> disk[n].log]]
      /\ \A x \in Nodes : x # n /\ x # s => node'[x] = node[x]
      /\ DOMAIN node' = Nodes
  BY <1>2, <1>3, <1>6, <1>7
<1> QED BY <1>2, <1>6, <1>8 DEF s, SyncLink

LEMMA LinkedIs ==
    ASSUME NEW w, NEW d, Proc(d, w), NEW l \in {None} \cup [log : LogType] \cup DiskType,
           d.stage \in {"log", "full"},
           d.stage = "log" => l \in {None} \cup [log : LogType],
           d.stage = "full" => l \in {None} \cup DiskType
    PROVE  /\ Proc([d EXCEPT !.link = l], w)
           /\ SameRole([d EXCEPT !.link = l], d) /\ SameCache([d EXCEPT !.link = l], d)
           /\ SameWork([d EXCEPT !.link = l], d)
           /\ [d EXCEPT !.link = l].view = d.view /\ [d EXCEPT !.link = l].serving = d.serving
           /\ [d EXCEPT !.link = l].stage = d.stage /\ [d EXCEPT !.link = l].peer = d.peer
           /\ [d EXCEPT !.link = l].link = l
<1> DEFINE e == [d EXCEPT !.link = l]
<1>1. d \in Process
  BY DEF Proc
<1>2. /\ e \in Process /\ SameRole(e, d) /\ SameCache(e, d) /\ SameWork(e, d) /\ e.view = d.view
      /\ e.serving = d.serving /\ e.stage = d.stage /\ e.peer = d.peer /\ e.link = l
  BY ZenonT(60), <1>1 DEF Process, SameRole, SameCache, SameWork
<1> HIDE DEF e
<1>3. Proc(e, w)
  BY <1>2 DEF Proc, SameWork
<1> QED BY <1>2, <1>3 DEF e

ServingOf(d, s) == [d EXCEPT !.conn = "serve", !.serving = s]

LEMMA ServingIs ==
    ASSUME NEW w, NEW d, Proc(d, w), NEW s \in Nodes
    PROVE  /\ Proc(ServingOf(d, s), w) /\ SameRole(ServingOf(d, s), d)
           /\ SameSync(ServingOf(d, s), d) /\ SameCache(ServingOf(d, s), d)
           /\ ServingOf(d, s).view = d.view
           /\ ServingOf(d, s).conn = "serve" /\ ServingOf(d, s).serving = s
<1> DEFINE e == [d EXCEPT !.conn = "serve", !.serving = s]
<1>1. d \in Process
  BY DEF Proc
<1>2. /\ e \in Process /\ SameRole(e, d) /\ SameSync(e, d) /\ SameCache(e, d) /\ e.view = d.view
      /\ e.conn = "serve" /\ e.serving = s
  BY <1>1 DEF Process, SameRole, SameSync, SameCache
<1> HIDE DEF e
<1>3. Proc(e, w)
  BY <1>2 DEF Proc, SameSync
<1> QED BY <1>2, <1>3 DEF e, ServingOf

LEMMA SyncStartsBasic ==
    ASSUME Basic, NEW n \in Nodes, NEW m, Reads(n, m), SyncStarts(n, m) PROVE Basic'
<1>0. SyncLink(n, m.from)
  BY SyncStartsIs
<1> DEFINE s == m.from
           l == [log |-> disk[n].log]
           dn == ServingOf(node[n], s)
           ds == [node[s] EXCEPT !.link = l]
<1>1. /\ s \in Nodes /\ s # n /\ DOMAIN node' = Nodes
      /\ node[s].stage = "log" /\ node[s].peer = n /\ node[s].link = None
      /\ node'[n] = dn /\ node'[s] = ds
      /\ \A x \in Nodes : x # n /\ x # s => node'[x] = node[x]
  BY <1>0 DEF SyncLink, ServingOf
<1>2. /\ inbox' = Unread(n) /\ disk' = disk /\ sent' = sent /\ acked' = acked /\ faults' = faults
      /\ alive' = alive /\ last' = last
      /\ m.com = "SYNC"
  BY DEF SyncStarts, Quietly
<1>c. node[n].conn = "idle" /\ node[n].main # "down" /\ inbox[n] # <<>> /\ m = Head(inbox[n])
  BY DEF Reads, Up
<1>3. \A x \in Nodes : /\ Proc(node[x], sent) /\ Queue(inbox[x], sent) /\ disk[x] \in DiskType
                       /\ Shape(x, node[x], inbox[x], Member(x))
  BY BasicFacts
<1>4. sent \in Nat /\ DOMAIN inbox = Nodes
  BY BasicScalars
<1>5. l \in [log : LogType]
  BY <1>3 DEF DiskType
<1> HIDE DEF l
<1>6. /\ Proc(ds, sent) /\ SameRole(ds, node[s]) /\ SameWork(ds, node[s]) /\ ds.view = node[s].view
      /\ ds.stage = node[s].stage /\ ds.peer = node[s].peer
  BY <1>1, <1>3, <1>5, LinkedIs
<1>7. /\ Proc(dn, sent) /\ SameRole(dn, node[n]) /\ SameSync(dn, node[n]) /\ dn.view = node[n].view
      /\ dn.conn = "serve"
  BY <1>1, <1>3, ServingIs
<1> HIDE DEF ds, dn, s
<1>8. \A x \in Nodes : inbox'[x] = IF x = n THEN Tail(inbox[x]) ELSE inbox[x]
  BY <1>2, <1>4 DEF Unread
<1>q. \A x \in Nodes : Queue(inbox'[x], sent)
  BY <1>3, <1>4, <1>8, <1>c, QueueTail
<1>9. TypeInv'
  <2>1. \A x \in Nodes : Proc(node'[x], sent)
    BY <1>1, <1>3, <1>6, <1>7
  <2>2. DOMAIN inbox' = Nodes
    BY <1>2, <1>4 DEF Unread
  <2> QED BY <1>1, <1>2, <1>q, <2>1, <2>2 DEF Basic, TypeInv
<1>10. \A x \in Nodes : Shape(x, node'[x], inbox'[x], Member(x)')
  <2> SUFFICES ASSUME NEW x \in Nodes PROVE Shape(x, node'[x], inbox'[x], Member(x)')
    OBVIOUS
  <2>1. Member(x)' = Member(x)
    BY <1>2 DEF Member
  <2>2. CASE x = n
    <3>1. Shape(n, node[n], Tail(inbox[n]), Member(n))
      BY <1>2, <1>3, <1>4, <1>c, ShapeTail
    <3>2. Shape(n, dn, Tail(inbox[n]), Member(n))
      BY <1>7, <1>c, <3>1, ShapeSame DEF SameSync
    <3> QED BY <1>1, <1>8, <2>1, <2>2, <3>2
  <2>3. CASE x = s
    <3>1. node[s].main # "down"
      BY <1>1, <1>3 DEF Shape, Stages
    <3>2. Shape(s, ds, inbox[s], Member(s))
      BY <1>1, <1>3, <1>6, <3>1, ShapeSame DEF SameWork
    <3> QED BY <1>1, <1>8, <2>1, <2>3, <3>2
  <2>4. CASE x # n /\ x # s
    BY <1>1, <1>3, <1>8, <2>1, <2>4
  <2> QED BY <2>2, <2>3, <2>4
<1>11. \A x, p \in Nodes : Asks(x, node'[x], p, node'[p], inbox'[p])
  <2> SUFFICES ASSUME NEW x \in Nodes, NEW p \in Nodes
               PROVE  Asks(x, node'[x], p, node'[p], inbox'[p])
    OBVIOUS
  <2>1. Asks(x, node[x], p, node[p], inbox[p]) /\ Queue(inbox[p], sent)
    BY <1>3 DEF Basic
  <2>2. Asks(x, node[x], p, node[p], inbox'[p])
    BY <1>4, <1>8, <1>c, <2>1, AsksTail
  <2>3. node'[p].main = node[p].main
    BY <1>1, <1>6, <1>7 DEF SameRole
  <2>4. CASE x # s
    <3>1. SameSync(node'[x], node[x])
      BY <1>1, <1>7, <2>4, SameProcess
    <3> QED BY <2>2, <2>3, <3>1 DEF Asks, SameSync
  <2>5. CASE x = s
    <3>1. \A j \in DOMAIN inbox'[p] : inbox'[p][j].com # "SYNC" \/ inbox'[p][j].from # s
      <4>1. CASE p = n
        <5>1. Head(inbox[n]).com = "SYNC" /\ Head(inbox[n]).from = s
          BY <1>2, <1>c DEF s
        <5>2. Asks(s, node[s], n, node[n], inbox[n]) /\ Queue(inbox[n], sent) /\ inbox'[n] = Tail(inbox[n])
          BY <1>8, <2>1, <2>5, <4>1
        <5>3. \A j \in DOMAIN Tail(inbox[n]) :
                 Tail(inbox[n])[j].com # "SYNC" \/ Tail(inbox[n])[j].from # s
          BY <1>4, <1>c, <5>1, <5>2, AsksTail
        <5> QED BY <4>1, <5>2, <5>3
      <4>2. CASE p # n
        BY <1>1, <2>2, <2>5, <4>2 DEF Asks
      <4> QED BY <4>1, <4>2
    <3> QED BY <2>5, <3>1 DEF Asks
  <2> QED BY <2>4, <2>5
<1> QED BY <1>9, <1>10, <1>11 DEF Basic

LEMMA SendFilesBasic == ASSUME Basic, NEW n \in Nodes, SendFiles(n) PROVE Basic'
<1> DEFINE s == node[n].serving
           e == [node[s] EXCEPT !.link = disk[n]]
<1>1. /\ s # None /\ node[s].stage = "full" /\ node' = [node EXCEPT ![s].link = disk[n]]
      /\ UNCHANGED <<alive, last, inbox, disk, sent, acked, faults>>
  BY DEF SendFiles
<1>2. s \in Nodes
  BY <1>1, BasicFacts, FieldTypes
<1>3. disk[n] \in DiskType /\ Proc(node[s], sent) /\ Shape(s, node[s], inbox[s], Member(s))
      /\ disk = [disk EXCEPT ![s] = disk[s]] /\ disk[s] \in DiskType
      /\ sent \in Nat /\ sent <= MaxWrites /\ acked \in Nat /\ acked <= sent /\ DOMAIN node = Nodes
  BY <1>2, BasicFacts
<1> HIDE DEF s
<1>4. node' = [node EXCEPT ![s] = e]
  BY <1>1, <1>2, <1>3
<1>5. /\ Proc(e, sent) /\ SameRole(e, node[s]) /\ SameWork(e, node[s]) /\ e.view = node[s].view
      /\ e.stage = node[s].stage /\ e.peer = node[s].peer
  BY <1>1, <1>3, LinkedIs
<1> HIDE DEF e
<1>6. Shape(s, e, inbox[s], Member(s))
  <2>1. node[s].main # "down"
    BY <1>1, <1>3 DEF Shape, Stages
  <2> QED BY <1>1, <1>3, <1>5, <2>1, ShapeSame DEF SameWork
<1>7. /\ sent' = sent /\ acked' = acked /\ inbox' = inbox /\ alive' = alive /\ last' = last
      /\ faults' = faults /\ disk' = [disk EXCEPT ![s] = disk[s]]
  BY <1>1, <1>3
<1>8. /\ Shape(s, e, inbox'[s], Member(s)) /\ Proc(e, sent') /\ node[s].stage # "log"
      /\ (e.main = "wait" => node[s].main = "wait")
  BY <1>1, <1>5, <1>6, <1>7 DEF SameRole
<1>9. sent' \in Nat /\ sent <= sent' /\ sent' <= MaxWrites /\ acked' \in Nat /\ acked' <= sent'
  BY <1>3, <1>7
<1> QED BY <1>2, <1>3, <1>4, <1>7, <1>8, <1>9, LocalStep

\* n sends m to another node, or to nobody.
LEMMA SendStep ==
    ASSUME Basic, NEW n \in Nodes, NEW e, NEW to \in Nodes, NEW m,
           node' = [node EXCEPT ![n] = e],
           UNCHANGED <<alive, last, disk, sent, acked, faults>>,
           \/ inbox' = inbox
           \/ /\ Up(to) /\ m \in Letter /\ Sensible(m, sent) /\ m.com \notin {"KILL", "RESTART"}
              /\ inbox' = [inbox EXCEPT ![to] = Append(@, m)],
           Proc(e, sent), Shape(n, e, inbox[n], Member(n)), e.main = node[n].main,
           \/ m.com # "SYNC" /\ SameSync(e, node[n])
           \/ /\ m.com = "SYNC" /\ m.from = n /\ to # n /\ node[n].stage = "ask" /\ node[to].main # "wait"
              /\ e.stage = "log" /\ e.peer = to /\ e.link = None
    PROVE  Basic'
<1>1. \A x \in Nodes : /\ Proc(node[x], sent) /\ Queue(inbox[x], sent) /\ disk[x] \in DiskType
                       /\ Shape(x, node[x], inbox[x], Member(x))
  BY BasicFacts
<1>2. sent \in Nat /\ DOMAIN inbox = Nodes /\ DOMAIN node = Nodes
  BY BasicScalars
<1>3. /\ node'[n] = e /\ DOMAIN node' = Nodes /\ DOMAIN inbox' = Nodes
      /\ \A x \in Nodes : x # n => node'[x] = node[x]
  BY <1>2
<1>4. \A x \in Nodes : node'[x].main = node[x].main /\ Proc(node'[x], sent)
                       /\ Shape(x, node'[x], inbox[x], Member(x))
  BY <1>1, <1>3
<1>5. \A x \in Nodes :
         \/ inbox'[x] = inbox[x]
         \/ /\ x = to /\ inbox'[x] = Append(inbox[x], m) /\ node[x].main # "down"
            /\ m \in Letter /\ Sensible(m, sent) /\ m.com \notin {"KILL", "RESTART"}
  BY <1>2 DEF Up
<1>6. sent' = sent /\ alive' = alive
  OBVIOUS
<1>7. \A x \in Nodes : Queue(inbox'[x], sent) /\ Shape(x, node'[x], inbox'[x], Member(x))
  <2> SUFFICES ASSUME NEW x \in Nodes
               PROVE  Queue(inbox'[x], sent) /\ Shape(x, node'[x], inbox'[x], Member(x))
    OBVIOUS
  <2>1. CASE inbox'[x] = inbox[x]
    BY <1>1, <1>4, <2>1
  <2>2. CASE /\ inbox'[x] = Append(inbox[x], m) /\ node[x].main # "down"
             /\ m \in Letter /\ Sensible(m, sent) /\ m.com \notin {"KILL", "RESTART"}
    <3>1. Queue(Append(inbox[x], m), sent)
      BY <1>1, <1>2, <2>2, QueueAppend
    <3>2. Queue(inbox[x], sent) /\ node'[x].main # "down" /\ Shape(x, node'[x], inbox[x], Member(x))
      BY <1>1, <1>4, <2>2
    <3>3. Shape(x, node'[x], Append(inbox[x], m), Member(x))
      BY <1>2, <2>2, <3>2, ShapeAppend
    <3> QED BY <2>2, <3>1, <3>3
  <2> QED BY <1>5, <2>1, <2>2
<1>8. TypeInv'
  <2>1. disk' = disk /\ last' = last /\ acked' = acked /\ faults' = faults
    OBVIOUS
  <2> QED BY <1>3, <1>4, <1>6, <1>7, <2>1 DEF Basic, TypeInv
<1>9. \A x, p \in Nodes : Asks(x, node'[x], p, node'[p], inbox'[p])
  <2> SUFFICES ASSUME NEW x \in Nodes, NEW p \in Nodes
               PROVE  Asks(x, node'[x], p, node'[p], inbox'[p])
    OBVIOUS
  <2>1. Asks(x, node[x], p, node[p], inbox[p]) /\ Queue(inbox[p], sent)
        /\ node'[p].main = node[p].main
    BY <1>1, <1>4 DEF Basic
  <2>2. CASE m.com # "SYNC" \/ x # n
    <3>1. Asks(x, node[x], p, node[p], inbox'[p])
      <4>1. CASE inbox'[p] = inbox[p]
        BY <2>1, <4>1
      <4>2. CASE /\ inbox'[p] = Append(inbox[p], m) /\ m \in Letter /\ Sensible(m, sent)
        <5>1. m.com # "SYNC" \/ m.from # x
          BY <2>2
        <5>2. Asks(x, node[x], p, node[p], Append(inbox[p], m))
          BY <1>2, <2>1, <4>2, <5>1, AsksAppend
        <5> QED BY <4>2, <5>2
      <4> QED BY <1>5, <4>1, <4>2
    <3>2. SameSync(node'[x], node[x])
      BY <1>3, <2>2, SameProcess
    <3> QED BY <2>1, <3>1, <3>2 DEF Asks, SameSync
  <2>3. CASE m.com = "SYNC" /\ x = n
    <3>1. /\ m.from = n /\ to # n /\ node[n].stage = "ask" /\ node[to].main # "wait"
          /\ e.stage = "log" /\ e.peer = to /\ e.link = None
      BY <2>3
    <3>2. \A i \in DOMAIN inbox[p] : inbox[p][i].com # "SYNC" \/ inbox[p][i].from # n
      BY <2>1, <2>3, <3>1 DEF Asks
    <3>3. CASE inbox'[p] = inbox[p]
      BY <2>3, <3>2, <3>3 DEF Asks
    <3>4. CASE /\ p = to /\ inbox'[p] = Append(inbox[p], m) /\ m \in Letter /\ Sensible(m, sent)
      <4>1. \A i \in DOMAIN Append(inbox[p], m) : i # Len(inbox[p]) + 1 =>
               Append(inbox[p], m)[i].com # "SYNC" \/ Append(inbox[p], m)[i].from # n
        BY <1>2, <2>1, <3>2, <3>4, QueueAppend
      <4>2. node'[to].main # "wait" /\ node'[n] = e
        BY <1>3, <1>4, <3>1
      <4> QED BY <2>3, <3>1, <3>4, <4>1, <4>2 DEF Asks
    <3> QED BY <1>5, <3>3, <3>4
  <2> QED BY <2>2, <2>3
<1>10. \A x \in Nodes : Member(x)' = Member(x)
  BY <1>6 DEF Member
<1> QED BY <1>7, <1>8, <1>9, <1>10 DEF Basic

LEMMA ForwardOneBasic == ASSUME Basic, NEW n \in Nodes, ForwardOne(n) PROVE Basic'
<1> DEFINE d == node[n]
           to == Head(d.todo)
           t == Tail(d.todo)
           e == [d EXCEPT !.todo = t]
           m == IF d.conn = "forward" THEN Message("WRITE", <<>>, None, [d.cur EXCEPT !.client = FALSE])
                ELSE Message("CKPT", <<>>, None, None)
<1>1. /\ d.conn \in {"forward", "ckpt"} /\ d.todo # <<>>
      /\ inbox' = IF Up(to) THEN [inbox EXCEPT ![to] = Append(@, m)] ELSE inbox
      /\ node' = [node EXCEPT ![n].todo = Tail(@)]
      /\ UNCHANGED <<alive, last, disk, sent, acked, faults>>
  BY DEF ForwardOne
<1>2. Proc(d, sent) /\ Shape(n, d, inbox[n], Member(n)) /\ DOMAIN node = Nodes
  BY BasicFacts
<1>3. to \in Nodes /\ t \in Seq(Nodes)
  BY <1>1, <1>2, FieldTypes
<1>4. node' = [node EXCEPT ![n] = e]
  BY <1>1, <1>2
<1>5. /\ m \in Letter /\ Sensible(m, sent) /\ m.com \notin {"KILL", "RESTART", "SYNC"}
  <2>1. CASE d.conn = "forward"
    <3>1. d.cur \in Write /\ d.cur.val <= sent
      BY <1>2, <2>1 DEF Proc
    <3>2. [d.cur EXCEPT !.client = FALSE] \in Write /\ [d.cur EXCEPT !.client = FALSE].val = d.cur.val
      BY <3>1 DEF Write
    <3>3. m = Message("WRITE", <<>>, None, [d.cur EXCEPT !.client = FALSE]) /\ m.com = "WRITE"
      BY <2>1 DEF Message
    <3> QED BY <3>1, <3>2, <3>3, Letters
  <2>2. CASE d.conn # "forward"
    <3>1. m = Message("CKPT", <<>>, None, None) /\ m.com = "CKPT"
      BY <2>2 DEF Message
    <3> QED BY <3>1, Letters
  <2> QED BY <2>1, <2>2
<1> HIDE DEF m, t, to
<1>6. /\ e \in Process /\ SameRole(e, d) /\ SameSync(e, d) /\ e.view = d.view /\ e.conn = d.conn
      /\ e.cur = d.cur
  BY <1>2, <1>3 DEF Proc, Process, SameRole, SameSync
<1> HIDE DEF e
<1>7. Proc(e, sent)
  BY <1>2, <1>6 DEF Proc, SameSync
<1>8. Shape(n, e, inbox[n], Member(n))
  <2>1. d.main # "down"
    BY <1>1, <1>2 DEF Shape, Called, Down, Fresh
  <2> QED BY <1>2, <1>6, <2>1, ShapeSame DEF SameSync
<1>9. e.main = node[n].main
  BY <1>6 DEF SameRole
<1>10. inbox' = inbox \/ (Up(to) /\ inbox' = [inbox EXCEPT ![to] = Append(@, m)])
  BY <1>1
<1> QED BY <1>1, <1>3, <1>4, <1>5, <1>6, <1>7, <1>8, <1>9, <1>10, SendStep

AskSync(n) ==
    LET p == node[n].peer IN
    /\ node[n].stage = "ask" /\ Up(p) /\ node[p].main # "wait" /\ ~node[n].primary
    /\ node' = [node EXCEPT ![n].stage = "log"]
    /\ inbox' = [inbox EXCEPT ![p] = Append(@, Message("SYNC", <<>>, n, None))]
    /\ UNCHANGED <<alive, last, disk, sent, acked, faults>>

LEMMA AskSyncBasic == ASSUME Basic, NEW n \in Nodes, AskSync(n) PROVE Basic'
<1> DEFINE d == node[n]
           p == d.peer
           e == [d EXCEPT !.stage = "log"]
           m == Message("SYNC", <<>>, n, None)
<1>1. /\ d.stage = "ask" /\ Up(p) /\ node[p].main # "wait"
      /\ inbox' = [inbox EXCEPT ![p] = Append(@, m)]
      /\ node' = [node EXCEPT ![n].stage = "log"]
      /\ UNCHANGED <<alive, last, disk, sent, acked, faults>>
  BY DEF AskSync
<1>2. Proc(d, sent) /\ Shape(n, d, inbox[n], Member(n)) /\ DOMAIN node = Nodes
  BY BasicFacts
<1>3. p \in Nodes /\ p # n /\ d.link = None
  BY <1>1, <1>2 DEF Shape, Stages, Proc
<1>4. node' = [node EXCEPT ![n] = e]
  BY <1>1, <1>2
<1>5. /\ m \in Letter /\ Sensible(m, sent) /\ m.com = "SYNC" /\ m.from = n
  BY Letters DEF Message
<1> HIDE DEF m
<1>6. /\ e \in Process /\ SameRole(e, d) /\ e.view = d.view /\ SameWork(e, d)
      /\ e.stage = "log" /\ e.peer = d.peer /\ e.link = None
  BY <1>2, <1>3 DEF Proc, Process, SameRole, SameWork
<1> HIDE DEF e
<1>7. Proc(e, sent)
  BY <1>2, <1>6 DEF Proc, SameWork
<1>8. Shape(n, e, inbox[n], Member(n))
  BY <1>1, <1>2, <1>6 DEF Shape, Stages, Called, Told, SameRole, SameWork, Down, Fresh
<1>9. e.main = node[n].main
  BY <1>6 DEF SameRole
<1>10. \/ inbox' = inbox
       \/ /\ Up(p) /\ m \in Letter /\ Sensible(m, sent) /\ m.com \notin {"KILL", "RESTART"}
          /\ inbox' = [inbox EXCEPT ![p] = Append(@, m)]
  BY <1>1, <1>5
<1>11. \/ m.com # "SYNC" /\ SameSync(e, node[n])
       \/ /\ m.com = "SYNC" /\ m.from = n /\ p # n /\ node[n].stage = "ask" /\ node[p].main # "wait"
          /\ e.stage = "log" /\ e.peer = p /\ e.link = None
  BY <1>1, <1>3, <1>5, <1>6
<1>12. UNCHANGED <<alive, last, disk, sent, acked, faults>> /\ p \in Nodes
  BY <1>1, <1>3
<1> HIDE DEF p, d
<1> QED BY <1>4, <1>7, <1>12, <1>8, <1>9, <1>10, <1>11, SendStep

\* A node has recovered; its primary is released.
LetGo(d, n) == IF d.serving = n THEN [d EXCEPT !.serving = None] ELSE d
Ready(d, log) ==
    [Replayed(d, log) EXCEPT !.stage = "no", !.peer = None, !.link = None,
                             !.main = "run", !.conn = IF @ = "join" THEN "idle" ELSE @]
JoinedWell(n, dk) ==
    /\ Replayable(dk.log)
    /\ node' = Released([node EXCEPT ![n] = Ready(node[n], dk.log)], n)
    /\ disk' = [disk EXCEPT ![n] = dk]
    /\ UNCHANGED <<alive, last, inbox>>

LEMMA LetGoIs ==
    ASSUME NEW w, NEW d, Proc(d, w), NEW n
    PROVE  /\ Proc(LetGo(d, n), w) /\ SameRole(LetGo(d, n), d) /\ SameSync(LetGo(d, n), d)
           /\ SameCache(LetGo(d, n), d) /\ SameWork(LetGo(d, n), d) /\ LetGo(d, n).view = d.view
           /\ LetGo(d, n).serving = IF d.serving = n THEN None ELSE d.serving
<1> DEFINE e == [d EXCEPT !.serving = None]
<1>1. d \in Process
  BY DEF Proc
<1>2. /\ e \in Process /\ SameRole(e, d) /\ SameSync(e, d)
      /\ SameCache(e, d) /\ SameWork(e, d) /\ e.view = d.view /\ e.serving = None
  BY <1>1 DEF Process, SameRole, SameSync, SameCache, SameWork
<1>3. d.serving = n => LetGo(d, n) = e
  BY DEF LetGo
<1>4. d.serving # n => LetGo(d, n) = d
  BY DEF LetGo
<1> HIDE DEF e
<1>5. Proc(e, w)
  BY <1>2 DEF Proc, SameSync, SameWork
<1> QED BY <1>2, <1>3, <1>4, <1>5, SameProcess

LEMMA ReadyIs ==
    ASSUME NEW w, NEW d, Proc(d, w), NEW log \in LogType
    PROVE  /\ Proc(Ready(d, log), w)
           /\ Ready(d, log).main = "run" /\ Ready(d, log).killed = d.killed
           /\ Ready(d, log).primary = d.primary
           /\ Ready(d, log).stage = "no" /\ Ready(d, log).peer = None /\ Ready(d, log).link = None
           /\ Ready(d, log).conn = (IF d.conn = "join" THEN "idle" ELSE d.conn)
           /\ Ready(d, log).cur = d.cur /\ Ready(d, log).todo = d.todo
           /\ Ready(d, log).view = d.view /\ Ready(d, log).serving = d.serving
           /\ Ready(d, log).seq = log.ckpt + Len(log.ents)
           /\ Ready(d, log).update = IF log.ents = <<>> THEN None ELSE log.ents[Len(log.ents)].val
<1> DEFINE f == Replayed(d, log)
           c == IF f.conn = "join" THEN "idle" ELSE f.conn
           e == [f EXCEPT !.stage = "no", !.peer = None, !.link = None, !.main = "run", !.conn = c]
<1>1. /\ Proc(f, w) /\ SameRole(f, d) /\ SameSync(f, d) /\ SameWork(f, d)
      /\ f.view = d.view /\ f.serving = d.serving
      /\ f.seq = log.ckpt + Len(log.ents)
      /\ f.update = IF log.ents = <<>> THEN None ELSE log.ents[Len(log.ents)].val
  BY ReplayedIs
<1>2. f \in Process
  BY <1>1 DEF Proc
<1>3. Ready(d, log) = e
  BY <1>2 DEF Ready, Process
<1> HIDE DEF f
<1>4. c \in {"idle", "forward", "ckpt", "serve", "join"}
  BY <1>2 DEF Process
<1>c. c = IF f.conn = "join" THEN "idle" ELSE f.conn
  OBVIOUS
<1> HIDE DEF c
<1>5. /\ e \in Process /\ e.main = "run" /\ e.killed = f.killed /\ e.primary = f.primary
      /\ e.stage = "no" /\ e.peer = None /\ e.link = None /\ e.conn = c
      /\ e.cur = f.cur /\ e.todo = f.todo /\ e.view = f.view /\ e.serving = f.serving
      /\ e.seq = f.seq /\ e.update = f.update
  BY ZenonT(60), <1>2, <1>4 DEF Process
<1> HIDE DEF e
<1>6. Proc(e, w)
  BY <1>1, <1>5, <1>c DEF Proc
<1> QED BY <1>1, <1>3, <1>5, <1>6, <1>c DEF SameRole, SameWork

JoinedEffect(n, dk) ==
    /\ DOMAIN node' = Nodes
    /\ node'[n] = LetGo(Ready(node[n], dk.log), n)
    /\ \A x \in Nodes : x # n => node'[x] = LetGo(node[x], n)

LEMMA JoinedWellIs ==
    ASSUME Basic, NEW n \in Nodes, NEW dk, JoinedWell(n, dk)
    PROVE  JoinedEffect(n, dk)
<1> DEFINE f == [node EXCEPT ![n] = Ready(node[n], dk.log)]
<1>1. DOMAIN node = Nodes
  BY BasicScalars
<1>2. node' = Released(f, n)
  BY <1>1 DEF JoinedWell
<1>3. node' = [m \in Nodes |-> LetGo(f[m], n)]
  BY <1>2 DEF Released, LetGo
<1>4. f[n] = Ready(node[n], dk.log) /\ \A x \in Nodes : x # n => f[x] = node[x]
  BY <1>1
<1> HIDE DEF f
<1> QED BY <1>3, <1>4 DEF JoinedEffect

LEMMA JoinedWellBasic ==
    ASSUME Basic, NEW n \in Nodes, NEW dk \in DiskType, JoinedWell(n, dk),
           node[n].stage \in {"log", "full"}, node[n].link # None,
           UNCHANGED <<sent, acked, faults>>
    PROVE  Basic'
<1> DEFINE e == Ready(node[n], dk.log)
<1>1. \A x \in Nodes : /\ Proc(node[x], sent) /\ Queue(inbox[x], sent)
                       /\ Shape(x, node[x], inbox[x], Member(x))
  BY BasicFacts
<1>2. /\ disk' = [disk EXCEPT ![n] = dk]
      /\ alive' = alive /\ last' = last /\ inbox' = inbox /\ sent' = sent /\ acked' = acked /\ faults' = faults
  BY DEF JoinedWell
<1>3. dk.log \in LogType
  BY DEF DiskType
<1>4. /\ Proc(e, sent) /\ e.main = "run" /\ e.killed = node[n].killed /\ e.primary = node[n].primary
      /\ e.stage = "no" /\ e.peer = None /\ e.view = node[n].view
      /\ e.conn = (IF node[n].conn = "join" THEN "idle" ELSE node[n].conn)
  BY <1>1, <1>3, ReadyIs
<1>5. /\ DOMAIN node' = Nodes /\ node'[n] = LetGo(e, n)
      /\ \A x \in Nodes : x # n => node'[x] = LetGo(node[x], n)
  BY JoinedWellIs DEF JoinedEffect
<1> HIDE DEF e
<1>6. \A x \in Nodes : Proc(node'[x], sent)
  BY <1>1, <1>4, <1>5, LetGoIs
<1>7. TypeInv'
  <2>1. disk' \in [Nodes -> DiskType]
    BY <1>2, BasicScalars
  <2> QED BY <1>1, <1>2, <1>5, <1>6, <2>1 DEF Basic, TypeInv
<1>8. Shape(n, e, inbox[n], Member(n))
  <2>1. Stages(n, e)
    BY <1>4 DEF Stages
  <2>2. /\ Member(n) /\ ~node[n].killed /\ \A i \in DOMAIN inbox[n] : inbox[n][i].com \notin {"KILL", "RESTART"}
        /\ node[n].main # "down"
    BY <1>1 DEF Shape, Stages, Called, Holds
  <2>3. Called(e, inbox[n], Member(n))
    BY <1>4, <2>2 DEF Called, Holds
  <2>4. Told(n, e, inbox[n])
    BY <1>1, <1>4, <2>2 DEF Told, Shape
  <2> QED BY <2>1, <2>3, <2>4 DEF Shape
<1>9. \A x \in Nodes : Shape(x, node'[x], inbox'[x], Member(x)')
  <2> SUFFICES ASSUME NEW x \in Nodes PROVE Shape(x, node'[x], inbox[x], Member(x))
    BY <1>2 DEF Member
  <2>1. CASE x = n
    <3>1. /\ SameRole(node'[n], e) /\ SameSync(node'[n], e) /\ SameWork(node'[n], e)
          /\ node'[n].view = e.view
      BY <1>4, <1>5, LetGoIs
    <3>2. e.main # "down"
      BY <1>4
    <3> QED BY <1>8, <2>1, <3>1, <3>2, ShapeSame DEF SameSync, SameWork
  <2>2. CASE x # n
    <3>1. /\ SameRole(node'[x], node[x]) /\ SameSync(node'[x], node[x]) /\ SameWork(node'[x], node[x])
          /\ node'[x].view = node[x].view
      BY <1>1, <1>5, <2>2, LetGoIs
    <3>2. CASE node[x].main = "down"
      <4>1. node[x] = Down
        BY <1>1, <3>2 DEF Shape, Called
      <4>2. Down.serving # n
        BY GroupNone DEF Down, Fresh
      <4>3. node'[x] = node[x]
        BY <1>5, <2>2, <4>1, <4>2 DEF LetGo
      <4> QED BY <1>1, <4>3
    <3>3. CASE node[x].main # "down"
      BY <1>1, <3>1, <3>3, ShapeSame DEF SameSync, SameWork
    <3> QED BY <3>2, <3>3
  <2> QED BY <2>1, <2>2
<1>10. \A x, p \in Nodes : Asks(x, node'[x], p, node'[p], inbox'[p])
  <2> SUFFICES ASSUME NEW x \in Nodes, NEW p \in Nodes
               PROVE  Asks(x, node'[x], p, node'[p], inbox[p])
    BY <1>2
  <2>1. Asks(x, node[x], p, node[p], inbox[p])
    BY DEF Basic
  <2>2. node'[p].main = "wait" => node[p].main = "wait"
    <3>1. CASE p = n
      BY <1>4, <1>5, <3>1, LetGoIs DEF SameRole
    <3>2. CASE p # n
      BY <1>1, <1>5, <3>2, LetGoIs DEF SameRole
    <3> QED BY <3>1, <3>2
  <2>3. CASE x = n
    BY <2>1, <2>3 DEF Asks
  <2>4. CASE x # n
    <3>1. SameSync(node'[x], node[x])
      BY <1>1, <1>5, <2>4, LetGoIs
    <3> QED BY <2>1, <2>2, <3>1 DEF Asks, SameSync
  <2> QED BY <2>3, <2>4
<1> QED BY <1>7, <1>9, <1>10 DEF Basic

------------------------------------------------------------------------------
(* Processes come and go.                                                  *)

LEMMA AnnounceIs ==
    ASSUME NEW list \in Seq(Nodes), NEW boxes
    PROVE  /\ DOMAIN Announce(list, boxes) = Nodes
           /\ \A x \in Nodes : Announce(list, boxes)[x] =
                 IF x \in Range(list) THEN Append(boxes[x], News(list)) ELSE boxes[x]
BY DEF Announce, News

LEMMA TellShape ==
    ASSUME NEW w \in Nat, NEW q, Queue(q, w), NEW list \in Seq(Nodes), list # <<>>,
           NEW n, NEW mem, NEW d, d.main # "down", Shape(n, d, q, mem)
    PROVE  Queue(Append(q, News(list)), w) /\ Shape(n, d, Append(q, News(list)), mem)
<1>1. News(list) \in Letter /\ Sensible(News(list), w)
  BY Letters
<1>2. News(list).com \notin {"KILL", "RESTART"}
  BY DEF News, Message
<1> QED BY <1>1, <1>2, QueueAppend, ShapeAppend

LEMMA TellAsks ==
    ASSUME NEW w \in Nat, NEW q, Queue(q, w), NEW list \in Seq(Nodes), list # <<>>,
           NEW n, NEW dn, NEW p, NEW dp, Asks(n, dn, p, dp, q)
    PROVE  Asks(n, dn, p, dp, Append(q, News(list)))
<1>1. News(list) \in Letter /\ Sensible(News(list), w)
  BY Letters
<1>2. News(list).com # "SYNC"
  BY DEF News, Message
<1> QED BY <1>1, <1>2, AsksAppend

\* What is left of a process whose peer n has died.
Parted(d, n) ==
    [d EXCEPT !.peer    = IF d.peer = n /\ d.stage # "ask" THEN None ELSE d.peer,
              !.serving = IF d.serving = n THEN None ELSE d.serving]

LEMMA PartedIs ==
    ASSUME NEW w, NEW d, Proc(d, w), NEW n
    PROVE  /\ Proc(Parted(d, n), w) /\ SameRole(Parted(d, n), d) /\ SameCache(Parted(d, n), d)
           /\ SameWork(Parted(d, n), d)
           /\ Parted(d, n).view = d.view /\ Parted(d, n).stage = d.stage /\ Parted(d, n).link = d.link
           /\ Parted(d, n).peer = (IF d.peer = n /\ d.stage # "ask" THEN None ELSE d.peer)
           /\ Parted(d, n).serving = IF d.serving = n THEN None ELSE d.serving
<1> DEFINE b == IF d.peer = n /\ d.stage # "ask" THEN None ELSE d.peer
           c == IF d.serving = n THEN None ELSE d.serving
           e == [d EXCEPT !.peer = b, !.serving = c]
<1>1. d \in Process
  BY DEF Proc
<1>2. b \in Nodes \cup {None} /\ c \in Nodes \cup {None}
  BY FieldTypes
<1>3. e = Parted(d, n)
  BY DEF Parted
<1>c. b = (IF d.peer = n /\ d.stage # "ask" THEN None ELSE d.peer)
      /\ c = IF d.serving = n THEN None ELSE d.serving
  OBVIOUS
<1> HIDE DEF b, c
<1>4. /\ e \in Process /\ SameRole(e, d) /\ SameCache(e, d) /\ SameWork(e, d) /\ e.view = d.view
      /\ e.stage = d.stage /\ e.link = d.link /\ e.peer = b /\ e.serving = c
  BY ZenonT(60), <1>1, <1>2 DEF Process, SameRole, SameCache, SameWork
<1> HIDE DEF e
<1>5. Proc(e, w)
  BY <1>4 DEF Proc, SameWork
<1> QED BY <1>3, <1>4, <1>5, <1>c

LEMMA PartedDown == ASSUME NEW n \in Nodes PROVE Parted(Down, n) = Down
BY GroupNone DEF Parted, Down, Fresh

DieEffect(n) ==
    /\ DOMAIN node' = Nodes /\ DOMAIN inbox' = Nodes
    /\ alive' = (IF Member(n) THEN Without(alive, n) ELSE alive)
    /\ last' = (IF Member(n) /\ Recovered(alive) = {n} THEN n ELSE last)
    /\ node'[n] = Down /\ inbox'[n] = <<>>
    /\ \A x \in Nodes : x # n =>
          /\ node'[x] = Parted(node[x], n)
          /\ inbox'[x] = IF Member(n) /\ x \in Range(alive')
                         THEN Append(Unasked(inbox[x], n), News(alive'))
                         ELSE Unasked(inbox[x], n)

LEMMA DieIs ==
    ASSUME Basic, NEW n \in Nodes, Die(n, node)
    PROVE  DieEffect(n)
<1> DEFINE boxes == [m \in Nodes |-> IF m = n THEN <<>> ELSE Unasked(inbox[m], n)]
<1>1. node' = Disconnected(node, n) /\ Leave(n, boxes)
  BY DEF Die
<1>2. /\ DOMAIN node' = Nodes /\ node'[n] = Down
      /\ \A x \in Nodes : x # n => node'[x] = Parted(node[x], n)
  <2>1. \A x \in Nodes : x # n => node'[x] =
           [node[x] EXCEPT !.peer    = IF @ = n /\ node[x].stage # "ask" THEN None ELSE @,
                           !.serving = IF @ = n THEN None ELSE @]
    BY <1>1 DEF Disconnected
  <2>2. \A x \in Nodes : node[x] \in Process
    BY BasicFacts DEF Proc
  <2>3. \A x \in Nodes : x # n => node'[x] = Parted(node[x], n)
    <3> SUFFICES ASSUME NEW x \in Nodes, x # n PROVE node'[x] = Parted(node[x], n)
      OBVIOUS
    <3>1. node[x] \in Process /\ node'[x] =
           [node[x] EXCEPT !.peer    = IF @ = n /\ node[x].stage # "ask" THEN None ELSE @,
                           !.serving = IF @ = n THEN None ELSE @]
      BY <2>1, <2>2
    <3> QED BY ONLY <3>1 DEF Parted, Process
  <2> QED BY <1>1, <2>3 DEF Disconnected
<1>3. /\ boxes[n] = <<>> /\ DOMAIN boxes = Nodes
      /\ \A x \in Nodes : x # n => boxes[x] = Unasked(inbox[x], n)
  OBVIOUS
<1> HIDE DEF boxes
<1>4. alive \in Seq(Nodes) /\ Without(alive, n) \in Seq(Nodes) /\ n \notin Range(Without(alive, n))
  BY BasicScalars, WithoutIs
<1>5. CASE Member(n)
  <2>1. /\ alive' = Without(alive, n) /\ inbox' = Announce(alive', boxes)
        /\ last' = IF Recovered(alive) = {n} THEN n ELSE last
    BY <1>1, <1>5 DEF Leave, Member
  <2>2. DOMAIN inbox' = Nodes /\ \A x \in Nodes : inbox'[x] =
             IF x \in Range(alive') THEN Append(boxes[x], News(alive')) ELSE boxes[x]
    BY <1>4, <2>1, AnnounceIs
  <2> QED BY <1>2, <1>3, <1>4, <1>5, <2>1, <2>2 DEF DieEffect
<1>6. CASE ~Member(n)
  <2>1. inbox' = boxes /\ alive' = alive /\ last' = last
    BY <1>1, <1>6 DEF Leave, Member
  <2> QED BY <1>2, <1>3, <1>6, <2>1 DEF DieEffect
<1> QED BY <1>5, <1>6

LEMMA DieBasic ==
    ASSUME Basic, NEW n \in Nodes, Die(n, node), NEW dk \in DiskType,
           disk' = [disk EXCEPT ![n] = dk],
           sent' = sent, acked' = acked, faults' \in 0 .. MaxFaults
    PROVE  Basic'
<1>1. \A x \in Nodes : /\ Proc(node[x], sent) /\ Queue(inbox[x], sent)
                       /\ Shape(x, node[x], inbox[x], Member(x))
  BY BasicFacts
<1>2. /\ alive \in Seq(Nodes) /\ sent \in Nat
      /\ Without(alive, n) \in Seq(Nodes) /\ Range(Without(alive, n)) = Range(alive) \ {n}
  BY BasicScalars, WithoutIs
<1>3. DieEffect(n)
  BY DieIs
<1>4. alive' \in Seq(Nodes) /\ Range(alive') = Range(alive) \ {n}
  BY <1>2, <1>3 DEF DieEffect, Member
<1>5. \A x \in Nodes : x \in Range(alive') => alive' # <<>>
  BY <1>4, RangeEmpty
<1>6. \A x \in Nodes : Proc(node'[x], sent)
  BY <1>1, <1>3, PartedIs, DownProc DEF DieEffect
<1>7. \A x \in Nodes : Queue(inbox'[x], sent)
  <2> SUFFICES ASSUME NEW x \in Nodes PROVE Queue(inbox'[x], sent)
    OBVIOUS
  <2>1. Queue(<<>>, sent)
    BY DEF Queue
  <2>2. Queue(Unasked(inbox[x], n), sent)
    BY <1>1, <1>2, QueuePick
  <2>3. x \in Range(alive') => Queue(Append(Unasked(inbox[x], n), News(alive')), sent)
    <3> SUFFICES ASSUME x \in Range(alive') PROVE Queue(Append(Unasked(inbox[x], n), News(alive')), sent)
      OBVIOUS
    <3>1. News(alive') \in Letter /\ Sensible(News(alive'), sent)
      BY <1>4, <1>5, Letters
    <3> QED BY <1>2, <2>2, <3>1, QueueAppend
  <2> QED BY <1>3, <2>1, <2>2, <2>3 DEF DieEffect
<1>8. TypeInv'
  <2>1. disk' \in [Nodes -> DiskType] /\ last' \in Nodes \cup {None}
    BY <1>3, BasicScalars DEF DieEffect
  <2>2. /\ sent' \in Nat /\ sent' <= MaxWrites /\ acked' \in Nat /\ acked' <= sent' /\ sent' = sent
    BY BasicScalars
  <2>3. DOMAIN node' = Nodes /\ DOMAIN inbox' = Nodes
    BY <1>3 DEF DieEffect
  <2> QED BY <1>4, <1>6, <1>7, <2>1, <2>2, <2>3 DEF TypeInv
<1>9. \A x \in Nodes : Shape(x, node'[x], inbox'[x], Member(x)')
  <2> SUFFICES ASSUME NEW x \in Nodes PROVE Shape(x, node'[x], inbox'[x], Member(x)')
    OBVIOUS
  <2>1. CASE x = n
    <3>1. node'[n] = Down /\ inbox'[n] = <<>> /\ ~Member(n)'
      BY <1>3, <1>4 DEF DieEffect, Member
    <3>2. Stages(n, Down) /\ Called(Down, <<>>, FALSE) /\ Told(n, Down, <<>>)
      BY DEF Stages, Called, Told, Holds, Down, Fresh
    <3>3. Member(n)' = FALSE
      BY <3>1
    <3> QED BY <2>1, <3>1, <3>2, <3>3 DEF Shape
  <2>2. CASE x # n
    <3>0. Member(x)' = Member(x)
      BY <1>4, <2>2 DEF Member
    <3>1. Shape(x, node[x], Unasked(inbox[x], n), Member(x)) /\ Queue(Unasked(inbox[x], n), sent)
      BY <1>1, <1>2, ShapeUnasked, QueuePick
    <3>2. node'[x] = Parted(node[x], n)
      BY <1>3, <2>2 DEF DieEffect
    <3>3. CASE node[x].main = "down"
      <4>1. node[x] = Down /\ ~Member(x) /\ x \notin Range(alive')
        BY <1>1, <1>4, <3>3 DEF Shape, Called, Member
      <4>2. node'[x] = node[x] /\ inbox'[x] = Unasked(inbox[x], n)
        BY <1>3, <2>2, <3>2, <4>1, PartedDown DEF DieEffect
      <4> QED BY <3>0, <3>1, <4>2
    <3>4. CASE node[x].main # "down"
      <4>1. /\ SameRole(node'[x], node[x]) /\ SameWork(node'[x], node[x]) /\ node'[x].view = node[x].view
            /\ node'[x].stage = node[x].stage
            /\ node'[x].stage \in {"ask", "no"} => node'[x].peer = node[x].peer
        <5>1. node[x].stage = "no" => node[x].peer = None
          BY <1>1 DEF Shape, Stages
        <5> QED BY <1>1, <3>2, <5>1, PartedIs
      <4>2. Shape(x, node'[x], Unasked(inbox[x], n), Member(x))
        BY <3>1, <3>4, <4>1, ShapeSame DEF SameWork
      <4>3. node'[x].main # "down"
        BY <3>4, <4>1 DEF SameRole
      <4>4. x \in Range(alive') => Shape(x, node'[x], Append(Unasked(inbox[x], n), News(alive')), Member(x))
        BY <1>2, <1>4, <1>5, <3>1, <4>2, <4>3, TellShape
      <4> QED BY <1>3, <2>2, <3>0, <4>2, <4>4 DEF DieEffect
    <3> QED BY <3>3, <3>4
  <2> QED BY <2>1, <2>2
<1>10. \A x, p \in Nodes : Asks(x, node'[x], p, node'[p], inbox'[p])
  <2> SUFFICES ASSUME NEW x \in Nodes, NEW p \in Nodes
               PROVE  Asks(x, node'[x], p, node'[p], inbox'[p])
    OBVIOUS
  <2>1. CASE p = n
    <3>1. inbox'[p] = <<>>
      BY <1>3, <2>1 DEF DieEffect
    <3> QED BY <3>1 DEF Asks
  <2>2. CASE p # n
    <3>1. /\ Asks(x, node[x], p, node[p], Unasked(inbox[p], n))
          /\ \A j \in DOMAIN Unasked(inbox[p], n) :
                Unasked(inbox[p], n)[j].com # "SYNC" \/ Unasked(inbox[p], n)[j].from # n
      BY <1>1, <1>2, AsksUnasked DEF Basic
    <3>2. Asks(x, node'[x], p, node'[p], Unasked(inbox[p], n))
      <4>1. CASE x = n
        BY <3>1, <4>1 DEF Asks
      <4>2. CASE x # n
        <5>1. /\ node'[x].stage = node[x].stage /\ node'[x].link = node[x].link
              /\ node'[p].main = node[p].main
              /\ node[x].peer = p => node'[x].peer = p
          BY <1>1, <1>3, <2>2, <4>2, PartedIs DEF DieEffect, SameRole
        <5> QED BY <3>1, <5>1 DEF Asks
      <4> QED BY <4>1, <4>2
    <3>3. Queue(Unasked(inbox[p], n), sent)
      BY <1>1, <1>2, QueuePick
    <3>4. p \in Range(alive') => Asks(x, node'[x], p, node'[p], Append(Unasked(inbox[p], n), News(alive')))
      BY <1>2, <1>4, <1>5, <3>2, <3>3, TellAsks
    <3> QED BY <1>3, <2>2, <3>2, <3>4 DEF DieEffect
  <2> QED BY <2>1, <2>2
<1> QED BY <1>8, <1>9, <1>10 DEF Basic

\* The master adds n to the list, or removes it, and tells the members.
LEMMA BroadcastStep ==
    ASSUME Basic, NEW n \in Nodes,
           alive' \in Seq(Nodes), last' \in Nodes \cup {None}, disk' = disk,
           sent' = sent, acked' = acked, faults' \in 0 .. MaxFaults,
           DOMAIN node' = Nodes, DOMAIN inbox' = Nodes,
           \A x \in Nodes : x # n =>
              /\ node'[x] = node[x] /\ (x \in Range(alive') <=> x \in Range(alive))
              /\ inbox'[x] = IF x \in Range(alive') THEN Append(inbox[x], News(alive')) ELSE inbox[x],
           Queue(inbox'[n], sent), Proc(node'[n], sent),
           Shape(n, node'[n], inbox'[n], n \in Range(alive')),
           \A x \in Nodes : Asks(x, node'[x], n, node'[n], inbox'[n]),
           \A x \in Nodes : x # n => Asks(n, node'[n], x, node[x], inbox[x])
    PROVE  Basic'
<1>1. \A x \in Nodes : /\ Proc(node[x], sent) /\ Queue(inbox[x], sent)
                       /\ Shape(x, node[x], inbox[x], Member(x))
  BY BasicFacts
<1>2. sent \in Nat /\ sent <= MaxWrites /\ acked \in Nat /\ acked <= sent /\ disk \in [Nodes -> DiskType]
  BY BasicScalars
<1>3. \A x \in Nodes : x \in Range(alive') => alive' # <<>>
  BY RangeEmpty
<1>4. \A x \in Nodes : x # n /\ x \in Range(alive') =>
         /\ Queue(Append(inbox[x], News(alive')), sent)
         /\ Shape(x, node[x], Append(inbox[x], News(alive')), Member(x))
  <2> SUFFICES ASSUME NEW x \in Nodes, x # n, x \in Range(alive')
               PROVE  /\ Queue(Append(inbox[x], News(alive')), sent)
                      /\ Shape(x, node[x], Append(inbox[x], News(alive')), Member(x))
    OBVIOUS
  <2>1. node[x].main # "down"
    BY <1>1 DEF Shape, Called, Member
  <2> QED BY <1>1, <1>2, <1>3, <2>1, TellShape
<1>5. \A x \in Nodes : Queue(inbox'[x], sent) /\ Proc(node'[x], sent)
  BY <1>1, <1>4
<1>6. TypeInv'
  BY <1>2, <1>5 DEF TypeInv
<1>7. \A x \in Nodes : Shape(x, node'[x], inbox'[x], Member(x)')
  <2>1. \A x \in Nodes : Member(x)' = (x \in Range(alive'))
    BY DEF Member
  <2>2. \A x \in Nodes : x # n => Member(x)' = Member(x)
    BY DEF Member
  <2> QED BY <1>1, <1>4, <2>1, <2>2
<1>8. \A x, p \in Nodes : Asks(x, node'[x], p, node'[p], inbox'[p])
  <2> SUFFICES ASSUME NEW x \in Nodes, NEW p \in Nodes, p # n
               PROVE  Asks(x, node'[x], p, node'[p], inbox'[p])
    OBVIOUS
  <2>1. Asks(x, node'[x], p, node[p], inbox[p])
    BY DEF Basic
  <2>2. p \in Range(alive') => Asks(x, node'[x], p, node[p], Append(inbox[p], News(alive')))
    BY <1>1, <1>2, <1>3, <2>1, TellAsks
  <2> QED BY <2>1, <2>2
<1> QED BY <1>6, <1>7, <1>8 DEF Basic

LEMMA StartBasic == ASSUME Basic, NEW n \in Nodes, Start(n) PROVE Basic'
<1>1. /\ alive \in Seq(Nodes) /\ DOMAIN node = Nodes /\ sent \in Nat
      /\ last \in Nodes \cup {None} /\ faults \in 0 .. MaxFaults
  BY BasicScalars
<1>2. node[n] = Down /\ inbox[n] = <<>> /\ ~Member(n)
  BY BasicFacts DEF Start, Up, Shape, Called
<1>3. /\ alive' = Append(alive, n) /\ inbox' = Announce(alive', inbox)
      /\ node' = [node EXCEPT ![n] = Fresh]
      /\ last' = last /\ disk' = disk /\ sent' = sent /\ acked' = acked /\ faults' = faults
  BY DEF Start
<1>4. alive' \in Seq(Nodes) /\ Range(alive') = Range(alive) \cup {n} /\ alive' # <<>>
  BY <1>1, <1>3, RangeAppend
<1>5. DOMAIN inbox' = Nodes /\ \A x \in Nodes : inbox'[x] =
             IF x \in Range(alive') THEN Append(inbox[x], News(alive')) ELSE inbox[x]
  <2> DEFINE list == alive'
  <2>1. list \in Seq(Nodes)
    BY <1>4
  <2> HIDE DEF list
  <2>2. DOMAIN Announce(list, inbox) = Nodes /\ \A x \in Nodes : Announce(list, inbox)[x] =
             IF x \in Range(list) THEN Append(inbox[x], News(list)) ELSE inbox[x]
    BY <2>1, AnnounceIs
  <2> QED BY <1>3, <2>2 DEF list
<1>6. inbox'[n] = <<News(alive')>>
  BY <1>2, <1>4, <1>5
<1>7. node'[n] = Fresh /\ DOMAIN node' = Nodes /\ \A x \in Nodes : x # n => node'[x] = node[x]
  BY <1>1, <1>3
<1>8. News(alive') \in Letter /\ Sensible(News(alive'), sent) /\ News(alive').com = "CLUSTER"
  <2>1. News(alive').com = "CLUSTER"
    BY DEF News, Message
  <2> QED BY <1>4, <2>1, Letters
<1> DEFINE q == <<News(alive')>>
<1>9. DOMAIN q = {1} /\ q[1].com = "CLUSTER" /\ q # <<>>
  BY <1>8
<1>10. Queue(q, sent)
  BY <1>8 DEF Queue
<1> HIDE DEF q
<1>11. Shape(n, Fresh, q, TRUE)
  <2>1. /\ Fresh.main = "wait" /\ Fresh.stage = "no" /\ Fresh.conn = "idle" /\ Fresh.killed = FALSE
        /\ Fresh.view = <<>> /\ Fresh.peer = None
    BY DEF Fresh
  <2> HIDE DEF Fresh
  <2> QED BY <1>9, <2>1 DEF Shape, Stages, Called, Told, Holds
<1>12. \A x \in Nodes : Asks(x, node'[x], n, Fresh, q)
  BY <1>9 DEF Asks
<1>13. \A x \in Nodes : x # n => Asks(n, Fresh, x, node[x], inbox[x])
  <2>1. Down.stage = "no"
    BY DEF Down, Fresh
  <2> QED BY <1>2, <2>1 DEF Basic, Asks
<1>14. /\ Queue(inbox'[n], sent) /\ Proc(node'[n], sent)
       /\ Shape(n, node'[n], inbox'[n], n \in Range(alive'))
       /\ \A x \in Nodes : Asks(x, node'[x], n, node'[n], inbox'[n])
       /\ \A x \in Nodes : x # n => Asks(n, node'[n], x, node[x], inbox[x])
  <2>1. (n \in Range(alive')) = TRUE
    BY <1>4
  <2> QED BY <1>6, <1>7, <1>10, <1>11, <1>12, <1>13, <2>1, DownProc DEF q
<1>15. /\ last' \in Nodes \cup {None} /\ faults' \in 0 .. MaxFaults
       /\ \A x \in Nodes : x # n =>
              /\ node'[x] = node[x] /\ (x \in Range(alive') <=> x \in Range(alive))
              /\ inbox'[x] = IF x \in Range(alive') THEN Append(inbox[x], News(alive')) ELSE inbox[x]
  BY <1>1, <1>3, <1>4, <1>5, <1>7
<1> QED BY <1>3, <1>4, <1>5, <1>7, <1>14, <1>15, BroadcastStep

\* KILL arrives at a member that has recovered and has only writes to read.
LEMMA ShapeToKill ==
    ASSUME NEW w \in Nat, NEW q, Queue(q, w), NEW m \in Letter, Sensible(m, w), m.com = "KILL",
           \A i \in DOMAIN q : q[i].com \in {"WRITE", "CKPT"},
           NEW n, NEW mem, NEW d, Shape(n, d, q, mem),
           d.main = "run", d.stage = "no", ~d.killed
    PROVE  Shape(n, d, Append(q, m), FALSE)
<1> DEFINE r == Append(q, m)
           k == Len(q) + 1
<1>1. /\ DOMAIN q = 1 .. Len(q) /\ Len(q) \in Nat /\ DOMAIN r = 1 .. k
      /\ \A i \in DOMAIN q : i \in DOMAIN r /\ r[i] = q[i]
      /\ k \in DOMAIN r /\ r[k] = m
      /\ \A i \in DOMAIN r : i \in DOMAIN q \/ i = k
      /\ r # <<>> /\ \A i \in DOMAIN q : i < k /\ i \in Nat
  BY QueueAppend
<1> HIDE DEF r, k
<1>2. \A i \in DOMAIN r : /\ i = k => r[i].com = "KILL"
                          /\ i # k => r[i].com \in {"WRITE", "CKPT"} /\ i < k
  BY <1>1
<1>3. \A i \in DOMAIN r : r[i].com # "RESTART" /\ (r[i].com = "KILL" => i = k)
  BY <1>2
<1>4. d.view # <<>>
  <2> SUFFICES ASSUME d.view = <<>> PROVE FALSE
    OBVIOUS
  <2>1. q # <<>> /\ q[1].com = "CLUSTER"
    BY DEF Shape, Told
  <2>2. 1 \in DOMAIN q
    BY <2>1 DEF Queue
  <2> QED BY <2>1, <2>2
<1>5. Holds(r, "KILL")
  BY <1>1 DEF Holds
<1>6. k \in Nat
  BY <1>1 DEF k
<1>7. \A j \in DOMAIN r : (j < k => r[j].com \in {"WRITE", "CKPT"}) /\ (j > k => r[j].com # "KILL")
  <2> SUFFICES ASSUME NEW j \in DOMAIN r
               PROVE (j < k => r[j].com \in {"WRITE", "CKPT"}) /\ (j > k => r[j].com # "KILL")
    OBVIOUS
  <2>1. CASE j = k
    BY <1>6, <2>1
  <2>2. CASE j # k
    BY <1>2, <2>2
  <2> QED BY <2>1, <2>2
<1>8. Called(d, r, FALSE)
  BY <1>3, <1>5, <1>7 DEF Called
<1>9. Told(n, d, r)
  BY <1>3, <1>4 DEF Told
<1> QED BY <1>8, <1>9 DEF Shape, r

\* RESTART arrives at a node that was killed, after CLUSTER.
LEMMA ShapeToRestart ==
    ASSUME NEW w \in Nat, NEW q, Queue(q, w), NEW m \in Letter, Sensible(m, w), m.com = "RESTART",
           NEW n, NEW d, d.main # "down", Shape(n, d, q, FALSE), Holds(q, "CLUSTER"),
           d.view # <<>> \/ (q # <<>> /\ q[1].com = "CLUSTER")
    PROVE  Shape(n, d, Append(q, m), TRUE)
<1> DEFINE r == Append(q, m)
           k == Len(q) + 1
<1>1. /\ DOMAIN q = 1 .. Len(q) /\ Len(q) \in Nat /\ DOMAIN r = 1 .. k
      /\ \A i \in DOMAIN q : i \in DOMAIN r /\ r[i] = q[i]
      /\ k \in DOMAIN r /\ r[k] = m
      /\ \A i \in DOMAIN r : i \in DOMAIN q \/ i = k
      /\ r # <<>> /\ \A i \in DOMAIN q : i < k /\ i \in Nat
  BY QueueAppend
<1> HIDE DEF r, k
<1>2. /\ Called(d, q, FALSE) /\ d.main \notin {"wait", "down"} /\ d.stage = "no"
      /\ d.killed \/ Holds(q, "KILL")
      /\ \A i \in DOMAIN q : q[i].com # "RESTART"
  <2>1. Called(d, q, FALSE)
    BY DEF Shape
  <2>2. d.main # "wait" /\ d.stage = "no"
    <3>1. Stages(n, d)
      BY DEF Shape
    <3> QED BY <2>1, <3>1 DEF Called
  <2> QED BY <2>1, <2>2 DEF Called
<1>3. Holds(r, "RESTART") /\ Holds(r, "CLUSTER") /\ (Holds(r, "KILL") <=> Holds(q, "KILL"))
  BY <1>1 DEF Holds
<1>4. \A i \in DOMAIN r : (r[i].com = "RESTART" => i = k) /\ (r[i].com = "KILL" => i \in DOMAIN q)
  BY <1>1, <1>2
<1>5. \A i \in DOMAIN r : r[i].com = "KILL" => \A j \in DOMAIN r :
          /\ j < i => r[j].com \in {"WRITE", "CKPT"}
          /\ j > i => r[j].com # "KILL"
  <2> SUFFICES ASSUME NEW i \in DOMAIN r, r[i].com = "KILL", NEW j \in DOMAIN r
               PROVE  /\ j < i => r[j].com \in {"WRITE", "CKPT"}
                      /\ j > i => r[j].com # "KILL"
    OBVIOUS
  <2>1. i \in DOMAIN q /\ q[i].com = "KILL" /\ i < k /\ i \in Nat
    BY <1>1, <1>4
  <2>2. CASE j \in DOMAIN q
    BY <1>1, <1>2, <2>1, <2>2 DEF Called
  <2>3. CASE j = k
    <3>1. k \in Nat /\ ~(k < i) /\ r[k].com = "RESTART"
      BY <1>1, <2>1 DEF k
    <3> QED BY <2>3, <3>1
  <2> QED BY <1>1, <2>2, <2>3
<1>6. d.killed \/ \E j \in DOMAIN r : j < k /\ r[j].com = "KILL"
  BY <1>1, <1>2 DEF Holds
<1>7. \E j \in DOMAIN r : j < k /\ r[j].com = "CLUSTER"
  BY <1>1 DEF Holds
<1>8. Called(d, r, TRUE)
  BY <1>2, <1>3, <1>4, <1>5, <1>6 DEF Called
<1>9. Told(n, d, r)
  <2>1. d.view = <<>> => r[1].com = "CLUSTER"
    <3>1. d.view = <<>> => 1 \in DOMAIN q
      BY DEF Queue
    <3> QED BY <1>1, <3>1
  <2> QED BY <1>1, <1>2, <1>4, <1>7, <2>1 DEF Told
<1> QED BY <1>8, <1>9 DEF Shape, r

LEMMA KillBasic ==
    ASSUME "killBusy" \notin Hazards, Basic, NEW n \in Nodes, Kill(n) PROVE Basic'
<1> DEFINE m == Message("KILL", <<>>, None, None)
           boxes == [inbox EXCEPT ![n] = Append(inbox[n], m)]
<1>1. /\ alive \in Seq(Nodes) /\ DOMAIN node = Nodes /\ DOMAIN inbox = Nodes /\ sent \in Nat
      /\ last \in Nodes \cup {None} /\ faults \in 0 .. MaxFaults
      /\ Without(alive, n) \in Seq(Nodes) /\ Range(Without(alive, n)) = Range(alive) \ {n}
  BY BasicScalars, WithoutIs
<1>2. /\ Member(n) /\ Stable /\ faults < MaxFaults /\ faults' = faults + 1 /\ Leave(n, boxes)
      /\ node' = node /\ disk' = disk /\ sent' = sent /\ acked' = acked
  BY DEF Kill, Member
<1>3. /\ Proc(node[n], sent) /\ Queue(inbox[n], sent) /\ Shape(n, node[n], inbox[n], Member(n))
  BY BasicFacts
<1>4. /\ node[n].main = "run" /\ node[n].stage = "no" /\ ~node[n].killed
      /\ \A i \in DOMAIN inbox[n] : inbox[n][i].com \in {"WRITE", "CKPT"}
  <2>1. ~Joining(n) /\ \A i \in DOMAIN inbox[n] : inbox[n][i].com \in {"WRITE", "CKPT"}
    BY <1>2 DEF Stable, Member
  <2>2. Up(n)
    BY <1>2, <1>3 DEF Shape, Called, Up
  <2> QED BY <2>1, <2>2 DEF Joining
<1>5. m \in Letter /\ Sensible(m, sent) /\ m.com = "KILL"
  BY Letters DEF Message
<1>6. boxes[n] = Append(inbox[n], m) /\ \A x \in Nodes : x # n => boxes[x] = inbox[x]
  BY <1>1
<1> HIDE DEF m, boxes
<1>7. /\ alive' = Without(alive, n) /\ inbox' = Announce(alive', boxes)
      /\ last' \in Nodes \cup {None}
  BY <1>1, <1>2 DEF Leave, Member
<1>8. alive' \in Seq(Nodes) /\ Range(alive') = Range(alive) \ {n}
  BY <1>1, <1>7
<1>9. DOMAIN inbox' = Nodes /\ \A x \in Nodes : inbox'[x] =
             IF x \in Range(alive') THEN Append(boxes[x], News(alive')) ELSE boxes[x]
  BY <1>7, <1>8, AnnounceIs
<1>10. inbox'[n] = Append(inbox[n], m)
  BY <1>6, <1>8, <1>9
<1>11. \A x \in Nodes : x # n =>
              /\ node'[x] = node[x] /\ (x \in Range(alive') <=> x \in Range(alive))
              /\ inbox'[x] = IF x \in Range(alive') THEN Append(inbox[x], News(alive')) ELSE inbox[x]
  BY <1>2, <1>6, <1>8, <1>9
<1>12. Queue(inbox'[n], sent) /\ Proc(node'[n], sent)
  BY <1>1, <1>2, <1>3, <1>5, <1>10, QueueAppend
<1>13. Shape(n, node'[n], inbox'[n], n \in Range(alive'))
  <2>1. (n \in Range(alive')) = FALSE
    BY <1>8
  <2>2. Shape(n, node[n], Append(inbox[n], m), FALSE)
    BY <1>1, <1>3, <1>4, <1>5, ShapeToKill
  <2> QED BY <1>2, <1>10, <2>1, <2>2
<1>14. \A x \in Nodes : Asks(x, node'[x], n, node'[n], inbox'[n])
  <2> SUFFICES ASSUME NEW x \in Nodes PROVE Asks(x, node'[x], n, node'[n], inbox'[n])
    OBVIOUS
  <2>1. Asks(x, node[x], n, node[n], inbox[n])
    BY DEF Basic
  <2>2. Asks(x, node[x], n, node[n], Append(inbox[n], m))
    BY <1>1, <1>3, <1>5, <2>1, AsksAppend
  <2> QED BY <1>2, <1>10, <2>2
<1>15. \A x \in Nodes : x # n => Asks(n, node'[n], x, node[x], inbox[x])
  BY <1>2 DEF Basic
<1>16. DOMAIN node' = Nodes /\ faults' \in 0 .. MaxFaults
  BY <1>1, <1>2, GroupBounds
<1> QED BY <1>2, <1>7, <1>8, <1>9, <1>11, <1>12, <1>13, <1>14, <1>15, <1>16, BroadcastStep

LEMMA RestartBasic == ASSUME Basic, NEW n \in Nodes, Restart(n) PROVE Basic'
<1> DEFINE m == Message("RESTART", <<>>, None, None)
           told == Announce(alive', inbox)
           c == News(alive')
           q == Append(inbox[n], c)
<1>1. /\ alive \in Seq(Nodes) /\ DOMAIN node = Nodes /\ DOMAIN inbox = Nodes /\ sent \in Nat
      /\ last \in Nodes \cup {None} /\ faults \in 0 .. MaxFaults
  BY BasicScalars
<1>2. /\ node[n].main # "down" /\ ~Member(n)
      /\ alive' = Append(alive, n) /\ inbox' = [told EXCEPT ![n] = Append(told[n], m)]
      /\ last' = last /\ node' = node /\ disk' = disk /\ sent' = sent /\ acked' = acked /\ faults' = faults
  BY DEF Restart, Up, Member
<1>3. /\ Proc(node[n], sent) /\ Queue(inbox[n], sent) /\ Shape(n, node[n], inbox[n], Member(n))
  BY BasicFacts
<1>4. m \in Letter /\ Sensible(m, sent) /\ m.com = "RESTART"
  BY Letters DEF Message
<1>5. alive' \in Seq(Nodes) /\ Range(alive') = Range(alive) \cup {n} /\ alive' # <<>>
  BY <1>1, <1>2, RangeAppend
<1>6. DOMAIN told = Nodes /\ \A x \in Nodes : told[x] =
             IF x \in Range(alive') THEN Append(inbox[x], c) ELSE inbox[x]
  BY <1>5, AnnounceIs
<1>7. c \in Letter /\ Sensible(c, sent) /\ c.com = "CLUSTER"
  <2>1. c.com = "CLUSTER"
    BY DEF News, Message
  <2> QED BY <1>5, <2>1, Letters
<1> HIDE DEF m, told
<1>8. DOMAIN inbox' = Nodes /\ \A x \in Nodes : x # n => inbox'[x] = told[x]
  BY <1>2, <1>6
<1>9. inbox'[n] = Append(q, m)
  BY <1>2, <1>5, <1>6
<1>10. \A x \in Nodes : x # n =>
              /\ node'[x] = node[x] /\ (x \in Range(alive') <=> x \in Range(alive))
              /\ inbox'[x] = IF x \in Range(alive') THEN Append(inbox[x], News(alive')) ELSE inbox[x]
  BY <1>2, <1>5, <1>6, <1>8
<1>11. Queue(q, sent) /\ Shape(n, node[n], q, FALSE)
  <2>1. Member(n) = FALSE
    BY <1>2
  <2> QED BY <1>1, <1>2, <1>3, <1>5, <2>1, TellShape
<1>12. /\ DOMAIN inbox[n] = 1 .. Len(inbox[n]) /\ Len(inbox[n]) \in Nat
       /\ \A i \in DOMAIN inbox[n] : i \in DOMAIN q /\ q[i] = inbox[n][i]
       /\ Len(inbox[n]) + 1 \in DOMAIN q /\ q[Len(inbox[n]) + 1] = c /\ q # <<>>
  <2> HIDE DEF c
  <2> DEFINE b == inbox[n]
  <2>1. Queue(b, sent) /\ sent \in Nat /\ c \in Letter /\ Sensible(c, sent)
    BY <1>1, <1>3, <1>7
  <2> HIDE DEF b
  <2>2. /\ DOMAIN b = 1 .. Len(b) /\ Len(b) \in Nat
        /\ \A i \in DOMAIN b : i \in DOMAIN Append(b, c) /\ Append(b, c)[i] = b[i]
        /\ Len(b) + 1 \in DOMAIN Append(b, c) /\ Append(b, c)[Len(b) + 1] = c
        /\ Append(b, c) # <<>>
    BY <2>1, QueueAppend
  <2> QED BY <2>2 DEF b
<1> HIDE DEF q, c
<1>13. Holds(q, "CLUSTER")
  BY <1>7, <1>12 DEF Holds
<1>14. node[n].view # <<>> \/ (q # <<>> /\ q[1].com = "CLUSTER")
  <2>1. node[n].view = <<>> => q[1].com = "CLUSTER"
    BY <1>2, <1>11 DEF Shape, Told
  <2> QED BY <1>12, <2>1
<1>15. Shape(n, node[n], Append(q, m), TRUE) /\ Queue(Append(q, m), sent)
  BY <1>1, <1>2, <1>4, <1>11, <1>13, <1>14, ShapeToRestart, QueueAppend
<1>16. Queue(inbox'[n], sent) /\ Proc(node'[n], sent)
  BY <1>2, <1>3, <1>9, <1>15
<1>17. Shape(n, node'[n], inbox'[n], n \in Range(alive'))
  <2>1. (n \in Range(alive')) = TRUE
    BY <1>5
  <2> QED BY <1>2, <1>9, <1>15, <2>1
<1>18. \A x \in Nodes : Asks(x, node'[x], n, node'[n], inbox'[n])
  <2> SUFFICES ASSUME NEW x \in Nodes PROVE Asks(x, node'[x], n, node'[n], inbox'[n])
    OBVIOUS
  <2>1. Asks(x, node[x], n, node[n], inbox[n])
    BY DEF Basic
  <2>2. Asks(x, node[x], n, node[n], q)
    BY <1>1, <1>3, <1>5, <2>1, TellAsks DEF q, c
  <2>3. Asks(x, node[x], n, node[n], Append(q, m))
    BY <1>1, <1>4, <1>11, <2>2, AsksAppend
  <2> QED BY <1>2, <1>9, <2>3
<1>19. \A x \in Nodes : x # n => Asks(n, node'[n], x, node[x], inbox[x])
  BY <1>2 DEF Basic
<1>20. DOMAIN node' = Nodes /\ faults' \in 0 .. MaxFaults /\ last' \in Nodes \cup {None}
  BY <1>1, <1>2
<1> QED BY <1>2, <1>5, <1>8, <1>10, <1>16, <1>17, <1>18, <1>19, <1>20, BroadcastStep

LEMMA CrashBasic == ASSUME Basic, NEW n \in Nodes, Crash(n) PROVE Basic'
<1>1. /\ Die(n, node) /\ faults < MaxFaults /\ faults' = faults + 1
      /\ disk' = disk /\ sent' = sent /\ acked' = acked
  BY DEF Crash
<1>2. disk' = [disk EXCEPT ![n] = disk[n]] /\ disk[n] \in DiskType
  BY <1>1, BasicFacts
<1>3. faults' \in 0 .. MaxFaults
  BY <1>1, GroupBounds, BasicScalars
<1> QED BY <1>1, <1>2, <1>3, DieBasic

LEMMA ExitBasic ==
    ASSUME Basic, NEW n \in Nodes, NEW dk \in DiskType, Exit(n, dk), UNCHANGED <<sent, acked, faults>>
    PROVE  Basic'
<1>1. /\ Die(n, node) /\ disk' = [disk EXCEPT ![n] = dk]
      /\ sent' = sent /\ acked' = acked /\ faults' = faults
  BY DEF Exit
<1>2. faults' \in 0 .. MaxFaults
  BY <1>1, BasicScalars
<1> QED BY <1>1, <1>2, DieBasic

------------------------------------------------------------------------------
(* Every step.                                                             *)

LEMMA RunServerBasic == ASSUME Basic, NEW n \in Nodes, RunServer(n) PROVE Basic'
<1>1. disk[n] \in DiskType
  BY BasicFacts
<1>2. \/ RunsPrimary(n) \/ RunsSecondary(n)
      \/ Exit(n, disk[n]) /\ UNCHANGED <<sent, acked, faults>>
  BY DEF RunServer, RunsPrimary, RunsSecondary
<1> QED BY <1>1, <1>2, RunsPrimaryBasic, RunsSecondaryBasic, ExitBasic

LEMMA AskBasic == ASSUME Basic, NEW n \in Nodes, Ask(n) PROVE Basic'
<1>1. disk[n] \in DiskType
  BY BasicFacts
<1>2. AskSync(n) \/ (Exit(n, disk[n]) /\ UNCHANGED <<sent, acked, faults>>)
  BY DEF Ask, AskSync
<1> QED BY <1>1, <1>2, AskSyncBasic, ExitBasic

LEMMA JoinedBasic ==
    ASSUME Basic, NEW n \in Nodes, NEW dk \in DiskType, Joined(n, dk),
           node[n].stage \in {"log", "full"}, node[n].link # None,
           UNCHANGED <<sent, acked, faults>>
    PROVE  Basic'
<1>1. JoinedWell(n, dk) \/ Exit(n, dk)
  BY DEF Joined, JoinedWell, Ready
<1> QED BY <1>1, JoinedWellBasic, ExitBasic

LEMMA ReadLogBasic == ASSUME Basic, NEW n \in Nodes, ReadLog(n) PROVE Basic'
<1> DEFINE log == node[n].link.log
           dk == [disk[n] EXCEPT !.log = log]
<1>1. node[n].stage = "log" /\ node[n].link # None /\ UNCHANGED <<sent, acked, faults>>
  BY DEF ReadLog
<1>2. log \in LogType
  BY <1>1, BasicFacts DEF Proc
<1>3. dk \in DiskType
  BY <1>2, BasicFacts DEF DiskType
<1>4. Joined(n, dk) \/ Forgets(n)
  BY DEF ReadLog, Forgets
<1> QED BY <1>1, <1>3, <1>4, JoinedBasic, ForgetsBasic

LEMMA ReadFilesBasic == ASSUME Basic, NEW n \in Nodes, ReadFiles(n) PROVE Basic'
<1>1. /\ node[n].stage = "full" /\ node[n].link # None /\ UNCHANGED <<sent, acked, faults>>
      /\ Joined(n, node[n].link)
  BY DEF ReadFiles
<1>2. node[n].link \in DiskType
  BY <1>1, BasicFacts DEF Proc
<1> QED BY <1>1, <1>2, JoinedBasic

LEMMA SyncBrokenBasic == ASSUME Basic, NEW n \in Nodes, SyncBroken(n) PROVE Basic'
<1>1. Exit(n, disk[n]) /\ UNCHANGED <<sent, acked, faults>> /\ disk[n] \in DiskType
  BY BasicFacts DEF SyncBroken
<1> QED BY <1>1, ExitBasic

LEMMA ReceiveBasic == ASSUME Basic, NEW n \in Nodes, Receive(n) PROVE Basic'
<1>1. PICK m : m = Head(inbox[n])
  OBVIOUS
<1>2. Reads(n, m) /\ disk[n] \in DiskType
  BY <1>1, BasicFacts DEF Receive, Reads
<1>3. \/ Cluster(n, m) \/ Restarted(n, m) \/ Killed(n, m) \/ Forwarded(n, m)
      \/ CheckpointSecondary(n, m) \/ PrimarySyncSecondary(n, m) \/ Ignored(n, m)
  BY <1>1 DEF Receive
<1>4. CASE Restarted(n, m)
  <2>1. \/ RestartedPrimary(n, m) \/ RestartedSecondary(n, m)
        \/ Exit(n, disk[n]) /\ UNCHANGED <<sent, acked, faults>>
    BY <1>4 DEF Restarted, RestartedPrimary, RestartedSecondary
  <2> QED BY <1>2, <2>1, RestartedPrimaryBasic, RestartedSecondaryBasic, ExitBasic
<1>5. CASE PrimarySyncSecondary(n, m)
  <2>1. SyncStarts(n, m) \/ (Exit(n, disk[n]) /\ UNCHANGED <<sent, acked, faults>>)
    BY <1>5 DEF PrimarySyncSecondary, SyncStarts
  <2> QED BY <1>2, <2>1, SyncStartsBasic, ExitBasic
<1> QED BY <1>2, <1>3, <1>4, <1>5, ClusterBasic, KilledBasic, ForwardedBasic,
           CheckpointSecondaryBasic, IgnoredBasic

LEMMA BasicStep == ASSUME "killBusy" \notin Hazards, Basic, [Next]_vars PROVE Basic'
<1>1. ASSUME UNCHANGED vars PROVE Basic'
  <2>1. Basic' <=> Basic
    BY <1>1 DEF Basic, TypeInv, Member, vars
  <2> QED BY <2>1
<1>2. ASSUME Next PROVE Basic'
  <2>1. PICK n \in Nodes :
        \/ Start(n) \/ Crash(n) \/ Kill(n) \/ Restart(n)
        \/ ClientWrite(n) \/ ClientRead(n)
        \/ Recovery(n) \/ Connection(n)
    BY <1>2 DEF Next
  <2>2. CASE Recovery(n)
    BY <2>2, RunServerBasic, AskBasic, ReadLogBasic, ReadFilesBasic, SyncBrokenBasic DEF Recovery
  <2>3. CASE Connection(n)
    BY <2>3, ReceiveBasic, ForwardOneBasic, ApplyWriteBasic, CheckpointBasic, SendFilesBasic,
       EndServeBasic DEF Connection
  <2> QED BY <2>1, <2>2, <2>3, StartBasic, CrashBasic, KillBasic, RestartBasic,
             ClientWriteBasic, ClientReadBasic
<1> QED BY <1>1, <1>2

LEMMA InitBasic == ASSUME Init PROVE Basic
<1>1. <<>> \in Seq(Nodes) /\ <<>> \in Seq(Letter) /\ Range(<<>>) = {}
  BY RangeEmpty
<1>2. \A n \in Nodes : node[n] = Down /\ inbox[n] = <<>> /\ ~Member(n)
  BY <1>1 DEF Init, Member
<1>3. TypeInv
  <2>1. \A n \in Nodes : Proc(node[n], sent) /\ Queue(inbox[n], sent)
    <3>1. Queue(<<>>, sent)
      BY <1>1 DEF Queue
    <3> QED BY <1>2, <3>1, DownProc
  <2>2. disk \in [Nodes -> DiskType]
    BY BlankDiskType DEF Init
  <2> QED BY <1>1, <2>1, <2>2, GroupBounds DEF Init, TypeInv
<1>4. \A n \in Nodes : Shape(n, node[n], inbox[n], Member(n))
  <2> SUFFICES ASSUME NEW n \in Nodes PROVE Shape(n, node[n], inbox[n], Member(n))
    OBVIOUS
  <2>1. Stages(n, Down) /\ Called(Down, <<>>, FALSE) /\ Told(n, Down, <<>>)
    BY DEF Stages, Called, Told, Holds, Down, Fresh
  <2>2. Member(n) = FALSE
    BY <1>2
  <2> QED BY <1>2, <2>1, <2>2 DEF Shape
<1>5. \A n, p \in Nodes : Asks(n, node[n], p, node[p], inbox[p])
  BY <1>2 DEF Asks
<1> QED BY <1>3, <1>4, <1>5 DEF Basic

\* The two threads of a process, the calls of the master and the SYNCs on their
\* way fit together in every reachable state: a node that recovers has heard of
\* its group and copies from another node (RunServer, Restarted), RESTART comes
\* after the KILL it undoes, and a SYNC that the primary has not read is the one
\* for which its sender waits (PrimarySyncSecondary).
THEOREM GroupOrderly == ASSUME "killBusy" \notin Hazards PROVE Spec => []Basic
<1>1. Init => Basic
  BY InitBasic
<1>2. Basic /\ [Next]_vars => Basic'
  BY BasicStep
<1> QED BY <1>1, <1>2, PTL DEF Spec

\* Every reachable state is well typed (TypeOK): no handler takes the head of
\* an empty list of members or forwards what is not a write.
THEOREM GroupTypeCorrect == ASSUME "killBusy" \notin Hazards PROVE Spec => []TypeOK
<1>1. Basic => TypeOK
  BY TypeOKHolds DEF Basic
<1> QED BY <1>1, GroupOrderly, PTL

------------------------------------------------------------------------------
(* The place of a node in its group: its part of the inductive invariant   *)
(* that its members agree by.  d is the process of the node n, q its inbox *)
(* and dk its disk, al the list of members that the master keeps, la the   *)
(* member that it removed last and S the members that have recovered.      *)

Names(m, p) == m.com = "CLUSTER" /\ Head(m.list) = p
IsFirst(p, al) == al # <<>> /\ Head(al) = p
Before(p, n, al) == \E i, j \in DOMAIN al : i < j /\ al[i] = p /\ al[j] = n
Distinct(al) == \A i, j \in DOMAIN al : al[i] = al[j] => i = j

\* Nobody has recovered yet; nobody is recovered and n was the last.
Virgin(la, S)  == la = None /\ S = {}
Left(n, la, S) == la = n /\ S = {}

\* Who waits for the master has a first member to copy from, unless there is
\* nothing to copy or it is the one that has it; it has not worked yet.
Waits(n, d, al, la, S) ==
    /\ d.main = "wait" => Head(al) \in S \/ Virgin(la, S) \/ Left(n, la, S)
    /\ d.main \in {"wait", "join"} => d.conn = "idle" /\ d.seq = 0 /\ d.update = None

\* A member has read the list of members, or will: it is the last one sent to it.
Views(n, d, q, al) ==
    /\ n \notin Range(al) => ~Holds(q, "CLUSTER")
    /\ n \in Range(al) =>
          \/ d.view = al /\ ~Holds(q, "CLUSTER")
          \/ \E i \in DOMAIN q : /\ q[i].com = "CLUSTER" /\ q[i].list = al
                                 /\ \A j \in DOMAIN q : i < j => q[j].com # "CLUSTER"

\* Only the first member is told that it is the primary, and a primary is the
\* first member unless it is about to be killed.
Roles(n, d, q, al, S) ==
    /\ d.primary => IsFirst(n, al) \/ Holds(q, "KILL")
    /\ \A i \in DOMAIN q : Names(q[i], n) => IsFirst(n, al)
    /\ d.main # "down" /\ ~d.killed /\ d.view # <<>> /\ Head(d.view) = n => d.primary
    /\ d.conn \in {"forward", "ckpt", "serve"} =>
          IsFirst(n, al) /\ d.primary /\ d.main = "run" /\ d.stage = "no"
    /\ d.conn \in {"forward", "serve"} => n \in S

\* A write on its way is one that a member which has recovered will apply.
Writes(n, d, q) ==
    \A i \in DOMAIN q : q[i].com = "WRITE" =>
       /\ d.main = "run" /\ d.stage = "no" /\ ~d.killed /\ ~d.primary
       /\ \A j \in DOMAIN q : j < i => q[j].com # "KILL" /\ ~Names(q[j], n)

\* Who reads RESTART recovers alone if it was the last, and else from another.
Restarts(n, d, q, la, S) ==
    \A i \in DOMAIN q : q[i].com = "RESTART" =>
       IF Left(n, la, S)
       THEN (d.killed /\ d.primary) \/ \E j \in DOMAIN q : j < i /\ Names(q[j], n)
       ELSE /\ ~d.primary \/ Holds(q, "KILL")
            /\ \A j \in DOMAIN q : j < i => ~Names(q[j], n)

\* n is asking p, or will ask it.
Asked(n, d, q, p) ==
    \/ d.stage # "no" /\ p = d.peer
    \/ d.main = "wait" /\ \/ d.view # <<>> /\ p = Head(d.view)
                          \/ \E i \in DOMAIN q : Names(q[i], p)
    \/ \E i \in DOMAIN q :
          /\ q[i].com = "RESTART"
          /\ \/ \E j \in DOMAIN q : j < i /\ Names(q[j], p)
             \/ /\ \A j \in DOMAIN q : j < i => q[j].com # "CLUSTER"
                /\ d.view # <<>> /\ p = Head(d.view)

\* The one that n asks is, while it is still a member before n, the first and
\* has recovered.
Asking(n, d, q, al, la, S) ==
    \A p \in Nodes : Asked(n, d, q, p) /\ Before(p, n, al) =>
       IsFirst(p, al) /\ (p \in S \/ Virgin(la, S))

\* What n is copying comes from the first member.
Linked(d, al, S) == d.link # None /\ d.peer # None => IsFirst(d.peer, al) /\ d.peer \in S

\* The last member of a group that is empty now comes back first and alone.
Leaver(n, d, q, al, la, S) ==
    Left(n, la, S) =>
       /\ n \in Range(al) => al = <<n>>
       /\ d.stage = "no"
       /\ d.main = "wait" => /\ d.view = <<>> \/ d.primary
                             /\ \A i \in DOMAIN q : Names(q[i], n)
       /\ ~Holds(q, "WRITE")

\* A write is forwarded while every member has recovered, to each of them once.
Forwards(n, d, al, S) ==
    d.conn = "forward" =>
       /\ Range(al) \subseteq S
       /\ Distinct(d.todo) /\ n \notin Range(d.todo)
       /\ Len(d.todo) <= Len(d.view) - 1
       /\ Len(d.todo) = Len(d.view) - 1 => \A m \in Range(al) : m # n => m \in Range(d.todo)

\* Nothing has been written before somebody has recovered.
Pristine(d, q, dk, la, S) ==
    Virgin(la, S) => /\ d.main # "run" /\ d.link = None /\ dk = BlankDisk
                     /\ ~Holds(q, "WRITE") /\ ~Holds(q, "CKPT")

Place(n, d, q, dk, al, la, S) ==
    /\ Waits(n, d, al, la, S) /\ Views(n, d, q, al) /\ Roles(n, d, q, al, S) /\ Writes(n, d, q)
    /\ Restarts(n, d, q, la, S) /\ Asking(n, d, q, al, la, S) /\ Linked(d, al, S)
    /\ Leaver(n, d, q, al, la, S) /\ Forwards(n, d, al, S) /\ Pristine(d, q, dk, la, S)

\* What is left to do of a forwarded write is for members, or for the dead.
Reaches(al) == \A p, m \in Nodes : node[p].conn = "forward" /\ m \in Range(node[p].todo) =>
             m \in Range(al) \/ node[m].main = "down"

Orderly ==
    /\ Basic /\ Distinct(alive) /\ Reaches(alive)
    /\ \A n \in Nodes : Place(n, node[n], inbox[n], disk[n], alive, last, Recovered(alive))

------------------------------------------------------------------------------
(* The list of members.                                                    *)

LEMMA ListFacts ==
    ASSUME NEW al \in Seq(Nodes)
    PROVE  /\ DOMAIN al = 1 .. Len(al) /\ Len(al) \in Nat
           /\ \A i \in DOMAIN al : al[i] \in Nodes /\ al[i] \in Range(al) /\ i \in Nat
           /\ \A m : m \in Range(al) => \E i \in DOMAIN al : al[i] = m
           /\ al # <<>> => 1 \in DOMAIN al /\ Head(al) = al[1] /\ Head(al) \in Range(al)
                           /\ \A i \in DOMAIN al : i = 1 \/ 1 < i
           /\ \A m : m \in Range(al) => al # <<>> /\ m \in Nodes
<1>1. DOMAIN al = 1 .. Len(al) /\ Len(al) \in Nat
  OBVIOUS
<1>2. \A i \in DOMAIN al : al[i] \in Nodes /\ al[i] \in Range(al) /\ i \in Nat
  BY DEF Range
<1>3. \A m : m \in Range(al) => \E i \in DOMAIN al : al[i] = m
  BY DEF Range
<1>4. al # <<>> => 1 \in DOMAIN al /\ Head(al) = al[1]
                   /\ \A i \in DOMAIN al : i = 1 \/ 1 < i
  OBVIOUS
<1>5. \A m : m \in Range(al) => al # <<>> /\ m \in Nodes
  <2> SUFFICES ASSUME NEW m, m \in Range(al) PROVE al # <<>> /\ m \in Nodes
    OBVIOUS
  <2>1. PICK i \in DOMAIN al : al[i] = m
    BY <1>3
  <2>2. al = <<>> => DOMAIN al = {}
    OBVIOUS
  <2> QED BY <1>2, <2>1, <2>2
<1>6. al # <<>> => Head(al) \in Range(al)
  BY <1>2, <1>4
<1> HIDE DEF Range
<1> QED BY <1>1, <1>2, <1>3, <1>4, <1>5, <1>6

\* Who is not the first member is behind the first.
LEMMA BehindFirst ==
    ASSUME NEW al \in Seq(Nodes), Distinct(al), NEW n
    PROVE  /\ n \in Range(al) /\ n # Head(al) => Before(Head(al), n, al)
           /\ \A p : Before(p, n, al) => p # n /\ p \in Range(al) /\ n \in Range(al) /\ al # <<n>>
           /\ IsFirst(n, al) => n \in Range(al) /\ al # <<>>
<1>1. n \in Range(al) /\ n # Head(al) => Before(Head(al), n, al)
  <2> SUFFICES ASSUME n \in Range(al), n # Head(al) PROVE Before(Head(al), n, al)
    OBVIOUS
  <2>1. al # <<>>
    BY ListFacts
  <2>2. PICK i \in DOMAIN al : al[i] = n
    BY ListFacts
  <2>3. 1 \in DOMAIN al /\ al[1] = Head(al) /\ 1 < i
    BY ListFacts, <2>1, <2>2
  <2> QED BY <2>2, <2>3 DEF Before
<1>2. ASSUME NEW p, Before(p, n, al) PROVE p # n /\ p \in Range(al) /\ n \in Range(al) /\ al # <<n>>
  <2>1. PICK i, j \in DOMAIN al : i < j /\ al[i] = p /\ al[j] = n
    BY <1>2 DEF Before
  <2>2. i \in Nat /\ j \in Nat
    BY ListFacts
  <2>3. al = <<n>> => DOMAIN al = {1}
    OBVIOUS
  <2> QED BY <2>1, <2>2, <2>3, ListFacts DEF Distinct
<1>3. IsFirst(n, al) => n \in Range(al) /\ al # <<>>
  BY ListFacts DEF IsFirst
<1> QED BY <1>1, <1>2, <1>3

LEMMA ListJoin ==
    ASSUME NEW al \in Seq(Nodes), Distinct(al), NEW n \in Nodes, n \notin Range(al),
           NEW bl, bl = Append(al, n)
    PROVE  /\ bl \in Seq(Nodes) /\ Distinct(bl) /\ Range(bl) = Range(al) \cup {n} /\ bl # <<>>
           /\ al # <<>> => Head(bl) = Head(al)
           /\ al = <<>> => bl = <<n>> /\ Head(bl) = n
           /\ \A p : IsFirst(p, al) => IsFirst(p, bl)
           /\ \A p, m : Before(p, m, bl) => p # n /\ (m # n => Before(p, m, al))
<1> DEFINE k == Len(al) + 1
<1>1. bl \in Seq(Nodes) /\ Range(bl) = Range(al) \cup {n} /\ bl # <<>>
  BY RangeAppend
<1>2. /\ DOMAIN al = 1 .. Len(al) /\ Len(al) \in Nat /\ DOMAIN bl = 1 .. k
      /\ \A i \in DOMAIN al : bl[i] = al[i] /\ i < k
      /\ bl[k] = n
  OBVIOUS
<1>3. al # <<>> => Head(bl) = Head(al)
  OBVIOUS
<1>4. al = <<>> => bl = <<n>> /\ Head(bl) = n
  OBVIOUS
<1>5. \A p : IsFirst(p, al) => IsFirst(p, bl)
  BY <1>1, <1>3 DEF IsFirst
<1>6. \A i \in DOMAIN bl : i \in DOMAIN al \/ i = k
  BY <1>2
<1>7. \A i \in DOMAIN al : al[i] # n
  BY ListFacts
<1>8. Distinct(bl)
  BY <1>2, <1>6, <1>7 DEF Distinct
<1>9. ASSUME NEW p, NEW m, Before(p, m, bl) PROVE p # n /\ (m # n => Before(p, m, al))
  <2>1. PICK i, j \in DOMAIN bl : i < j /\ bl[i] = p /\ bl[j] = m
    BY <1>9 DEF Before
  <2>2. i # k
    BY <1>2, <2>1
  <2>3. i \in DOMAIN al /\ al[i] = p
    BY <1>2, <1>6, <2>1, <2>2
  <2>4. m # n => j \in DOMAIN al /\ al[j] = m
    BY <1>2, <1>6, <2>1
  <2> QED BY <1>7, <2>1, <2>3, <2>4 DEF Before
<1> QED BY <1>1, <1>3, <1>4, <1>5, <1>8, <1>9

LEMMA ListLeave ==
    ASSUME NEW al \in Seq(Nodes), Distinct(al), NEW x, NEW bl, bl = Without(al, x)
    PROVE  /\ bl \in Seq(Nodes) /\ Distinct(bl) /\ Range(bl) = Range(al) \ {x}
           /\ al # <<>> /\ Head(al) # x => bl # <<>> /\ Head(bl) = Head(al)
           /\ \A p : IsFirst(p, al) /\ p # x => IsFirst(p, bl)
           /\ \A p, m : Before(p, m, bl) => p # x /\ m # x /\ Before(p, m, al)
<1>1. bl \in Seq(Nodes) /\ Range(bl) = Range(al) \ {x}
  BY WithoutIs
<1>2. al # <<>> /\ Head(al) # x => bl # <<>> /\ Head(bl) = Head(al)
  BY WithoutIs
<1>3. \A p : IsFirst(p, al) /\ p # x => IsFirst(p, bl)
  BY <1>2 DEF IsFirst
<1>4. PICK f \in [DOMAIN bl -> DOMAIN al] :
          /\ \A k \in DOMAIN bl : bl[k] = al[f[k]]
          /\ \A j, k \in DOMAIN bl : j < k => f[j] < f[k]
  BY WithoutIs
<1>5. \A k \in DOMAIN bl : bl[k] # x /\ k \in Nat
  BY <1>1, ListFacts
<1>6. \A k \in DOMAIN bl : f[k] \in DOMAIN al /\ f[k] \in Nat
  BY ListFacts
<1>7. Distinct(bl)
  <2> SUFFICES ASSUME NEW i \in DOMAIN bl, NEW j \in DOMAIN bl, bl[i] = bl[j] PROVE i = j
    BY DEF Distinct
  <2>1. f[i] = f[j]
    BY <1>4, <1>6 DEF Distinct
  <2>2. ~(i < j) /\ ~(j < i)
    BY <1>4, <1>6, <2>1
  <2> QED BY <1>5, <2>2
<1>8. ASSUME NEW p, NEW m, Before(p, m, bl) PROVE p # x /\ m # x /\ Before(p, m, al)
  <2>1. PICK i, j \in DOMAIN bl : i < j /\ bl[i] = p /\ bl[j] = m
    BY <1>8 DEF Before
  <2>2. f[i] \in DOMAIN al /\ f[j] \in DOMAIN al /\ f[i] < f[j] /\ al[f[i]] = p /\ al[f[j]] = m
    BY <1>4, <1>6, <2>1
  <2> QED BY <1>5, <2>1, <2>2 DEF Before
<1> QED BY <1>1, <1>2, <1>3, <1>7, <1>8

------------------------------------------------------------------------------
(* What a message less, or one more, does to the place of a node.          *)

\* r is q without some messages; none of those of C.
Thin(q, r, C) ==
    \E f \in [DOMAIN r -> DOMAIN q] :
       /\ \A k \in DOMAIN r : r[k] = q[f[k]]
       /\ \A j, k \in DOMAIN r : j < k => f[j] < f[k]
       /\ \A i \in DOMAIN q : q[i].com \in C => \E k \in DOMAIN r : f[k] = i

LEMMA TailThin ==
    ASSUME NEW w \in Nat, NEW q, Queue(q, w), q # <<>>,
           NEW C, Head(q).com \notin C
    PROVE  Thin(q, Tail(q), C)
<1> DEFINE r == Tail(q)
           f == [k \in DOMAIN r |-> k + 1]
<1>1. /\ Head(q) = q[1] /\ 1 \in DOMAIN q
      /\ \A i \in DOMAIN r : i + 1 \in DOMAIN q /\ r[i] = q[i + 1]
      /\ \A i \in DOMAIN q : i # 1 => i - 1 \in DOMAIN r /\ r[i - 1] = q[i]
      /\ Queue(r, w)
  BY QueueTail
<1>2. \A i \in DOMAIN q : i \in Nat
  BY DEF Queue
<1>3. \A i \in DOMAIN r : i \in Nat
  BY <1>1 DEF Queue
<1> HIDE DEF r
<1>4. f \in [DOMAIN r -> DOMAIN q]
  BY <1>1
<1>5. \A k \in DOMAIN r : r[k] = q[f[k]]
  BY <1>1
<1>6. \A j, k \in DOMAIN r : j < k => f[j] < f[k]
  BY <1>3
<1>7. ASSUME NEW i \in DOMAIN q, q[i].com \in C
      PROVE  \E k \in DOMAIN r : f[k] = i
  <2>1. i # 1
    BY <1>1, <1>7
  <2>2. i - 1 \in DOMAIN r /\ f[i - 1] = i
    BY <1>1, <1>2, <2>1
  <2> QED BY <2>2
<1> HIDE DEF f
<1>8. Thin(q, r, C)
  BY <1>4, <1>5, <1>6, <1>7 DEF Thin
<1> QED BY <1>8 DEF r

LEMMA UnaskedThin ==
    ASSUME NEW w \in Nat, NEW q, Queue(q, w), NEW n, NEW C, "SYNC" \notin C
    PROVE  Thin(q, Unasked(q, n), C)
<1>1. PICK f \in [DOMAIN Unasked(q, n) -> DOMAIN q] :
          /\ \A k \in DOMAIN Unasked(q, n) :
                /\ Unasked(q, n)[k] = q[f[k]]
                /\ q[f[k]].com # "SYNC" \/ q[f[k]].from # n
          /\ \A j, k \in DOMAIN Unasked(q, n) : j < k => f[j] < f[k]
          /\ \A i \in DOMAIN q : q[i].com # "SYNC" \/ q[i].from # n =>
                \E k \in DOMAIN Unasked(q, n) : f[k] = i
  BY QueuePick
<1> DEFINE r == Unasked(q, n)
<1> HIDE DEF r
<1>2. /\ f \in [DOMAIN r -> DOMAIN q]
      /\ \A k \in DOMAIN r : r[k] = q[f[k]]
      /\ \A j, k \in DOMAIN r : j < k => f[j] < f[k]
      /\ \A i \in DOMAIN q : q[i].com \in C => \E k \in DOMAIN r : f[k] = i
  BY <1>1 DEF r
<1>3. Thin(q, r, C)
  BY <1>2 DEF Thin
<1> QED BY <1>3 DEF r

\* What Thin keeps of a queue.
LEMMA ThinFacts ==
    ASSUME NEW w \in Nat, NEW q, Queue(q, w), NEW v \in Nat, NEW r, Queue(r, v), NEW C, Thin(q, r, C)
    PROVE  /\ \A com : Holds(r, com) => Holds(q, com)
           /\ \A com \in C : Holds(q, com) => Holds(r, com)
           /\ \A k \in DOMAIN r : \E i \in DOMAIN q :
                 /\ q[i] = r[k]
                 /\ \A j \in DOMAIN r : j < k => \E h \in DOMAIN q : h < i /\ q[h] = r[j]
                 /\ \A j \in DOMAIN r : k < j => \E h \in DOMAIN q : i < h /\ q[h] = r[j]
                 /\ \A h \in DOMAIN q : h < i /\ q[h].com \in C =>
                       \E j \in DOMAIN r : j < k /\ r[j] = q[h]
                 /\ \A h \in DOMAIN q : i < h /\ q[h].com \in C =>
                       \E j \in DOMAIN r : k < j /\ r[j] = q[h]
           /\ \A i \in DOMAIN q : q[i].com \in C =>
                 \E k \in DOMAIN r :
                    /\ r[k] = q[i]
                    /\ \A j \in DOMAIN r : k < j => \E h \in DOMAIN q : i < h /\ q[h] = r[j]
<1>1. PICK f \in [DOMAIN r -> DOMAIN q] :
       /\ \A k \in DOMAIN r : r[k] = q[f[k]]
       /\ \A j, k \in DOMAIN r : j < k => f[j] < f[k]
       /\ \A i \in DOMAIN q : q[i].com \in C => \E k \in DOMAIN r : f[k] = i
  BY DEF Thin
<1>2. (\A i \in DOMAIN q : i \in Nat) /\ (\A k \in DOMAIN r : k \in Nat /\ f[k] \in DOMAIN q)
  BY DEF Queue
<1>3. \A j, k \in DOMAIN r : f[j] < f[k] => j < k
  <2> SUFFICES ASSUME NEW j \in DOMAIN r, NEW k \in DOMAIN r, f[j] < f[k] PROVE j < k
    OBVIOUS
  <2>1. j \in Nat /\ k \in Nat /\ f[j] \in Nat /\ f[k] \in Nat
    BY <1>2
  <2>2. ~(k < j) /\ k # j
    BY <1>1, <2>1
  <2> QED BY <2>1, <2>2
<1>4. ASSUME NEW k \in DOMAIN r
      PROVE  \E i \in DOMAIN q :
                 /\ q[i] = r[k]
                 /\ \A j \in DOMAIN r : j < k => \E h \in DOMAIN q : h < i /\ q[h] = r[j]
                 /\ \A j \in DOMAIN r : k < j => \E h \in DOMAIN q : i < h /\ q[h] = r[j]
                 /\ \A h \in DOMAIN q : h < i /\ q[h].com \in C =>
                       \E j \in DOMAIN r : j < k /\ r[j] = q[h]
                 /\ \A h \in DOMAIN q : i < h /\ q[h].com \in C =>
                       \E j \in DOMAIN r : k < j /\ r[j] = q[h]
  <2>1. f[k] \in DOMAIN q /\ q[f[k]] = r[k]
    BY <1>1, <1>2
  <2>2. \A j \in DOMAIN r : j < k => f[j] \in DOMAIN q /\ f[j] < f[k] /\ q[f[j]] = r[j]
    BY <1>1, <1>2
  <2>3. \A j \in DOMAIN r : k < j => f[j] \in DOMAIN q /\ f[k] < f[j] /\ q[f[j]] = r[j]
    BY <1>1, <1>2
  <2>4. ASSUME NEW h \in DOMAIN q, h < f[k], q[h].com \in C
        PROVE  \E j \in DOMAIN r : j < k /\ r[j] = q[h]
    <3>1. PICK j \in DOMAIN r : f[j] = h
      BY <1>1, <2>4
    <3> QED BY <1>1, <1>3, <2>4, <3>1
  <2>5. ASSUME NEW h \in DOMAIN q, f[k] < h, q[h].com \in C
        PROVE  \E j \in DOMAIN r : k < j /\ r[j] = q[h]
    <3>1. PICK j \in DOMAIN r : f[j] = h
      BY <1>1, <2>5
    <3> QED BY <1>1, <1>3, <2>5, <3>1
  <2> QED BY <2>1, <2>2, <2>3, <2>4, <2>5
<1>5. ASSUME NEW i \in DOMAIN q, q[i].com \in C
      PROVE  \E k \in DOMAIN r :
                    /\ r[k] = q[i]
                    /\ \A j \in DOMAIN r : k < j => \E h \in DOMAIN q : i < h /\ q[h] = r[j]
  <2>1. PICK k \in DOMAIN r : f[k] = i
    BY <1>1, <1>5
  <2> QED BY <1>1, <1>2, <2>1
<1>6. \A com : Holds(r, com) => Holds(q, com)
  BY <1>1, <1>2 DEF Holds
<1>7. \A com \in C : Holds(q, com) => Holds(r, com)
  BY <1>1, <1>2 DEF Holds
<1> QED BY <1>4, <1>5, <1>6, <1>7

LEMMA PlaceThin ==
    ASSUME NEW w \in Nat, NEW q, Queue(q, w), NEW v \in Nat, NEW r, Queue(r, v), NEW C, Thin(q, r, C),
           {"CLUSTER", "KILL"} \subseteq C, NEW n, NEW d, NEW dk, NEW al, NEW la, NEW S, Place(n, d, q, dk, al, la, S)
    PROVE  Place(n, d, r, dk, al, la, S)
<1>1. /\ \A com : Holds(r, com) => Holds(q, com)
      /\ \A com \in C : Holds(q, com) => Holds(r, com)
  BY ThinFacts
<1>2. \A k \in DOMAIN r : \E i \in DOMAIN q :
                 /\ q[i] = r[k]
                 /\ \A j \in DOMAIN r : j < k => \E h \in DOMAIN q : h < i /\ q[h] = r[j]
                 /\ \A j \in DOMAIN r : k < j => \E h \in DOMAIN q : i < h /\ q[h] = r[j]
                 /\ \A h \in DOMAIN q : h < i /\ q[h].com \in C =>
                       \E j \in DOMAIN r : j < k /\ r[j] = q[h]
                 /\ \A h \in DOMAIN q : i < h /\ q[h].com \in C =>
                       \E j \in DOMAIN r : k < j /\ r[j] = q[h]
  BY ThinFacts
<1>3. \A i \in DOMAIN q : q[i].com \in C =>
                 \E k \in DOMAIN r :
                    /\ r[k] = q[i]
                    /\ \A j \in DOMAIN r : k < j => \E h \in DOMAIN q : i < h /\ q[h] = r[j]
  BY ThinFacts
<1>4. \A k \in DOMAIN r : \E i \in DOMAIN q : q[i] = r[k]
  BY <1>2
<1>5. Views(n, d, r, al)
  <2>1. n \notin Range(al) => ~Holds(r, "CLUSTER")
    BY <1>1 DEF Place, Views
  <2>2. d.view = al /\ ~Holds(q, "CLUSTER") => d.view = al /\ ~Holds(r, "CLUSTER")
    BY <1>1
  <2>3. ASSUME NEW i \in DOMAIN q, q[i].com = "CLUSTER", q[i].list = al,
               \A j \in DOMAIN q : i < j => q[j].com # "CLUSTER"
        PROVE  \E k \in DOMAIN r : /\ r[k].com = "CLUSTER" /\ r[k].list = al
                                   /\ \A j \in DOMAIN r : k < j => r[j].com # "CLUSTER"
    <3>1. PICK k \in DOMAIN r :
                    /\ r[k] = q[i]
                    /\ \A j \in DOMAIN r : k < j => \E h \in DOMAIN q : i < h /\ q[h] = r[j]
      BY <1>3, <2>3
    <3> QED BY <2>3, <3>1
  <2> QED BY <2>1, <2>2, <2>3 DEF Place, Views
<1>6. Roles(n, d, r, al, S)
  BY <1>1, <1>4 DEF Place, Roles
<1>7. Writes(n, d, r)
  <2> SUFFICES ASSUME NEW k \in DOMAIN r, r[k].com = "WRITE"
               PROVE  /\ d.main = "run" /\ d.stage = "no" /\ ~d.killed /\ ~d.primary
                      /\ \A j \in DOMAIN r : j < k => r[j].com # "KILL" /\ ~Names(r[j], n)
    BY DEF Writes
  <2>1. PICK i \in DOMAIN q :
                 /\ q[i] = r[k]
                 /\ \A j \in DOMAIN r : j < k => \E h \in DOMAIN q : h < i /\ q[h] = r[j]
    BY <1>2
  <2> QED BY <2>1 DEF Place, Writes
<1>8. Restarts(n, d, r, la, S)
  <2> SUFFICES ASSUME NEW k \in DOMAIN r, r[k].com = "RESTART"
               PROVE  IF Left(n, la, S)
                      THEN (d.killed /\ d.primary) \/ \E j \in DOMAIN r : j < k /\ Names(r[j], n)
                      ELSE /\ ~d.primary \/ Holds(r, "KILL")
                           /\ \A j \in DOMAIN r : j < k => ~Names(r[j], n)
    BY DEF Restarts
  <2>1. PICK i \in DOMAIN q :
                 /\ q[i] = r[k]
                 /\ \A j \in DOMAIN r : j < k => \E h \in DOMAIN q : h < i /\ q[h] = r[j]
                 /\ \A h \in DOMAIN q : h < i /\ q[h].com \in C =>
                       \E j \in DOMAIN r : j < k /\ r[j] = q[h]
    BY <1>2
  <2>2. IF Left(n, la, S)
        THEN (d.killed /\ d.primary) \/ \E j \in DOMAIN q : j < i /\ Names(q[j], n)
        ELSE /\ ~d.primary \/ Holds(q, "KILL")
             /\ \A j \in DOMAIN q : j < i => ~Names(q[j], n)
    BY <2>1 DEF Place, Restarts
  <2>3. \A j \in DOMAIN q : Names(q[j], n) => q[j].com = "CLUSTER"
    BY DEF Names
  <2> QED BY <1>1, <2>1, <2>2, <2>3
<1>9. Asking(n, d, r, al, la, S)
  <2> SUFFICES ASSUME NEW p \in Nodes, Asked(n, d, r, p) PROVE Asked(n, d, q, p)
    BY DEF Place, Asking
  <2>1. (\E i \in DOMAIN r : Names(r[i], p)) => \E i \in DOMAIN q : Names(q[i], p)
    BY <1>4
  <2>2. ASSUME NEW k \in DOMAIN r, r[k].com = "RESTART",
               \/ \E j \in DOMAIN r : j < k /\ Names(r[j], p)
               \/ /\ \A j \in DOMAIN r : j < k => r[j].com # "CLUSTER"
                  /\ d.view # <<>> /\ p = Head(d.view)
        PROVE  \E i \in DOMAIN q :
                  /\ q[i].com = "RESTART"
                  /\ \/ \E j \in DOMAIN q : j < i /\ Names(q[j], p)
                     \/ /\ \A j \in DOMAIN q : j < i => q[j].com # "CLUSTER"
                        /\ d.view # <<>> /\ p = Head(d.view)
    <3>1. PICK i \in DOMAIN q :
                 /\ q[i] = r[k]
                 /\ \A j \in DOMAIN r : j < k => \E h \in DOMAIN q : h < i /\ q[h] = r[j]
                 /\ \A h \in DOMAIN q : h < i /\ q[h].com \in C =>
                       \E j \in DOMAIN r : j < k /\ r[j] = q[h]
      BY <1>2
    <3> QED BY <2>2, <3>1
  <2> QED BY <2>1, <2>2 DEF Asked
<1>10. Leaver(n, d, r, al, la, S)
  BY <1>1, <1>4 DEF Place, Leaver
<1>11. Pristine(d, r, dk, la, S)
  BY <1>1 DEF Place, Pristine
<1> QED BY <1>5, <1>6, <1>7, <1>8, <1>9, <1>10, <1>11 DEF Place

\* r is q with m at its end.
Grown(q, r, m) ==
    /\ DOMAIN q \subseteq DOMAIN r /\ r # <<>>
    /\ \E k \in DOMAIN r :
          /\ r[k] = m /\ k \notin DOMAIN q
          /\ \A i \in DOMAIN r : i \in DOMAIN q \/ i = k
          /\ \A i \in DOMAIN q : i < k
    /\ \A i \in DOMAIN q : r[i] = q[i]
    /\ \A i, j \in DOMAIN r : i < j => i \in DOMAIN q /\ ~(j < i) /\ i # j
    /\ \A com : Holds(r, com) <=> Holds(q, com) \/ m.com = com

LEMMA AppendFacts ==
    ASSUME NEW w \in Nat, NEW q, Queue(q, w), NEW m \in Letter, Sensible(m, w)
    PROVE  Queue(Append(q, m), w) /\ Grown(q, Append(q, m), m)
<1> DEFINE k == Len(q) + 1
           r == Append(q, m)
<1>1. /\ Queue(r, w) /\ r # <<>>
      /\ DOMAIN q = 1 .. Len(q) /\ Len(q) \in Nat /\ DOMAIN r = 1 .. k
      /\ \A i \in DOMAIN q : i \in DOMAIN r /\ r[i] = q[i]
      /\ k \in DOMAIN r /\ r[k] = m
      /\ \A i \in DOMAIN r : i \in DOMAIN q \/ i = k
  BY QueueAppend
<1> HIDE DEF r
<1>2. k \notin DOMAIN q /\ \A i \in DOMAIN q : i < k
  BY <1>1
<1>3. \A i, j \in DOMAIN r : i < j => i \in DOMAIN q /\ ~(j < i) /\ i # j
  BY <1>1
<1> HIDE DEF k
<1>4. \A com : Holds(r, com) <=> Holds(q, com) \/ m.com = com
  BY <1>1 DEF Holds
<1>5. Grown(q, r, m)
  BY <1>1, <1>2, <1>3, <1>4 DEF Grown
<1> QED BY <1>1, <1>5 DEF r

\* SYNC and CKPT change nothing until they are read.
LEMMA PlaceAppend ==
    ASSUME NEW q, NEW r, NEW m, Grown(q, r, m), m.com \in {"SYNC", "CKPT"},
           NEW n, NEW d, NEW dk, NEW al, NEW la, NEW S, Place(n, d, q, dk, al, la, S),
           d.main # "wait" \/ ~Left(n, la, S), m.com = "CKPT" => ~Virgin(la, S)
    PROVE  Place(n, d, r, dk, al, la, S)
<1>1. PICK k \in DOMAIN r :
                 /\ r[k] = m /\ k \notin DOMAIN q
                 /\ \A i \in DOMAIN r : i \in DOMAIN q \/ i = k
                 /\ \A i \in DOMAIN q : i < k
  BY DEF Grown
<1>2. /\ DOMAIN q \subseteq DOMAIN r
      /\ \A i \in DOMAIN q : r[i] = q[i]
      /\ \A i, j \in DOMAIN r : i < j => i \in DOMAIN q /\ ~(j < i) /\ i # j
      /\ \A com : Holds(r, com) <=> Holds(q, com) \/ m.com = com
  BY DEF Grown
<1>3. \A p : ~Names(m, p)
  BY DEF Names
<1>4. Views(n, d, r, al)
  <2>1. ASSUME NEW i \in DOMAIN q, q[i].com = "CLUSTER", q[i].list = al,
               \A j \in DOMAIN q : i < j => q[j].com # "CLUSTER"
        PROVE  \E h \in DOMAIN r : /\ r[h].com = "CLUSTER" /\ r[h].list = al
                                   /\ \A j \in DOMAIN r : h < j => r[j].com # "CLUSTER"
    <3>1. r[i].com = "CLUSTER" /\ r[i].list = al /\ i \in DOMAIN r
      BY <1>2, <2>1
    <3>2. \A j \in DOMAIN r : i < j => r[j].com # "CLUSTER"
      BY <1>1, <1>2, <2>1
    <3> QED BY <3>1, <3>2
  <2> QED BY <1>2, <2>1 DEF Place, Views
<1>5. Roles(n, d, r, al, S)
  BY <1>1, <1>2, <1>3 DEF Place, Roles
<1>6. Writes(n, d, r)
  BY <1>1, <1>2, <1>3 DEF Place, Writes
<1>7. Restarts(n, d, r, la, S)
  <2> SUFFICES ASSUME NEW i \in DOMAIN r, r[i].com = "RESTART"
               PROVE  IF Left(n, la, S)
                      THEN (d.killed /\ d.primary) \/ \E j \in DOMAIN r : j < i /\ Names(r[j], n)
                      ELSE /\ ~d.primary \/ Holds(r, "KILL")
                           /\ \A j \in DOMAIN r : j < i => ~Names(r[j], n)
    BY DEF Restarts
  <2>1. i \in DOMAIN q /\ q[i].com = "RESTART"
    BY <1>1, <1>2
  <2>2. IF Left(n, la, S)
        THEN (d.killed /\ d.primary) \/ \E j \in DOMAIN q : j < i /\ Names(q[j], n)
        ELSE /\ ~d.primary \/ Holds(q, "KILL")
             /\ \A j \in DOMAIN q : j < i => ~Names(q[j], n)
    BY <2>1 DEF Place, Restarts
  <2> QED BY <1>2, <2>1, <2>2
<1>8. Asking(n, d, r, al, la, S)
  <2> SUFFICES ASSUME NEW p \in Nodes, Asked(n, d, r, p) PROVE Asked(n, d, q, p)
    BY DEF Place, Asking
  <2>1. (\E i \in DOMAIN r : Names(r[i], p)) => \E i \in DOMAIN q : Names(q[i], p)
    BY <1>1, <1>2, <1>3
  <2>2. ASSUME NEW i \in DOMAIN r, r[i].com = "RESTART"
        PROVE  i \in DOMAIN q /\ q[i].com = "RESTART"
    BY <1>1, <1>2, <2>2
  <2>3. (\E i \in DOMAIN r :
          /\ r[i].com = "RESTART"
          /\ \/ \E j \in DOMAIN r : j < i /\ Names(r[j], p)
             \/ /\ \A j \in DOMAIN r : j < i => r[j].com # "CLUSTER"
                /\ d.view # <<>> /\ p = Head(d.view))
        => (\E i \in DOMAIN q :
          /\ q[i].com = "RESTART"
          /\ \/ \E j \in DOMAIN q : j < i /\ Names(q[j], p)
             \/ /\ \A j \in DOMAIN q : j < i => q[j].com # "CLUSTER"
                /\ d.view # <<>> /\ p = Head(d.view))
    BY <1>2, <2>2
  <2> QED BY <2>1, <2>3 DEF Asked
<1>9. Leaver(n, d, r, al, la, S)
  BY <1>1, <1>2 DEF Place, Leaver
<1>10. Pristine(d, r, dk, la, S)
  BY <1>2 DEF Place, Pristine
<1> QED BY <1>4, <1>5, <1>6, <1>7, <1>8, <1>9, <1>10 DEF Place

\* A forwarded write reaches a member that has recovered and is not the first.
LEMMA PlaceWrite ==
    ASSUME NEW q, NEW r, NEW m, Grown(q, r, m), m.com = "WRITE",
           NEW n, NEW d, NEW dk, NEW al, NEW la, NEW S, Place(n, d, q, dk, al, la, S),
           n \in S, d.main = "run", d.stage = "no", ~d.killed, ~Holds(q, "KILL"), ~IsFirst(n, al)
    PROVE  Place(n, d, r, dk, al, la, S)
<1>1. PICK k \in DOMAIN r :
                 /\ r[k] = m /\ k \notin DOMAIN q
                 /\ \A i \in DOMAIN r : i \in DOMAIN q \/ i = k
                 /\ \A i \in DOMAIN q : i < k
  BY DEF Grown
<1>2. /\ DOMAIN q \subseteq DOMAIN r
      /\ \A i \in DOMAIN q : r[i] = q[i]
      /\ \A i, j \in DOMAIN r : i < j => i \in DOMAIN q /\ ~(j < i) /\ i # j
      /\ \A com : Holds(r, com) <=> Holds(q, com) \/ m.com = com
  BY DEF Grown
<1>3. \A p : ~Names(m, p)
  BY DEF Names
<1>v. ~Virgin(la, S) /\ ~Left(n, la, S)
  BY DEF Virgin, Left
<1>4. Views(n, d, r, al)
  <2>1. ASSUME NEW i \in DOMAIN q, q[i].com = "CLUSTER", q[i].list = al,
               \A j \in DOMAIN q : i < j => q[j].com # "CLUSTER"
        PROVE  \E h \in DOMAIN r : /\ r[h].com = "CLUSTER" /\ r[h].list = al
                                   /\ \A j \in DOMAIN r : h < j => r[j].com # "CLUSTER"
    <3>1. r[i].com = "CLUSTER" /\ r[i].list = al /\ i \in DOMAIN r
      BY <1>2, <2>1
    <3>2. \A j \in DOMAIN r : i < j => r[j].com # "CLUSTER"
      BY <1>1, <1>2, <2>1
    <3> QED BY <3>1, <3>2
  <2> QED BY <1>2, <2>1 DEF Place, Views
<1>5. Roles(n, d, r, al, S)
  BY <1>1, <1>2, <1>3 DEF Place, Roles
<1>6. Writes(n, d, r)
  <2>1. ~d.primary /\ \A i \in DOMAIN q : ~Names(q[i], n) /\ q[i].com # "KILL"
    BY DEF Place, Roles, Holds
  <2> QED BY <1>1, <1>2, <2>1 DEF Place, Writes
<1>7. Restarts(n, d, r, la, S)
  <2> SUFFICES ASSUME NEW i \in DOMAIN r, r[i].com = "RESTART"
               PROVE  /\ ~d.primary \/ Holds(r, "KILL")
                      /\ \A j \in DOMAIN r : j < i => ~Names(r[j], n)
    BY <1>v DEF Restarts
  <2>1. i \in DOMAIN q /\ q[i].com = "RESTART"
    BY <1>1, <1>2
  <2>2. /\ ~d.primary \/ Holds(q, "KILL")
        /\ \A j \in DOMAIN q : j < i => ~Names(q[j], n)
    BY <1>v, <2>1 DEF Place, Restarts
  <2> QED BY <1>2, <2>1, <2>2
<1>8. Asking(n, d, r, al, la, S)
  <2> SUFFICES ASSUME NEW p \in Nodes, Asked(n, d, r, p) PROVE Asked(n, d, q, p)
    BY DEF Place, Asking
  <2>1. (\E i \in DOMAIN r : Names(r[i], p)) => \E i \in DOMAIN q : Names(q[i], p)
    BY <1>1, <1>2, <1>3
  <2>2. ASSUME NEW i \in DOMAIN r, r[i].com = "RESTART"
        PROVE  i \in DOMAIN q /\ q[i].com = "RESTART"
    BY <1>1, <1>2, <2>2
  <2>3. (\E i \in DOMAIN r :
          /\ r[i].com = "RESTART"
          /\ \/ \E j \in DOMAIN r : j < i /\ Names(r[j], p)
             \/ /\ \A j \in DOMAIN r : j < i => r[j].com # "CLUSTER"
                /\ d.view # <<>> /\ p = Head(d.view))
        => (\E i \in DOMAIN q :
          /\ q[i].com = "RESTART"
          /\ \/ \E j \in DOMAIN q : j < i /\ Names(q[j], p)
             \/ /\ \A j \in DOMAIN q : j < i => q[j].com # "CLUSTER"
                /\ d.view # <<>> /\ p = Head(d.view))
    BY <1>2, <2>2
  <2> QED BY <2>1, <2>3 DEF Asked
<1> QED BY <1>v, <1>4, <1>5, <1>6, <1>7, <1>8 DEF Place, Leaver, Pristine

------------------------------------------------------------------------------
(* What the steps of one node do to the places of the others.              *)

\* A node that waits, is joining or has messages of the master is a member or not.
Mem(d, q, n, al) ==
    /\ d.main = "wait" \/ d.stage # "no" \/ Holds(q, "RESTART") => n \in Range(al)
    /\ d.stage = "no" => d.link = None

\* The member x recovers.
LEMMA PlaceGain ==
    ASSUME NEW al \in Seq(Nodes), NEW x \in Range(al), NEW n \in Nodes, n # x, NEW la, NEW S, NEW Z,
           Z = S \cup {x}, Virgin(la, S) => IsFirst(x, al),
           NEW d, NEW q, NEW dk, Mem(d, q, n, al), Place(n, d, q, dk, al, la, S)
    PROVE  Place(n, d, q, dk, al, la, Z)
<1>0. ~Virgin(la, Z) /\ ~Left(n, la, Z) /\ x \in Z /\ \A m \in S : m \in Z
  BY DEF Virgin, Left
<1>1. Left(n, la, S) => n \notin Range(al)
  <2> SUFFICES ASSUME Left(n, la, S), n \in Range(al) PROVE FALSE
    OBVIOUS
  <2>1. al = <<n>>
    BY DEF Place, Leaver
  <2>2. Range(<<n>>) = {n}
    BY DEF Range
  <2> QED BY <2>1, <2>2
<1>2. Waits(n, d, al, la, Z)
  <2>1. Virgin(la, S) => Head(al) = x
    BY DEF IsFirst
  <2> QED BY <1>0, <1>1, <2>1 DEF Place, Waits, Mem
<1>3. Views(n, d, q, al) /\ Writes(n, d, q)
  BY DEF Place
<1>4. Roles(n, d, q, al, Z)
  BY <1>0 DEF Place, Roles
<1>5. Restarts(n, d, q, la, Z)
  <2>1. Holds(q, "RESTART") => ~Left(n, la, S)
    BY <1>1 DEF Mem
  <2> QED BY <1>0, <2>1 DEF Place, Restarts, Holds
<1>6. Asking(n, d, q, al, la, Z)
  <2>1. \A p : Virgin(la, S) /\ IsFirst(p, al) => p = x
    BY DEF IsFirst
  <2> QED BY <1>0, <2>1 DEF Place, Asking
<1>7. Linked(d, al, Z)
  BY <1>0 DEF Place, Linked
<1>8. Leaver(n, d, q, al, la, Z)
  BY <1>0 DEF Leaver
<1>9. Forwards(n, d, al, Z)
  BY <1>0 DEF Place, Forwards
<1>10. Pristine(d, q, dk, la, Z)
  BY <1>0 DEF Pristine
<1> QED BY <1>2, <1>3, <1>4, <1>5, <1>6, <1>7, <1>8, <1>9, <1>10 DEF Place

\* What the master tells about a new list, in the inbox of a member.
LEMMA TellViews ==
    ASSUME NEW q, NEW r, NEW list, Grown(q, r, News(list)), NEW n, NEW d, n \in Range(list)
    PROVE  Views(n, d, r, list)
<1>1. PICK k \in DOMAIN r :
                 /\ r[k] = News(list) /\ k \notin DOMAIN q
                 /\ \A i \in DOMAIN r : i \in DOMAIN q \/ i = k
                 /\ \A i \in DOMAIN q : i < k
  BY DEF Grown
<1>2. r[k].com = "CLUSTER" /\ r[k].list = list
  BY <1>1 DEF News, Message
<1>3. \A i, j \in DOMAIN r : i < j => i \in DOMAIN q
  BY DEF Grown
<1>4. \A j \in DOMAIN r : k < j => r[j].com # "CLUSTER"
  BY <1>1, <1>3
<1> QED BY <1>2, <1>4 DEF Views

LEMMA TellRoles ==
    ASSUME NEW q, NEW r, NEW list, list # <<>>, Grown(q, r, News(list)), NEW n, NEW d, NEW S,
           Roles(n, d, q, list, S)
    PROVE  Roles(n, d, r, list, S)
<1>1. PICK k \in DOMAIN r :
                 /\ r[k] = News(list) /\ k \notin DOMAIN q
                 /\ \A i \in DOMAIN r : i \in DOMAIN q \/ i = k
  BY DEF Grown
<1>2. (\A i \in DOMAIN q : r[i] = q[i]) /\ (Holds(q, "KILL") => Holds(r, "KILL"))
  BY DEF Grown
<1>3. Names(News(list), n) => IsFirst(n, list)
  BY DEF Names, News, Message, IsFirst
<1>4. \A i \in DOMAIN r : Names(r[i], n) => IsFirst(n, list)
  BY <1>1, <1>2, <1>3 DEF Roles
<1> QED BY <1>2, <1>4 DEF Roles

LEMMA TellWrites ==
    ASSUME NEW q, NEW r, NEW list, Grown(q, r, News(list)), NEW n, NEW d, Writes(n, d, q)
    PROVE  Writes(n, d, r)
<1>1. PICK k \in DOMAIN r :
                 /\ r[k] = News(list) /\ k \notin DOMAIN q
                 /\ \A i \in DOMAIN r : i \in DOMAIN q \/ i = k
  BY DEF Grown
<1>2. r[k].com = "CLUSTER"
  BY <1>1 DEF News, Message
<1>3. \A i \in DOMAIN q : r[i] = q[i]
  BY DEF Grown
<1>4. \A i, j \in DOMAIN r : i < j => i \in DOMAIN q
  BY DEF Grown
<1> QED BY <1>1, <1>2, <1>3, <1>4 DEF Writes

LEMMA TellRestarts ==
    ASSUME NEW q, NEW r, NEW list, Grown(q, r, News(list)), NEW n, NEW d, NEW la, NEW S,
           Restarts(n, d, q, la, S)
    PROVE  Restarts(n, d, r, la, S)
<1>1. PICK k \in DOMAIN r :
                 /\ r[k] = News(list) /\ k \notin DOMAIN q
                 /\ \A i \in DOMAIN r : i \in DOMAIN q \/ i = k
  BY DEF Grown
<1>2. r[k].com = "CLUSTER"
  BY <1>1 DEF News, Message
<1>3. (\A i \in DOMAIN q : r[i] = q[i]) /\ DOMAIN q \subseteq DOMAIN r /\ (Holds(q, "KILL") => Holds(r, "KILL"))
  BY DEF Grown
<1>4. \A i, j \in DOMAIN r : i < j => i \in DOMAIN q
  BY DEF Grown
<1> SUFFICES ASSUME NEW i \in DOMAIN r, r[i].com = "RESTART"
             PROVE  IF Left(n, la, S)
                    THEN (d.killed /\ d.primary) \/ \E j \in DOMAIN r : j < i /\ Names(r[j], n)
                    ELSE /\ ~d.primary \/ Holds(r, "KILL")
                         /\ \A j \in DOMAIN r : j < i => ~Names(r[j], n)
  BY DEF Restarts
<1>5. i \in DOMAIN q /\ q[i].com = "RESTART"
  BY <1>1, <1>2, <1>3
<1>6. IF Left(n, la, S)
      THEN (d.killed /\ d.primary) \/ \E j \in DOMAIN q : j < i /\ Names(q[j], n)
      ELSE /\ ~d.primary \/ Holds(q, "KILL")
           /\ \A j \in DOMAIN q : j < i => ~Names(q[j], n)
  BY <1>5 DEF Restarts
<1> QED BY <1>3, <1>4, <1>5, <1>6

LEMMA TellAsked ==
    ASSUME NEW q, NEW r, NEW list, Grown(q, r, News(list)), NEW n, NEW d, NEW p, Asked(n, d, r, p)
    PROVE  Asked(n, d, q, p) \/ (d.main = "wait" /\ p = Head(list))
<1>1. PICK k \in DOMAIN r :
                 /\ r[k] = News(list) /\ k \notin DOMAIN q
                 /\ \A i \in DOMAIN r : i \in DOMAIN q \/ i = k
  BY DEF Grown
<1>2. r[k].com = "CLUSTER" /\ r[k].list = list
  BY <1>1 DEF News, Message
<1>3. (\A i \in DOMAIN q : r[i] = q[i]) /\ DOMAIN q \subseteq DOMAIN r
  BY DEF Grown
<1>4. \A i, j \in DOMAIN r : i < j => i \in DOMAIN q
  BY DEF Grown
<1>5. ASSUME NEW i \in DOMAIN r, Names(r[i], p) PROVE p = Head(list) \/ \E j \in DOMAIN q : Names(q[j], p)
  BY <1>1, <1>2, <1>3, <1>5 DEF Names
<1>6. ASSUME NEW i \in DOMAIN r, r[i].com = "RESTART" PROVE i \in DOMAIN q /\ q[i].com = "RESTART"
  BY <1>1, <1>2, <1>3, <1>6
<1>7. (\E i \in DOMAIN r :
          /\ r[i].com = "RESTART"
          /\ \/ \E j \in DOMAIN r : j < i /\ Names(r[j], p)
             \/ /\ \A j \in DOMAIN r : j < i => r[j].com # "CLUSTER"
                /\ d.view # <<>> /\ p = Head(d.view))
        => (\E i \in DOMAIN q :
          /\ q[i].com = "RESTART"
          /\ \/ \E j \in DOMAIN q : j < i /\ Names(q[j], p)
             \/ /\ \A j \in DOMAIN q : j < i => q[j].com # "CLUSTER"
                /\ d.view # <<>> /\ p = Head(d.view))
  BY <1>3, <1>4, <1>6
<1> QED BY <1>5, <1>7 DEF Asked

\* MayJoin: the group has somebody to copy from, or x is who has the state.
Entry(x, al, la, S) ==
    \/ al # <<>> /\ Head(al) \in S
    \/ al = <<>> /\ la = x
    \/ Virgin(la, S)

LEMMA PlaceJoin ==
    ASSUME NEW al \in Seq(Nodes), Distinct(al), NEW x \in Nodes, x \notin Range(al),
           NEW bl, bl = Append(al, x), NEW n \in Nodes, n # x, NEW la, NEW S, Entry(x, al, la, S),
           NEW d, NEW q, NEW dk, Mem(d, q, n, al), Place(n, d, q, dk, al, la, S),
           d.conn # "forward",
           NEW r, \/ n \in Range(al) /\ Grown(q, r, News(bl))
                  \/ n \notin Range(al) /\ r = q
    PROVE  Place(n, d, r, dk, bl, la, S)
<1>1. /\ bl \in Seq(Nodes) /\ Distinct(bl) /\ Range(bl) = Range(al) \cup {x} /\ bl # <<>>
      /\ al # <<>> => Head(bl) = Head(al)
      /\ \A p : IsFirst(p, al) => IsFirst(p, bl)
      /\ \A p, m : Before(p, m, bl) => p # x /\ (m # x => Before(p, m, al))
  BY ListJoin
<1>2. n \in Range(bl) <=> n \in Range(al)
  BY <1>1
<1>3. Left(n, la, S) => n \notin Range(al)
  <2> SUFFICES ASSUME Left(n, la, S), n \in Range(al) PROVE FALSE
    OBVIOUS
  <2>1. al = <<n>> /\ S = {} /\ la = n
    BY DEF Place, Leaver, Left
  <2>2. al # <<>> /\ n # None
    BY <2>1, GroupNone
  <2> QED BY <2>1, <2>2 DEF Entry, Virgin
<1>4. n \in Range(al) => al # <<>> /\ Head(bl) = Head(al)
  BY <1>1, ListFacts
<1>5. Waits(n, d, bl, la, S)
  BY <1>3, <1>4 DEF Place, Waits, Mem
<1>6. Views(n, d, r, bl)
  <2>1. CASE n \in Range(al) /\ Grown(q, r, News(bl))
    BY <1>2, <2>1, TellViews
  <2>2. CASE n \notin Range(al) /\ r = q
    BY <1>2, <2>2 DEF Place, Views
  <2> QED BY <2>1, <2>2
<1>7. Roles(n, d, q, bl, S)
  BY <1>1 DEF Place, Roles
<1>8. Roles(n, d, r, bl, S)
  BY <1>1, <1>7, TellRoles
<1>9. Writes(n, d, r) /\ Restarts(n, d, r, la, S)
  BY TellWrites, TellRestarts DEF Place
<1>10. Asking(n, d, r, bl, la, S)
  <2> SUFFICES ASSUME NEW p \in Nodes, Asked(n, d, r, p), Before(p, n, bl)
               PROVE  IsFirst(p, bl) /\ (p \in S \/ Virgin(la, S))
    BY DEF Asking
  <2>1. Before(p, n, al)
    BY <1>1
  <2>2. n \in Range(al)
    BY <2>1, BehindFirst
  <2>3. Asked(n, d, q, p) \/ (d.main = "wait" /\ p = Head(bl))
    BY <2>2, TellAsked
  <2>4. CASE Asked(n, d, q, p)
    BY <1>1, <2>1, <2>4 DEF Place, Asking
  <2>5. CASE d.main = "wait" /\ p = Head(bl)
    BY <1>1, <1>3, <1>4, <2>2, <2>5 DEF Place, Waits, IsFirst
  <2> QED BY <2>3, <2>4, <2>5
<1>11. Linked(d, bl, S)
  BY <1>1 DEF Place, Linked
<1>12. (Holds(r, "WRITE") <=> Holds(q, "WRITE")) /\ (Holds(r, "CKPT") <=> Holds(q, "CKPT"))
  <2>1. News(bl).com = "CLUSTER"
    BY DEF News, Message
  <2> QED BY <2>1 DEF Grown
<1>13. Leaver(n, d, r, bl, la, S)
  BY <1>2, <1>3, <1>12 DEF Place, Leaver, Mem
<1>14. Forwards(n, d, bl, S)
  BY DEF Forwards
<1>15. Pristine(d, r, dk, la, S)
  BY <1>12 DEF Place, Pristine
<1> QED BY <1>5, <1>6, <1>8, <1>9, <1>10, <1>11, <1>13, <1>14, <1>15 DEF Place

\* A process whose peer has died.
LEMMA PlaceParted ==
    ASSUME NEW n, NEW d, NEW e, SameRole(e, d), SameCache(e, d), SameWork(e, d),
           e.view = d.view, e.stage = d.stage, e.link = d.link, e.peer \in {d.peer, None},
           NEW q, NEW dk, NEW al, NEW la, NEW S, Place(n, d, q, dk, al, la, S)
    PROVE  Place(n, e, q, dk, al, la, S)
<1>1. /\ e.main = d.main /\ e.killed = d.killed /\ e.primary = d.primary /\ e.seq = d.seq
      /\ e.update = d.update /\ e.conn = d.conn /\ e.todo = d.todo
  BY DEF SameRole, SameCache, SameWork
<1>2. Waits(n, e, al, la, S) /\ Views(n, e, q, al) /\ Roles(n, e, q, al, S) /\ Writes(n, e, q)
  BY <1>1 DEF Place, Waits, Views, Roles, Writes
<1>3. Restarts(n, e, q, la, S)
  BY <1>1 DEF Place, Restarts
<1>4. Asking(n, e, q, al, la, S)
  <2>1. \A p \in Nodes : Asked(n, e, q, p) => Asked(n, d, q, p)
    BY <1>1, GroupNone DEF Asked
  <2> QED BY <2>1 DEF Place, Asking
<1>5. Linked(e, al, S)
  BY DEF Place, Linked
<1>6. Leaver(n, e, q, al, la, S) /\ Forwards(n, e, al, S) /\ Pristine(e, q, dk, la, S)
  BY <1>1 DEF Place, Leaver, Forwards, Pristine
<1> QED BY <1>2, <1>3, <1>4, <1>5, <1>6 DEF Place

\* The member x leaves the list; n, if it is a member, is told.
LEMMA PlaceLeave ==
    ASSUME NEW al \in Seq(Nodes), Distinct(al), NEW x \in Range(al),
           NEW bl, bl = Without(al, x), NEW n \in Nodes, n # x, NEW la, NEW S,
           NEW lb, NEW Z, Z = S \ {x}, lb = (IF S = {x} THEN x ELSE la),
           NEW d, NEW q, NEW dk, Mem(d, q, n, al), Place(n, d, q, dk, al, la, S),
           d.link # None => d.peer # x,
           d.main = "wait" /\ x = Head(al) /\ x \in S => Head(bl) \in Z,
           NEW r, \/ n \in Range(bl) /\ Grown(q, r, News(bl))
                  \/ n \notin Range(bl) /\ r = q
    PROVE  Place(n, d, r, dk, bl, lb, Z)
<1>0. x \in Nodes /\ x # None
  BY ListFacts, GroupNone
<1>1. /\ bl \in Seq(Nodes) /\ Distinct(bl) /\ Range(bl) = Range(al) \ {x}
      /\ al # <<>> /\ Head(al) # x => bl # <<>> /\ Head(bl) = Head(al)
      /\ \A p : IsFirst(p, al) /\ p # x => IsFirst(p, bl)
      /\ \A p, m : Before(p, m, bl) => p # x /\ m # x /\ Before(p, m, al)
  BY ListLeave
<1>2. n \in Range(bl) <=> n \in Range(al)
  BY <1>1
<1>3. /\ Virgin(lb, Z) => Virgin(la, S)
      /\ Left(n, lb, Z) => Left(n, la, S)
      /\ Virgin(la, S) => Virgin(lb, Z)
      /\ Left(n, la, S) => Left(n, lb, Z)
  <2>1. S = {} \/ S = {x} \/ Z # {}
    OBVIOUS
  <2>2. S = {} => lb = la /\ Z = {}
    OBVIOUS
  <2>3. S = {x} => lb = x
    OBVIOUS
  <2> QED BY <1>0, <2>1, <2>2, <2>3 DEF Virgin, Left
<1>4. Left(n, la, S) => n \notin Range(al)
  <2> SUFFICES ASSUME Left(n, la, S), n \in Range(al) PROVE FALSE
    OBVIOUS
  <2>1. al = <<n>>
    BY DEF Place, Leaver
  <2>2. Range(<<n>>) = {n}
    BY DEF Range
  <2> QED BY <2>1, <2>2
<1>5. n \in Range(al) => al # <<>> /\ bl # <<>>
  BY <1>1, <1>2, ListFacts
<1>6. Waits(n, d, bl, lb, Z)
  <2>1. d.main = "wait" => n \in Range(al)
    BY DEF Mem
  <2>2. d.main = "wait" => Head(al) \in S \/ Virgin(la, S)
    BY <1>4, <2>1 DEF Place, Waits
  <2>3. d.main = "wait" /\ Head(al) \in S => Head(bl) \in Z
    BY <1>1, <1>5, <2>1
  <2> QED BY <1>3, <2>2, <2>3 DEF Place, Waits
<1>7. Views(n, d, r, bl)
  BY <1>2, TellViews DEF Place, Views
<1>8. Roles(n, d, q, bl, Z)
  <2>1. IsFirst(n, al) => IsFirst(n, bl)
    BY <1>1
  <2> QED BY <2>1 DEF Place, Roles
<1>9. Roles(n, d, r, bl, Z)
  BY <1>2, <1>5, <1>8, TellRoles
<1>10. Restarts(n, d, q, lb, Z)
  BY <1>3 DEF Place, Restarts
<1>11. Writes(n, d, r) /\ Restarts(n, d, r, lb, Z)
  BY <1>10, TellWrites, TellRestarts DEF Place
<1>12. Asking(n, d, r, bl, lb, Z)
  <2> SUFFICES ASSUME NEW p \in Nodes, Asked(n, d, r, p), Before(p, n, bl)
               PROVE  IsFirst(p, bl) /\ (p \in Z \/ Virgin(lb, Z))
    BY DEF Asking
  <2>1. Before(p, n, al) /\ p # x
    BY <1>1
  <2>2. n \in Range(al)
    BY <2>1, BehindFirst
  <2>3. Asked(n, d, q, p) \/ (d.main = "wait" /\ p = Head(bl))
    BY <2>2, TellAsked
  <2>4. CASE Asked(n, d, q, p)
    BY <1>1, <1>3, <2>1, <2>4 DEF Place, Asking
  <2>5. CASE d.main = "wait" /\ p = Head(bl)
    BY <1>1, <1>3, <1>4, <1>5, <1>6, <2>2, <2>5 DEF Waits, IsFirst
  <2> QED BY <2>3, <2>4, <2>5
<1>13. Linked(d, bl, Z)
  BY <1>1 DEF Place, Linked
<1>14. (Holds(r, "WRITE") <=> Holds(q, "WRITE")) /\ (Holds(r, "CKPT") <=> Holds(q, "CKPT"))
  <2>1. News(bl).com = "CLUSTER"
    BY DEF News, Message
  <2> QED BY <2>1 DEF Grown
<1>15. Leaver(n, d, r, bl, lb, Z)
  BY <1>2, <1>3, <1>4, <1>14 DEF Place, Leaver, Mem
<1>16. Forwards(n, d, bl, Z)
  BY <1>1 DEF Place, Forwards
<1>17. Pristine(d, r, dk, lb, Z)
  BY <1>3, <1>14 DEF Place, Pristine
<1> QED BY <1>6, <1>7, <1>9, <1>11, <1>12, <1>13, <1>15, <1>16, <1>17 DEF Place

\* A process that is gone.
LEMMA PlaceDown ==
    ASSUME NEW n, NEW al, NEW la, NEW S, n \notin Range(al), NEW dk, Virgin(la, S) => dk = BlankDisk
    PROVE  Place(n, Down, <<>>, dk, al, la, S)
<1>1. /\ Down.main = "down" /\ Down.conn = "idle" /\ Down.primary = FALSE /\ Down.stage = "no"
      /\ Down.link = None /\ Down.peer = None
  BY DEF Down, Fresh
<1>2. DOMAIN <<>> = {} /\ \A com : ~Holds(<<>>, com)
  BY DEF Holds
<1> QED BY <1>1, <1>2 DEF Place, Waits, Views, Roles, Writes, Restarts, Asking, Asked, Linked, Leaver,
        Forwards, Pristine

------------------------------------------------------------------------------
(* Steps that leave the list of members alone.                             *)

\* Recovered(alive), node by node.
In(n, d, q, al) ==
    /\ n \in Range(al) /\ d.main = "run" /\ d.stage = "no" /\ ~d.killed /\ ~Holds(q, "KILL")

LEMMA RecoveredIs ==
    ASSUME alive \in Seq(Nodes)
    PROVE  /\ \A m \in Nodes : m \in Recovered(alive) <=> In(m, node[m], inbox[m], alive)
           /\ Recovered(alive) \subseteq Nodes /\ Recovered(alive) \subseteq Range(alive)
<1>1. \A m \in Range(alive) : m \in Nodes
  BY ListFacts
<1>2. \A m : Pending(m, "KILL") <=> Holds(inbox[m], "KILL")
  BY DEF Pending, Holds
<1>3. \A m : m \in Recovered(alive) <=> m \in Range(alive) /\ Up(m) /\ ~Joining(m)
  BY DEF Recovered
<1> QED BY <1>1, <1>2, <1>3 DEF In, Up, Joining

LEMMA RecoveredNext ==
    ASSUME alive' \in Seq(Nodes)
    PROVE  /\ \A m \in Nodes : m \in Recovered(alive)' <=> In(m, node'[m], inbox'[m], alive')
           /\ Recovered(alive)' \subseteq Nodes /\ Recovered(alive)' \subseteq Range(alive')
<1>1. \A m \in Range(alive') : m \in Nodes
  BY ListFacts
<1>2. \A m : Pending(m, "KILL")' <=> Holds(inbox'[m], "KILL")
  BY DEF Pending, Holds
<1>3. \A m : m \in Recovered(alive)' <=> m \in Range(alive') /\ Up(m)' /\ ~Joining(m)'
  BY DEF Recovered
<1> QED BY <1>1, <1>2, <1>3 DEF In, Up, Joining

LEMMA OrderlyFacts ==
    ASSUME Orderly, NEW n \in Nodes
    PROVE  /\ Place(n, node[n], inbox[n], disk[n], alive, last, Recovered(alive))
           /\ Mem(node[n], inbox[n], n, alive)
           /\ Basic /\ Distinct(alive) /\ alive \in Seq(Nodes)
<1>1. Basic
  BY DEF Orderly
<1>2. Shape(n, node[n], inbox[n], Member(n)) /\ Proc(node[n], sent) /\ alive \in Seq(Nodes)
  BY <1>1, BasicFacts
<1>3. Mem(node[n], inbox[n], n, alive)
  BY <1>2 DEF Shape, Called, Proc, Mem, Member, Holds
<1> QED BY <1>1, <1>2, <1>3 DEF Orderly

LEMMA SteadyOrder ==
    ASSUME Orderly, Basic', alive' = alive, last' = last, NEW Z, Z \subseteq Nodes,
           \A m \in Nodes : m \in Z <=> In(m, node'[m], inbox'[m], alive),
           \A x \in Nodes : Place(x, node'[x], inbox'[x], disk'[x], alive, last, Z),
           \A p, m \in Nodes : node'[p].conn = "forward" /\ m \in Range(node'[p].todo) =>
              m \in Range(alive) \/ (node[p].conn = "forward" /\ m \in Range(node[p].todo)),
           \A m \in Nodes : node[m].main = "down" => node'[m].main = "down"
    PROVE  Orderly' /\ Recovered(alive)' = Z
<1>1. alive' \in Seq(Nodes)
  BY BasicScalars DEF Orderly
<1>2. Recovered(alive)' = Z
  BY <1>1, RecoveredNext
<1>3. Distinct(alive)'
  BY DEF Orderly
<1>4. Reaches(alive)'
  BY DEF Orderly, Reaches
<1>5. \A x \in Nodes : Place(x, node[x], inbox[x], disk[x], alive, last, Recovered(alive))'
  BY <1>2
<1> QED BY <1>2, <1>3, <1>4, <1>5 DEF Orderly

\* n alone changes, and is a recovered member as much as before.
LEMMA LocalOrder ==
    ASSUME Orderly, Basic', alive' = alive, last' = last, NEW n \in Nodes,
           \A x \in Nodes : x # n =>
              node'[x] = node[x] /\ inbox'[x] = inbox[x] /\ disk'[x] = disk[x],
           In(n, node'[n], inbox'[n], alive) <=> In(n, node[n], inbox[n], alive),
           Place(n, node'[n], inbox'[n], disk'[n], alive, last, Recovered(alive)),
           \A m \in Nodes : node'[n].conn = "forward" /\ m \in Range(node'[n].todo) =>
              m \in Range(alive) \/ (node[n].conn = "forward" /\ m \in Range(node[n].todo)),
           node[n].main = "down" => node'[n].main = "down"
    PROVE  Orderly' /\ Recovered(alive)' = Recovered(alive)
<1> PICK Z : Z = Recovered(alive)
  OBVIOUS
<1>1. Z \subseteq Nodes /\ \A m \in Nodes : m \in Z <=> In(m, node[m], inbox[m], alive)
  BY OrderlyFacts, RecoveredIs
<1>2. \A m \in Nodes : m \in Z <=> In(m, node'[m], inbox'[m], alive)
  BY <1>1
<1>3. \A x \in Nodes : Place(x, node'[x], inbox'[x], disk'[x], alive, last, Z)
  <2> SUFFICES ASSUME NEW x \in Nodes PROVE Place(x, node'[x], inbox'[x], disk'[x], alive, last, Z)
    OBVIOUS
  <2>1. Place(x, node[x], inbox[x], disk[x], alive, last, Z)
    BY OrderlyFacts
  <2> QED BY <2>1
<1> QED BY <1>1, <1>2, <1>3, SteadyOrder

\* n recovers; the others may lose the one they serve.
LEMMA GainOrder ==
    ASSUME Orderly, Basic', alive' = alive, last' = last, NEW n \in Nodes,
           \A x \in Nodes : x # n =>
              /\ \E m : node'[x] = LetGo(node[x], m)
              /\ inbox'[x] = inbox[x] /\ disk'[x] = disk[x],
           In(n, node'[n], inbox'[n], alive),
           Virgin(last, Recovered(alive)) => IsFirst(n, alive),
           Place(n, node'[n], inbox'[n], disk'[n], alive, last, Recovered(alive) \cup {n}),
           node'[n].conn # "forward",
           node[n].main # "down"
    PROVE  Orderly' /\ Recovered(alive)' = Recovered(alive) \cup {n}
<1> PICK S : S = Recovered(alive)
  OBVIOUS
<1> DEFINE Z == S \cup {n}
<1>0. alive \in Seq(Nodes) /\ n \in Range(alive)
  BY OrderlyFacts DEF In
<1>1. S \subseteq Nodes /\ \A m \in Nodes : m \in S <=> In(m, node[m], inbox[m], alive)
  BY <1>0, RecoveredIs
<1>2. \A x \in Nodes : x # n =>
         /\ SameRole(node'[x], node[x]) /\ SameCache(node'[x], node[x]) /\ SameWork(node'[x], node[x])
         /\ SameSync(node'[x], node[x]) /\ node'[x].view = node[x].view
  <2> SUFFICES ASSUME NEW x \in Nodes, x # n
               PROVE  /\ SameRole(node'[x], node[x]) /\ SameCache(node'[x], node[x])
                      /\ SameWork(node'[x], node[x])
                      /\ SameSync(node'[x], node[x]) /\ node'[x].view = node[x].view
    OBVIOUS
  <2>1. PICK m : node'[x] = LetGo(node[x], m)
    OBVIOUS
  <2>2. Proc(node[x], sent)
    BY BasicFacts DEF Orderly
  <2> QED BY <2>1, <2>2, LetGoIs
<1>3. \A m \in Nodes : m \in Z <=> In(m, node'[m], inbox'[m], alive)
  BY <1>1, <1>2 DEF In, SameRole, SameSync
<1>4. \A x \in Nodes : Place(x, node'[x], inbox'[x], disk'[x], alive, last, Z)
  <2> SUFFICES ASSUME NEW x \in Nodes, x # n PROVE Place(x, node'[x], inbox'[x], disk'[x], alive, last, Z)
    OBVIOUS
  <2>1. Place(x, node[x], inbox[x], disk[x], alive, last, S) /\ Mem(node[x], inbox[x], x, alive)
    BY OrderlyFacts
  <2>z. Z = S \cup {n}
    OBVIOUS
  <2> HIDE DEF Z
  <2>2. Place(x, node[x], inbox[x], disk[x], alive, last, Z)
    BY <1>0, <2>1, <2>z, PlaceGain
  <2>3. Place(x, node'[x], inbox[x], disk[x], alive, last, Z)
    BY <1>2, <2>2, PlaceParted DEF SameSync
  <2> QED BY <2>3
<1>5. \A p, m \in Nodes : node'[p].conn = "forward" /\ m \in Range(node'[p].todo) =>
              m \in Range(alive) \/ (node[p].conn = "forward" /\ m \in Range(node[p].todo))
  BY <1>2 DEF SameWork
<1>6. \A m \in Nodes : node[m].main = "down" => node'[m].main = "down"
  BY <1>2 DEF SameRole
<1>7. Z \subseteq Nodes /\ Z = Recovered(alive) \cup {n}
  BY <1>1
<1> HIDE DEF Z
<1> QED BY <1>3, <1>4, <1>5, <1>6, <1>7, SteadyOrder

\* The process goes on to something else.
LEMMA PlaceSame ==
    ASSUME NEW n, NEW d, NEW q, NEW dk, NEW al, NEW la, NEW S, Place(n, d, q, dk, al, la, S),
           NEW e, SameRole(e, d), SameSync(e, d), e.view = d.view,
           d.main \in {"wait", "join"} => e.conn = "idle" /\ SameCache(e, d),
           e.conn # "idle" => IsFirst(n, al) /\ d.primary /\ d.main = "run" /\ d.stage = "no",
           e.conn \in {"forward", "serve"} => n \in S, Forwards(n, e, al, S),
           NEW dn, Virgin(la, S) => dn = BlankDisk
    PROVE  Place(n, e, q, dn, al, la, S)
<1>1. /\ e.main = d.main /\ e.killed = d.killed /\ e.primary = d.primary
      /\ e.stage = d.stage /\ e.peer = d.peer /\ e.link = d.link
  BY DEF SameRole, SameSync
<1>2. Waits(n, e, al, la, S)
  BY <1>1 DEF Place, Waits, SameCache
<1>3. Views(n, e, q, al) /\ Roles(n, e, q, al, S) /\ Writes(n, e, q)
  BY <1>1 DEF Place, Views, Roles, Writes
<1>4. Restarts(n, e, q, la, S)
  BY <1>1 DEF Place, Restarts
<1>5. Asking(n, e, q, al, la, S)
  BY <1>1 DEF Place, Asking, Asked
<1>6. Linked(e, al, S) /\ Leaver(n, e, q, al, la, S)
  BY <1>1 DEF Place, Linked, Leaver
<1>7. Pristine(e, q, dn, la, S)
  BY <1>1 DEF Place, Pristine
<1> QED BY <1>2, <1>3, <1>4, <1>5, <1>6, <1>7 DEF Place

\* A checkpoint follows a message if there is something to write down.
LEMMA EndMessageInto ==
    ASSUME NEW w, NEW n \in Nodes, NEW nd, Proc(nd, w), NEW dk, EndMessage(n, nd, dk), DOMAIN node = Nodes
    PROVE  /\ node'[n].conn = "ckpt" => dk.log.ents # <<>>
           /\ \A x \in Nodes : x # n => node'[x] = node[x]
<1>1. PICK c \in NextConn(nd, dk) :
          node' = [node EXCEPT ![n] =
                     [nd EXCEPT !.conn = c, !.cur = None,
                                !.todo = IF c = "ckpt" /\ Head(nd.view) = n
                                         THEN Others(nd, n) ELSE <<>>]]
  BY DEF EndMessage
<1> DEFINE t == IF c = "ckpt" /\ Head(nd.view) = n THEN Others(nd, n) ELSE <<>>
           e == [nd EXCEPT !.conn = c, !.cur = None, !.todo = t]
<1>2. node' = [node EXCEPT ![n] = e]
  BY <1>1
<1>3. nd \in Process
  BY DEF Proc
<1> HIDE DEF t
<1>4. e.conn = c
  BY <1>3 DEF Process
<1> HIDE DEF e
<1>5. node'[n].conn = c /\ \A x \in Nodes : x # n => node'[x] = node[x]
  BY <1>2, <1>4
<1> QED BY <1>1, <1>5 DEF NextConn

\* n ends a message that leaves its role as it is.
LEMMA EndingOrder ==
    ASSUME Orderly, Basic', NEW n \in Nodes, node[n].main # "down", node[n].conn # "join",
           NEW nd, NEW w, Proc(nd, w), NEW dk, EndMessage(n, nd, dk), alive' = alive, last' = last,
           SameRole(nd, node[n]), SameSync(nd, node[n]), nd.view = node[n].view,
           node[n].main = "run" \/ SameCache(nd, node[n]),
           \/ inbox' = inbox
           \/ /\ inbox[n] # <<>> /\ Head(inbox[n]).com \notin {"CLUSTER", "KILL"}
              /\ inbox' = Unread(n),
           dk.log.ents # <<>> /\ node[n].primary /\ node[n].main = "run" => IsFirst(n, alive),
           Virgin(last, Recovered(alive)) => dk = BlankDisk
    PROVE  /\ Orderly' /\ Recovered(alive)' = Recovered(alive) /\ disk' = [disk EXCEPT ![n] = dk]
           /\ Ended(n, node'[n], nd) /\ \A x \in Nodes : x # n => node'[x] = node[x]
<1> PICK S : S = Recovered(alive)
  OBVIOUS
<1>0. /\ Basic /\ DOMAIN node = Nodes /\ DOMAIN inbox = Nodes /\ DOMAIN disk = Nodes
      /\ Queue(inbox[n], sent) /\ Shape(n, node[n], inbox[n], Member(n)) /\ sent \in Nat
  BY BasicFacts DEF Orderly
<1>1. PICK e : /\ Proc(e, w) /\ Ended(n, e, nd)
               /\ node' = [node EXCEPT ![n] = e] /\ disk' = [disk EXCEPT ![n] = dk]
  BY ONLY Proc(nd, w), n \in Nodes, EndMessage(n, nd, dk), EndMessageIs
<1>2. node'[n] = e /\ disk'[n] = dk /\ \A x \in Nodes : x # n => node'[x] = node[x] /\ disk'[x] = disk[x]
  BY <1>0, <1>1
<1>3. e.conn = "ckpt" => dk.log.ents # <<>>
  BY ONLY <1>0, <1>2, Proc(nd, w), n \in Nodes, EndMessage(n, nd, dk), EndMessageInto
<1>4. /\ SameRole(e, node[n]) /\ SameSync(e, node[n]) /\ e.view = node[n].view
      /\ SameCache(e, nd) /\ e.conn \in {"idle", "ckpt"}
      /\ e.conn = "ckpt" => nd.primary /\ nd.main = "run"
  BY <1>1 DEF Ended, SameRole, SameSync
<1>5. node[n].main = "run" => node[n].stage = "no"
  BY <1>0 DEF Shape, Stages
<1>6. e.conn = "ckpt" => IsFirst(n, alive) /\ node[n].primary /\ node[n].main = "run" /\ node[n].stage = "no"
  BY <1>3, <1>4, <1>5 DEF SameRole
<1>7. node[n].main \in {"wait", "join"} => e.conn = "idle" /\ SameCache(e, node[n])
  BY <1>4 DEF SameRole, SameCache
<1>8. Place(n, node[n], inbox[n], disk[n], alive, last, S)
  BY OrderlyFacts
<1>9. /\ inbox'[n] = inbox[n] \/ inbox'[n] = Tail(inbox[n])
      /\ Place(n, node[n], inbox'[n], disk[n], alive, last, S)
      /\ Holds(inbox'[n], "KILL") <=> Holds(inbox[n], "KILL")
      /\ \A x \in Nodes : x # n => inbox'[x] = inbox[x]
  <2>1. CASE inbox' = inbox
    BY <1>8, <2>1
  <2>2. CASE inbox[n] # <<>> /\ Head(inbox[n]).com \notin {"CLUSTER", "KILL"} /\ inbox' = Unread(n)
    <3>1. Queue(Tail(inbox[n]), sent)
      BY <1>0, <2>2, QueueTail
    <3>2. Thin(inbox[n], Tail(inbox[n]), {"CLUSTER", "KILL"})
      BY <1>0, <2>2, TailThin
    <3>3. Place(n, node[n], Tail(inbox[n]), disk[n], alive, last, S)
      BY <1>0, <1>8, <3>1, <3>2, PlaceThin
    <3>4. Holds(Tail(inbox[n]), "KILL") <=> Holds(inbox[n], "KILL")
      <4>1. (\A com : Holds(Tail(inbox[n]), com) => Holds(inbox[n], com))
            /\ \A com \in {"CLUSTER", "KILL"} : Holds(inbox[n], com) => Holds(Tail(inbox[n]), com)
        BY <1>0, <3>1, <3>2, ThinFacts
      <4> QED BY <4>1
    <3>5. inbox'[n] = Tail(inbox[n]) /\ \A x \in Nodes : x # n => inbox'[x] = inbox[x]
      BY <1>0, <2>2 DEF Unread
    <3> QED BY <3>3, <3>4, <3>5
  <2> QED BY <2>1, <2>2
<1>10. Place(n, e, inbox'[n], dk, alive, last, S)
  <2>1. e.conn # "idle" => IsFirst(n, alive) /\ node[n].primary /\ node[n].main = "run" /\ node[n].stage = "no"
    BY <1>4, <1>6
  <2>2. e.conn \notin {"forward", "serve"} /\ Forwards(n, e, alive, S)
    BY <1>4 DEF Forwards
  <2> QED BY <1>4, <1>7, <1>9, <2>1, <2>2, PlaceSame
<1>11. In(n, e, inbox'[n], alive) <=> In(n, node[n], inbox[n], alive)
  BY <1>4, <1>9 DEF In, SameRole, SameSync
<1>12. e.conn # "forward" /\ e.main = node[n].main
  BY <1>4 DEF SameRole
<1>13. Orderly' /\ Recovered(alive)' = Recovered(alive)
  BY <1>2, <1>9, <1>10, <1>11, <1>12, LocalOrder
<1> QED BY <1>1, <1>2, <1>13

------------------------------------------------------------------------------
(* What a node does with a message, and with its clients.                  *)

StepSame == Orderly' /\ Recovered(alive)' = Recovered(alive)

LEMMA ReadHead ==
    ASSUME Orderly, NEW n \in Nodes, NEW m, Reads(n, m)
    PROVE  /\ Basic /\ Queue(inbox[n], sent) /\ sent \in Nat /\ inbox[n] # <<>> /\ m = Head(inbox[n])
           /\ 1 \in DOMAIN inbox[n] /\ inbox[n][1] = m
           /\ \A j \in DOMAIN inbox[n] : j \in Nat /\ ~(j < 1) /\ (j = 1 \/ 1 < j)
           /\ Holds(inbox[n], "KILL") => m.com \in {"WRITE", "CKPT", "KILL"} /\ ~node[n].killed
           /\ m.com = "RESTART" => node[n].killed
           /\ node[n].main # "down" /\ node[n].conn = "idle"
           /\ node[n].main = "run" => node[n].stage = "no"
           /\ Proc(node[n], sent) /\ disk[n] \in DiskType
           /\ Shape(n, node[n], inbox[n], Member(n))
<1>1. /\ Basic /\ Queue(inbox[n], sent) /\ sent \in Nat /\ inbox[n] # <<>> /\ m = Head(inbox[n])
      /\ Proc(node[n], sent) /\ disk[n] \in DiskType
      /\ Shape(n, node[n], inbox[n], Member(n))
  BY BasicFacts DEF Orderly, Reads
<1>2. 1 \in DOMAIN inbox[n] /\ inbox[n][1] = m
  BY <1>1, QueueTail
<1>3. \A j \in DOMAIN inbox[n] : j \in Nat /\ ~(j < 1) /\ (j = 1 \/ 1 < j)
  BY <1>1 DEF Queue
<1>4. Holds(inbox[n], "KILL") => m.com \in {"WRITE", "CKPT", "KILL"} /\ ~node[n].killed
  BY <1>1, <1>2, <1>3 DEF Shape, Called, Holds
<1>5. m.com = "RESTART" => node[n].killed
  BY <1>1, <1>2, <1>3 DEF Shape, Called
<1>6. node[n].main # "down" /\ node[n].conn = "idle"
  BY DEF Reads, Up
<1>7. node[n].main = "run" => node[n].stage = "no"
  BY <1>1, <1>6 DEF Shape, Stages
<1> QED BY <1>1, <1>2, <1>3, <1>4, <1>5, <1>6, <1>7

LEMMA ClientReadOrder ==
    ASSUME Orderly, Basic', NEW n \in Nodes, ClientRead(n) PROVE StepSame
<1>1. /\ EndMessage(n, node[n], disk[n]) /\ node[n].main = "run" /\ node[n].conn = "idle"
      /\ alive' = alive /\ last' = last /\ inbox' = inbox /\ IsFirst(n, alive)
  BY DEF ClientRead, Serves, IsFirst
<1>2. Proc(node[n], sent)
  BY BasicFacts DEF Orderly
<1>3. Virgin(last, Recovered(alive)) => disk[n] = BlankDisk
  BY OrderlyFacts DEF Place, Pristine
<1> QED BY <1>1, <1>2, <1>3, EndingOrder, SameProcess DEF StepSame

LEMMA EndServeOrder ==
    ASSUME Orderly, Basic', NEW n \in Nodes, EndServe(n) PROVE StepSame
<1>1. /\ EndMessage(n, node[n], disk[n]) /\ node[n].conn = "serve"
      /\ alive' = alive /\ last' = last /\ inbox' = inbox
  BY DEF EndServe
<1>2. Proc(node[n], sent)
  BY BasicFacts DEF Orderly
<1>3. Virgin(last, Recovered(alive)) => disk[n] = BlankDisk
  BY OrderlyFacts DEF Place, Pristine
<1>4. IsFirst(n, alive) /\ node[n].main = "run"
  BY <1>1, OrderlyFacts DEF Place, Roles
<1> QED BY <1>1, <1>2, <1>3, <1>4, EndingOrder, SameProcess DEF StepSame

LEMMA ApplyWriteOrder ==
    ASSUME Orderly, Basic', NEW n \in Nodes, ApplyWrite(n) PROVE StepSame
<1> DEFINE x == node[n].cur
           nd == Applied(node[n], disk[n], x)
           dk == Logged(node[n], disk[n], x)
<1>1. /\ EndMessage(n, nd, dk) /\ node[n].conn = "forward"
      /\ alive' = alive /\ last' = last /\ inbox' = inbox
  BY DEF ApplyWrite
<1>2. Proc(node[n], sent) /\ disk[n] \in DiskType /\ x \in Write
  BY <1>1, BasicFacts, Forwarder DEF Orderly
<1> HIDE DEF x
<1>3. Proc(nd, sent) /\ SameRole(nd, node[n]) /\ SameSync(nd, node[n]) /\ nd.view = node[n].view
  BY ONLY <1>2, AppliedIs
<1> HIDE DEF nd, dk
<1>4. IsFirst(n, alive) /\ node[n].main = "run"
  BY <1>1, OrderlyFacts DEF Place, Roles
<1>5. ~Virgin(last, Recovered(alive))
  BY <1>4, OrderlyFacts DEF Place, Pristine
<1> QED BY <1>1, <1>3, <1>4, <1>5, EndingOrder DEF StepSame

LEMMA CheckpointSecondaryOrder ==
    ASSUME Orderly, Basic', NEW n \in Nodes, NEW m, Reads(n, m), CheckpointSecondary(n, m) PROVE StepSame
<1> DEFINE dk == Checkpointed(node[n], disk[n])
<1>1. /\ EndMessage(n, node[n], dk)
      /\ m.com = "CKPT" /\ inbox' = Unread(n) /\ alive' = alive /\ last' = last
  BY DEF CheckpointSecondary, Quietly
<1>2. dk.log.ents = <<>>
  BY DEF Checkpointed
<1> HIDE DEF dk
<1>3. ~Virgin(last, Recovered(alive))
  BY <1>1, OrderlyFacts, ReadHead DEF Place, Pristine, Holds
<1>4. node[n].main # "down" /\ node[n].conn # "join" /\ Proc(node[n], sent)
      /\ inbox[n] # <<>> /\ Head(inbox[n]) = m
  BY ReadHead
<1> QED BY <1>1, <1>2, <1>3, <1>4, EndingOrder, SameProcess DEF StepSame

LEMMA IgnoredOrder ==
    ASSUME Orderly, Basic', NEW n \in Nodes, NEW m, Reads(n, m), Ignored(n, m) PROVE StepSame
<1>1. EndMessage(n, node[n], disk[n]) /\ inbox' = Unread(n) /\ alive' = alive /\ last' = last
  BY DEF Ignored, Quietly
<1>2. /\ node[n].main # "down" /\ node[n].conn # "join" /\ Proc(node[n], sent)
      /\ inbox[n] # <<>> /\ Head(inbox[n]) = m
  BY ReadHead
<1>3. ~Holds(inbox[n], "KILL")
  <2>1. CASE node[n].killed
    BY <2>1, ReadHead
  <2>2. CASE ~node[n].killed
    BY <2>2, ReadHead DEF Ignored
  <2> QED BY <2>1, <2>2
<1>4. m.com \notin {"CLUSTER", "KILL"}
  BY <1>3, ReadHead DEF Ignored, Holds
<1>5. node[n].primary => IsFirst(n, alive)
  BY <1>3, OrderlyFacts DEF Place, Roles
<1>6. Virgin(last, Recovered(alive)) => disk[n] = BlankDisk
  BY OrderlyFacts DEF Place, Pristine
<1> QED BY <1>1, <1>2, <1>4, <1>5, <1>6, EndingOrder, SameProcess DEF StepSame

\* A write is forwarded to a recovered secondary, and it is one when it reads it.
LEMMA WriteRead ==
    ASSUME Orderly, NEW n \in Nodes, NEW m, Reads(n, m), m.com = "WRITE"
    PROVE  /\ node[n].main = "run" /\ node[n].stage = "no" /\ ~node[n].killed /\ ~node[n].primary
           /\ ~Virgin(last, Recovered(alive))
<1>1. 1 \in DOMAIN inbox[n] /\ inbox[n][1] = m
  BY ReadHead
<1> QED BY <1>1, OrderlyFacts DEF Place, Writes, Pristine

LEMMA ForwardedOrder ==
    ASSUME Orderly, Basic', NEW n \in Nodes, NEW m, Reads(n, m), Forwarded(n, m) PROVE StepSame
<1> DEFINE x == m.write
           nd == Applied(node[n], disk[n], x)
           dk == Logged(node[n], disk[n], x)
<1>1. m.com = "WRITE" /\ RunWrite(n, x) /\ inbox' = Unread(n) /\ alive' = alive /\ last' = last
  BY DEF Forwarded, Quietly
<1>2. node[n].main = "run" /\ ~node[n].primary /\ ~Virgin(last, Recovered(alive))
  BY <1>1, WriteRead
<1>3. EndMessage(n, nd, dk)
  BY <1>1, <1>2 DEF RunWrite
<1>4. Proc(node[n], sent) /\ disk[n] \in DiskType /\ x \in Write
  BY <1>1, ReadHead, ReadFacts DEF Sensible
<1> HIDE DEF x
<1>5. Proc(nd, sent) /\ SameRole(nd, node[n]) /\ SameSync(nd, node[n]) /\ nd.view = node[n].view
  BY ONLY <1>4, AppliedIs
<1> HIDE DEF nd, dk
<1>6. /\ node[n].main # "down" /\ node[n].conn # "join" /\ inbox[n] # <<>> /\ Head(inbox[n]) = m
  BY ReadHead
<1> QED BY <1>1, <1>2, <1>3, <1>5, <1>6, EndingOrder DEF StepSame

LEMMA CheckpointOrder ==
    ASSUME Orderly, Basic', NEW n \in Nodes, Checkpoint(n) PROVE StepSame
<1> DEFINE d == node[n]
           e == [d EXCEPT !.conn = "idle"]
<1>1. /\ d.conn = "ckpt" /\ node' = [node EXCEPT ![n].conn = "idle"]
      /\ disk' = [disk EXCEPT ![n] = Checkpointed(d, @)]
      /\ alive' = alive /\ last' = last /\ inbox' = inbox
  BY DEF Checkpoint
<1>2. d \in Process /\ DOMAIN node = Nodes /\ DOMAIN disk = Nodes
  BY BasicFacts DEF Orderly, Proc
<1>3. /\ node'[n] = e
      /\ \A x \in Nodes : x # n => node'[x] = node[x] /\ inbox'[x] = inbox[x] /\ disk'[x] = disk[x]
  BY <1>1, <1>2
<1>4. SameRole(e, d) /\ SameSync(e, d) /\ e.view = d.view /\ e.conn = "idle" /\ SameCache(e, d)
  BY <1>2 DEF Process, SameRole, SameSync, SameCache
<1> HIDE DEF e
<1>5. d.main = "run" /\ ~Virgin(last, Recovered(alive))
  BY <1>1, OrderlyFacts DEF Place, Roles, Pristine
<1>6. Place(n, d, inbox[n], disk[n], alive, last, Recovered(alive))
  BY OrderlyFacts
<1> HIDE DEF d
<1>7. Place(n, e, inbox[n], disk'[n], alive, last, Recovered(alive))
  BY <1>4, <1>5, <1>6, PlaceSame DEF Forwards
<1>8. In(n, e, inbox[n], alive) <=> In(n, d, inbox[n], alive)
  BY <1>4 DEF In, SameRole, SameSync
<1>9. e.main = d.main
  BY <1>4 DEF SameRole
<1> USE DEF d
<1> QED BY <1>1, <1>3, <1>4, <1>7, <1>8, <1>9, LocalOrder DEF StepSame

\* r is q without its first message m.
Popped(q, r, m) ==
    /\ 1 \in DOMAIN q /\ q[1] = m
    /\ \A i \in DOMAIN r : i + 1 \in DOMAIN q /\ r[i] = q[i + 1] /\ i \in Nat /\ 1 < i + 1
    /\ \A i \in DOMAIN q : i \in Nat /\ (i = 1 \/ (i - 1 \in DOMAIN r /\ r[i - 1] = q[i] /\ 1 < i))
    /\ \A com : Holds(q, com) <=> m.com = com \/ Holds(r, com)

LEMMA PoppedIs ==
    ASSUME NEW w \in Nat, NEW q, Queue(q, w), q # <<>>
    PROVE  Queue(Tail(q), w) /\ Popped(q, Tail(q), Head(q))
<1> DEFINE r == Tail(q)
           m == Head(q)
<1>1. /\ Queue(r, w) /\ m = q[1] /\ 1 \in DOMAIN q
      /\ \A i \in DOMAIN r : i + 1 \in DOMAIN q /\ r[i] = q[i + 1]
      /\ \A i \in DOMAIN q : i # 1 => i - 1 \in DOMAIN r /\ r[i - 1] = q[i]
  BY QueueTail
<1>2. (\A i \in DOMAIN q : i \in Nat /\ (i = 1 \/ 1 < i)) /\ \A i \in DOMAIN r : i \in Nat /\ 1 < i + 1
  BY <1>1 DEF Queue
<1> HIDE DEF r, m
<1>3. \A com : Holds(q, com) <=> m.com = com \/ Holds(r, com)
  BY <1>1 DEF Holds
<1>4. Popped(q, r, m)
  BY <1>1, <1>2, <1>3 DEF Popped
<1> QED BY <1>1, <1>4 DEF r, m

\* parse_secondary_from_master
LEMMA PlaceCluster ==
    ASSUME NEW n, NEW d, NEW q, NEW dk, NEW al, NEW la, NEW S, Place(n, d, q, dk, al, la, S),
           NEW r, NEW m, Popped(q, r, m), m.com = "CLUSTER", m.list # <<>>,
           Holds(q, "RESTART") => d.killed, ~Holds(q, "KILL"), d.primary \in BOOLEAN,
           d.main = "run" => d.stage = "no", d.conn = "idle",
           NEW e, e.main = d.main, e.killed = d.killed, SameSync(e, d), SameCache(e, d),
           e.view = m.list, e.primary = (d.primary \/ Head(m.list) = n), e.conn \in {"idle", "ckpt"},
           e.conn = "ckpt" => e.primary /\ d.main = "run"
    PROVE  Place(n, e, r, dk, al, la, S)
<1>0. /\ 1 \in DOMAIN q /\ q[1] = m
      /\ \A i \in DOMAIN r : i + 1 \in DOMAIN q /\ r[i] = q[i + 1] /\ i \in Nat /\ 1 < i + 1
      /\ \A i \in DOMAIN q : i \in Nat /\ (i = 1 \/ (i - 1 \in DOMAIN r /\ r[i - 1] = q[i] /\ 1 < i))
      /\ \A com : Holds(q, com) <=> m.com = com \/ Holds(r, com)
  BY DEF Popped
<1>1. Names(m, n) <=> Head(m.list) = n
  BY DEF Names
<1>2. Names(m, n) => IsFirst(n, al)
  BY <1>0 DEF Place, Roles
<1>3. n \in Range(al)
  BY <1>0 DEF Place, Views
<1>4. d.primary => IsFirst(n, al)
  BY DEF Place, Roles
<1>5. Waits(n, e, al, la, S)
  BY DEF Place, Waits, SameCache
<1>6. Views(n, e, r, al)
  <2>1. PICK i \in DOMAIN q : /\ q[i].com = "CLUSTER" /\ q[i].list = al
                              /\ \A j \in DOMAIN q : i < j => q[j].com # "CLUSTER"
    BY <1>0, <1>3 DEF Place, Views
  <2>2. CASE i = 1
    <3>1. e.view = al /\ \A j \in DOMAIN r : r[j].com # "CLUSTER"
      BY <1>0, <2>1, <2>2
    <3> QED BY <1>3, <3>1 DEF Views, Holds
  <2>3. CASE i # 1
    <3>1. /\ i - 1 \in DOMAIN r /\ r[i - 1].com = "CLUSTER" /\ r[i - 1].list = al
          /\ \A j \in DOMAIN r : i - 1 < j => r[j].com # "CLUSTER"
      BY <1>0, <2>1, <2>3
    <3> QED BY <1>3, <3>1 DEF Views
  <2> QED BY <2>2, <2>3
<1>7. Roles(n, e, r, al, S)
  <2>1. e.primary => IsFirst(n, al)
    BY <1>1, <1>2, <1>4
  <2>2. \A i \in DOMAIN r : Names(r[i], n) => IsFirst(n, al)
    BY <1>0 DEF Place, Roles
  <2> QED BY <2>1, <2>2 DEF Roles, SameSync
<1>8. Writes(n, e, r)
  <2> SUFFICES ASSUME NEW i \in DOMAIN r, r[i].com = "WRITE"
               PROVE  /\ d.main = "run" /\ d.stage = "no" /\ ~d.killed /\ ~e.primary
                      /\ \A j \in DOMAIN r : j < i => r[j].com # "KILL" /\ ~Names(r[j], n)
    BY DEF Writes, SameSync
  <2>1. i + 1 \in DOMAIN q /\ q[i + 1].com = "WRITE"
    BY <1>0
  <2>2. /\ d.main = "run" /\ d.stage = "no" /\ ~d.killed /\ ~d.primary
        /\ \A j \in DOMAIN q : j < i + 1 => q[j].com # "KILL" /\ ~Names(q[j], n)
    BY <2>1 DEF Place, Writes
  <2>3. ~Names(m, n)
    BY <1>0, <2>2
  <2>4. \A j \in DOMAIN r : j < i => r[j].com # "KILL" /\ ~Names(r[j], n)
    BY <1>0, <2>2
  <2> QED BY <1>1, <2>2, <2>3, <2>4
<1>9. Restarts(n, e, r, la, S)
  <2> SUFFICES ASSUME NEW i \in DOMAIN r, r[i].com = "RESTART"
               PROVE  IF Left(n, la, S)
                      THEN (d.killed /\ e.primary) \/ \E j \in DOMAIN r : j < i /\ Names(r[j], n)
                      ELSE /\ ~e.primary
                           /\ \A j \in DOMAIN r : j < i => ~Names(r[j], n)
    BY DEF Restarts
  <2>1. i + 1 \in DOMAIN q /\ q[i + 1].com = "RESTART" /\ Holds(q, "RESTART")
    BY <1>0 DEF Holds
  <2>2. IF Left(n, la, S)
        THEN (d.killed /\ d.primary) \/ \E j \in DOMAIN q : j < i + 1 /\ Names(q[j], n)
        ELSE /\ ~d.primary \/ Holds(q, "KILL")
             /\ \A j \in DOMAIN q : j < i + 1 => ~Names(q[j], n)
    BY <2>1 DEF Place, Restarts
  <2>3. CASE Left(n, la, S)
    <3>1. ASSUME NEW j \in DOMAIN q, j < i + 1, Names(q[j], n)
          PROVE  (d.killed /\ e.primary) \/ \E h \in DOMAIN r : h < i /\ Names(r[h], n)
      <4>1. CASE j = 1
        BY <1>0, <1>1, <2>1, <3>1, <4>1
      <4>2. CASE j # 1
        <5>1. j - 1 \in DOMAIN r /\ r[j - 1] = q[j] /\ j - 1 < i
          BY <1>0, <3>1, <4>2
        <5> QED BY <3>1, <5>1
      <4> QED BY <4>1, <4>2
    <3> QED BY <2>2, <2>3, <3>1
  <2>4. CASE ~Left(n, la, S)
    <3>1. ~Names(m, n)
      BY <1>0, <2>2, <2>4
    <3>2. \A j \in DOMAIN r : j < i => ~Names(r[j], n)
      BY <1>0, <2>2, <2>4
    <3> QED BY <1>1, <2>2, <2>4, <3>1, <3>2
  <2> QED BY <2>3, <2>4
<1>10. Asking(n, e, r, al, la, S)
  <2> SUFFICES ASSUME NEW p \in Nodes, Asked(n, e, r, p) PROVE Asked(n, d, q, p)
    BY DEF Place, Asking
  <2>1. p = Head(m.list) => Names(m, p)
    BY DEF Names
  <2>2. (\E i \in DOMAIN r : Names(r[i], p)) => \E i \in DOMAIN q : Names(q[i], p)
    BY <1>0
  <2>3. ASSUME NEW i \in DOMAIN r, r[i].com = "RESTART",
               \/ \E j \in DOMAIN r : j < i /\ Names(r[j], p)
               \/ p = Head(m.list)
        PROVE  Asked(n, d, q, p)
    <3>1. i + 1 \in DOMAIN q /\ q[i + 1].com = "RESTART"
      BY <1>0, <2>3
    <3>2. \E j \in DOMAIN q : j < i + 1 /\ Names(q[j], p)
      <4>1. CASE p = Head(m.list)
        BY <1>0, <2>1, <2>3, <4>1
      <4>2. CASE \E j \in DOMAIN r : j < i /\ Names(r[j], p)
        <5>1. PICK j \in DOMAIN r : j < i /\ Names(r[j], p)
          BY <4>2
        <5>2. j + 1 \in DOMAIN q /\ j + 1 < i + 1 /\ q[j + 1] = r[j]
          BY <1>0, <2>3, <5>1
        <5> QED BY <5>1, <5>2
      <4> QED BY <2>3, <4>1, <4>2
    <3> QED BY <3>1, <3>2 DEF Asked
  <2>4. CASE e.main = "wait" /\ (p = Head(m.list) \/ \E i \in DOMAIN r : Names(r[i], p))
    BY <1>0, <2>1, <2>2, <2>4 DEF Asked
  <2>5. CASE e.stage # "no" /\ p = e.peer
    BY <2>5 DEF Asked, SameSync
  <2> QED BY <2>3, <2>4, <2>5 DEF Asked
<1>11. Linked(e, al, S)
  BY DEF Place, Linked, SameSync
<1>12. Leaver(n, e, r, al, la, S)
  <2>1. Left(n, la, S) /\ d.main = "wait" => Names(m, n) /\ \A i \in DOMAIN r : Names(r[i], n)
    BY <1>0 DEF Place, Leaver
  <2> QED BY <1>0, <1>1, <2>1 DEF Place, Leaver, SameSync
<1>13. Forwards(n, e, al, S)
  BY DEF Forwards
<1>14. Pristine(e, r, dk, la, S)
  BY <1>0 DEF Place, Pristine, SameSync
<1> QED BY <1>5, <1>6, <1>7, <1>8, <1>9, <1>10, <1>11, <1>12, <1>13, <1>14 DEF Place

\* KILL is read.
LEMMA PlaceKilled ==
    ASSUME NEW n, NEW d, NEW q, NEW dk, NEW al, NEW la, NEW S, Place(n, d, q, dk, al, la, S),
           NEW r, NEW m, Popped(q, r, m), m.com = "KILL", ~d.killed,
           d.main = "run", d.stage = "no",
           NEW e, e.main = d.main, e.killed, ~e.primary, SameSync(e, d),
           e.view = d.view, e.conn = "idle"
    PROVE  Place(n, e, r, dk, al, la, S)
<1>0. /\ 1 \in DOMAIN q /\ q[1] = m
      /\ \A i \in DOMAIN r : i + 1 \in DOMAIN q /\ r[i] = q[i + 1] /\ i \in Nat /\ 1 < i + 1
      /\ \A i \in DOMAIN q : i \in Nat /\ (i = 1 \/ (i - 1 \in DOMAIN r /\ r[i - 1] = q[i] /\ 1 < i))
      /\ \A com : Holds(q, com) <=> m.com = com \/ Holds(r, com)
  BY DEF Popped
<1>1. \A p : ~Names(m, p)
  BY DEF Names
<1>5. Waits(n, e, al, la, S)
  BY DEF Waits
<1>6. Views(n, e, r, al)
  <2>1. ASSUME NEW i \in DOMAIN q, q[i].com = "CLUSTER", q[i].list = al,
               \A j \in DOMAIN q : i < j => q[j].com # "CLUSTER"
        PROVE  \E h \in DOMAIN r : /\ r[h].com = "CLUSTER" /\ r[h].list = al
                                   /\ \A j \in DOMAIN r : h < j => r[j].com # "CLUSTER"
    <3>1. i - 1 \in DOMAIN r /\ r[i - 1] = q[i]
      BY <1>0, <2>1
    <3>2. \A j \in DOMAIN r : i - 1 < j => r[j].com # "CLUSTER"
      BY <1>0, <2>1
    <3> QED BY <2>1, <3>1, <3>2
  <2> QED BY <1>0, <2>1 DEF Place, Views
<1>7. Roles(n, e, r, al, S)
  BY <1>0 DEF Place, Roles
<1>8. \A i \in DOMAIN r : r[i].com # "WRITE"
  BY <1>0 DEF Place, Writes
<1>9. Writes(n, e, r)
  BY <1>8 DEF Writes
<1>10. Restarts(n, e, r, la, S)
  <2> SUFFICES ASSUME NEW i \in DOMAIN r, r[i].com = "RESTART"
               PROVE  IF Left(n, la, S)
                      THEN \E j \in DOMAIN r : j < i /\ Names(r[j], n)
                      ELSE \A j \in DOMAIN r : j < i => ~Names(r[j], n)
    BY DEF Restarts
  <2>1. i + 1 \in DOMAIN q /\ q[i + 1].com = "RESTART"
    BY <1>0
  <2>2. IF Left(n, la, S)
        THEN \E j \in DOMAIN q : j < i + 1 /\ Names(q[j], n)
        ELSE \A j \in DOMAIN q : j < i + 1 => ~Names(q[j], n)
    BY <2>1 DEF Place, Restarts
  <2>3. CASE Left(n, la, S)
    <3>1. PICK j \in DOMAIN q : j < i + 1 /\ Names(q[j], n)
      BY <2>2, <2>3
    <3>2. j - 1 \in DOMAIN r /\ r[j - 1] = q[j] /\ j - 1 < i
      BY <1>0, <1>1, <3>1
    <3> QED BY <2>3, <3>1, <3>2
  <2>4. CASE ~Left(n, la, S)
    BY <1>0, <2>2, <2>4
  <2> QED BY <2>3, <2>4
<1>11. Asking(n, e, r, al, la, S)
  <2> SUFFICES ASSUME NEW p \in Nodes, Asked(n, e, r, p) PROVE Asked(n, d, q, p)
    BY DEF Place, Asking
  <2>1. PICK i \in DOMAIN r :
          /\ r[i].com = "RESTART"
          /\ \/ \E j \in DOMAIN r : j < i /\ Names(r[j], p)
             \/ /\ \A j \in DOMAIN r : j < i => r[j].com # "CLUSTER"
                /\ e.view # <<>> /\ p = Head(e.view)
    BY DEF Asked, SameSync
  <2>2. i + 1 \in DOMAIN q /\ q[i + 1].com = "RESTART"
    BY <1>0, <2>1
  <2>3. CASE \E j \in DOMAIN r : j < i /\ Names(r[j], p)
    <3>1. PICK j \in DOMAIN r : j < i /\ Names(r[j], p)
      BY <2>3
    <3>2. j + 1 \in DOMAIN q /\ j + 1 < i + 1 /\ q[j + 1] = r[j]
      BY <1>0, <3>1
    <3> QED BY <2>2, <3>1, <3>2 DEF Asked
  <2>4. CASE /\ \A j \in DOMAIN r : j < i => r[j].com # "CLUSTER"
             /\ e.view # <<>> /\ p = Head(e.view)
    <3>1. \A j \in DOMAIN q : j < i + 1 => q[j].com # "CLUSTER"
      BY <1>0, <2>4
    <3> QED BY <2>2, <2>4, <3>1 DEF Asked
  <2> QED BY <2>1, <2>3, <2>4
<1>12. Linked(e, al, S)
  BY DEF Place, Linked, SameSync
<1>13. Leaver(n, e, r, al, la, S)
  BY <1>0 DEF Place, Leaver, SameSync
<1>14. Forwards(n, e, al, S)
  BY DEF Forwards
<1>15. Pristine(e, r, dk, la, S)
  BY <1>0 DEF Place, Pristine, SameSync
<1> QED BY <1>5, <1>6, <1>7, <1>9, <1>10, <1>11, <1>12, <1>13, <1>14, <1>15 DEF Place

\* A primary recovers: the only member that has the state, or the first of all.
LEMMA PlaceFirst ==
    ASSUME NEW n, NEW d, NEW q, NEW dk, NEW al, NEW la, NEW S, Place(n, d, q, dk, al, la, S),
           IsFirst(n, al), ~Holds(q, "WRITE"), ~Holds(q, "RESTART"), d.link = None,
           NEW e, e.main = "run", ~e.killed, e.primary, e.stage = "no", e.link = None,
           e.view = d.view, e.conn \in {"idle", "ckpt"}, NEW dn, NEW Z, n \in Z
    PROVE  Place(n, e, q, dn, al, la, Z)
<1>0. ~Virgin(la, Z) /\ ~Left(n, la, Z)
  BY DEF Virgin, Left
<1>1. Views(n, e, q, al)
  BY DEF Place, Views
<1>2. Roles(n, e, q, al, Z)
  BY DEF Roles
<1>3. Waits(n, e, al, la, Z) /\ Linked(e, al, Z) /\ Forwards(n, e, al, Z)
  BY DEF Waits, Linked, Forwards
<1>4. Writes(n, e, q) /\ Restarts(n, e, q, la, Z) /\ Asking(n, e, q, al, la, Z)
  BY DEF Writes, Restarts, Asking, Asked, Holds
<1>5. Leaver(n, e, q, al, la, Z) /\ Pristine(e, q, dn, la, Z)
  BY <1>0 DEF Leaver, Pristine
<1> QED BY <1>1, <1>2, <1>3, <1>4, <1>5 DEF Place

\* A node has copied the state of its primary.
LEMMA PlaceReady ==
    ASSUME NEW n, NEW d, NEW q, NEW dk, NEW al, NEW la, NEW S, Place(n, d, q, dk, al, la, S),
           d.stage # "no", d.main # "down", ~d.killed, ~Holds(q, "RESTART"),
           NEW e, e.main = "run", e.killed = d.killed, e.primary = d.primary, e.stage = "no",
           e.link = None, e.view = d.view, e.conn = "idle", NEW dn, NEW Z, n \in Z
    PROVE  Place(n, e, q, dn, al, la, Z)
<1>0. ~Virgin(la, Z) /\ ~Left(n, la, Z)
  BY DEF Virgin, Left
<1>1. Views(n, e, q, al)
  BY DEF Place, Views
<1>2. Roles(n, e, q, al, Z)
  BY DEF Place, Roles
<1>3. Waits(n, e, al, la, Z) /\ Linked(e, al, Z) /\ Forwards(n, e, al, Z)
  BY DEF Waits, Linked, Forwards
<1>4. Writes(n, e, q)
  BY DEF Place, Writes
<1>5. Restarts(n, e, q, la, Z) /\ Asking(n, e, q, al, la, Z)
  BY DEF Restarts, Asking, Asked, Holds
<1>6. Leaver(n, e, q, al, la, Z) /\ Pristine(e, q, dn, la, Z)
  BY <1>0 DEF Leaver, Pristine
<1> QED BY <1>1, <1>2, <1>3, <1>4, <1>5, <1>6 DEF Place

\* A node goes to ask p, which it knows as the primary.
LEMMA PlaceAsks ==
    ASSUME NEW n, NEW d, NEW q, NEW dk, NEW al, NEW la, NEW S, Place(n, d, q, dk, al, la, S),
           NEW r, (Popped(q, r, q[1]) /\ q[1].com = "RESTART" /\ d.main = "run") \/ (r = q /\ d.main = "wait"),
           d.view # <<>>, ~d.primary, Head(d.view) # n,
           ~Holds(r, "RESTART"), ~Holds(q, "KILL"), d.link = None,
           d.main = "run" => d.killed,
           NEW e, e.main = "join" \/ (d.main = "run" /\ e.main = "run" /\ e.conn = "join"),
           e.main = "join" => d.main = "wait" /\ e.conn = "idle" /\ SameCache(e, d), e.main = "run" => e.conn = "join",
           ~e.primary, e.stage = "ask", e.peer = Head(d.view),
           e.link = None, e.view = d.view
    PROVE  Place(n, e, r, dk, al, la, S)
<1>1. \A com \in {"CLUSTER", "WRITE", "CKPT", "KILL"} : Holds(r, com) <=> Holds(q, com)
  BY DEF Popped
<1>2. ~Left(n, la, S)
  <2>1. CASE d.main = "wait"
    BY <2>1 DEF Place, Leaver
  <2>2. CASE d.main = "run"
    <3>1. /\ 1 \in DOMAIN q /\ q[1].com = "RESTART" /\ \A i \in DOMAIN q : ~(i < 1)
      BY <2>2 DEF Popped
    <3> QED BY <3>1 DEF Place, Restarts
  <2> QED BY <2>1, <2>2
<1>3. ~Holds(q, "WRITE")
  BY DEF Place, Writes, Holds
<1>4. Waits(n, e, al, la, S)
  BY DEF Place, Waits, SameCache
<1>5. Views(n, e, r, al)
  <2>1. ASSUME NEW i \in DOMAIN q, q[i].com = "CLUSTER", q[i].list = al,
               \A j \in DOMAIN q : i < j => q[j].com # "CLUSTER"
        PROVE  \E h \in DOMAIN r : /\ r[h].com = "CLUSTER" /\ r[h].list = al
                                   /\ \A j \in DOMAIN r : h < j => r[j].com # "CLUSTER"
    <3>1. CASE r = q
      BY <2>1, <3>1
    <3>2. CASE Popped(q, r, q[1]) /\ q[1].com = "RESTART"
      <4>1. i - 1 \in DOMAIN r /\ r[i - 1] = q[i]
        BY <2>1, <3>2 DEF Popped
      <4>2. \A j \in DOMAIN r : i - 1 < j => r[j].com # "CLUSTER"
        BY <2>1, <3>2 DEF Popped
      <4> QED BY <2>1, <4>1, <4>2
    <3> QED BY <3>1, <3>2
  <2> QED BY <1>1, <2>1 DEF Place, Views
<1>6. Roles(n, e, r, al, S)
  <2>1. \A i \in DOMAIN r : Names(r[i], n) => IsFirst(n, al)
    BY DEF Place, Roles, Popped
  <2> QED BY <2>1 DEF Roles
<1>7. Writes(n, e, r)
  BY <1>1, <1>3 DEF Writes, Holds
<1>8. Restarts(n, e, r, la, S)
  BY DEF Restarts, Holds
<1>9. Asking(n, e, r, al, la, S)
  <2> SUFFICES ASSUME NEW p \in Nodes, Asked(n, e, r, p) PROVE Asked(n, d, q, p)
    BY DEF Place, Asking
  <2>1. p = Head(d.view)
    BY DEF Asked, Holds
  <2>2. CASE d.main = "wait"
    BY <2>1, <2>2 DEF Asked
  <2>3. CASE d.main = "run"
    <3>1. /\ 1 \in DOMAIN q /\ q[1].com = "RESTART" /\ \A i \in DOMAIN q : ~(i < 1)
      BY <2>3 DEF Popped
    <3> QED BY <2>1, <3>1 DEF Asked
  <2> QED BY <2>2, <2>3
<1>10. Linked(e, al, S) /\ Forwards(n, e, al, S) /\ Leaver(n, e, r, al, la, S)
  BY <1>2 DEF Linked, Forwards, Leaver
<1>11. Pristine(e, r, dk, la, S)
  BY <1>1 DEF Place, Pristine
<1> QED BY <1>4, <1>5, <1>6, <1>7, <1>8, <1>9, <1>10, <1>11 DEF Place

LEMMA ClusterOrder ==
    ASSUME Orderly, Basic', NEW n \in Nodes, NEW m, Reads(n, m), Cluster(n, m) PROVE StepSame
<1> DEFINE d == node[n]
           b == d.primary \/ Head(m.list) = n
           nd == [d EXCEPT !.view = m.list, !.primary = b]
<1>1. /\ EndMessage(n, nd, disk[n]) /\ m.com = "CLUSTER" /\ inbox' = Unread(n)
      /\ alive' = alive /\ last' = last
  BY DEF Cluster, Quietly
<1>2. /\ Basic /\ Queue(inbox[n], sent) /\ sent \in Nat /\ inbox[n] # <<>> /\ m = Head(inbox[n])
      /\ Proc(d, sent) /\ d.conn = "idle" /\ d.main # "down" /\ (d.main = "run" => d.stage = "no")
      /\ Shape(n, d, inbox[n], Member(n))
  BY ReadHead
<1>3. DOMAIN node = Nodes /\ DOMAIN inbox = Nodes /\ DOMAIN disk = Nodes /\ disk' = [disk EXCEPT ![n] = disk[n]]
  BY <1>1, <1>2, BasicFacts DEF EndMessage
<1>4. m.list \in Seq(Nodes) /\ m.list # <<>> /\ b \in BOOLEAN /\ d.primary \in BOOLEAN
  BY <1>1, <1>2, ReadFacts, FieldTypes DEF Letter, Sensible
<1>5. d \in Process
  BY <1>2 DEF Proc
<1>b. b = (d.primary \/ Head(m.list) = n)
  OBVIOUS
<1> HIDE DEF b
<1>6. /\ nd \in Process /\ nd.main = d.main /\ nd.killed = d.killed /\ nd.primary = b /\ nd.view = m.list
      /\ SameSync(nd, d) /\ SameCache(nd, d) /\ SameWork(nd, d)
  BY ZenonT(60), <1>4, <1>5 DEF Process, SameSync, SameCache, SameWork
<1> HIDE DEF nd
<1>7. Proc(nd, sent)
  BY <1>2, <1>6 DEF Proc, SameSync, SameWork
<1>8. PICK e : /\ Proc(e, sent) /\ Ended(n, e, nd)
               /\ node' = [node EXCEPT ![n] = e] /\ disk' = [disk EXCEPT ![n] = disk[n]]
  BY ONLY <1>1, <1>7, n \in Nodes, EndMessageIs
<1>9. /\ e.main = d.main /\ e.killed = d.killed /\ SameSync(e, d) /\ SameCache(e, d)
      /\ e.view = m.list /\ e.primary = b /\ e.conn \in {"idle", "ckpt"}
      /\ e.conn = "ckpt" => e.primary /\ d.main = "run"
  BY <1>6, <1>8 DEF Ended, SameRole, SameSync, SameCache
<1>10. Popped(inbox[n], Tail(inbox[n]), m)
  BY <1>2, PoppedIs
<1>11. Holds(inbox[n], "RESTART") => d.killed
  <2>1. ~Holds(inbox[n], "KILL")
    BY <1>1, ReadHead
  <2> QED BY <1>2, <2>1 DEF Shape, Called, Holds
<1>12. ~Holds(inbox[n], "KILL")
  BY <1>1, ReadHead
<1>13. Place(n, d, inbox[n], disk[n], alive, last, Recovered(alive))
  BY OrderlyFacts
<1>14. /\ node'[n] = e /\ inbox'[n] = Tail(inbox[n]) /\ disk'[n] = disk[n]
       /\ \A x \in Nodes : x # n => node'[x] = node[x] /\ inbox'[x] = inbox[x] /\ disk'[x] = disk[x]
  BY <1>1, <1>3, <1>8 DEF Unread
<1> HIDE DEF d
<1>15. Place(n, e, Tail(inbox[n]), disk[n], alive, last, Recovered(alive))
  BY <1>1, <1>2, <1>4, <1>b, <1>9, <1>10, <1>11, <1>12, <1>13, PlaceCluster
<1>16. In(n, e, Tail(inbox[n]), alive) <=> In(n, d, inbox[n], alive)
  BY <1>1, <1>9, <1>10 DEF In, SameSync, Popped
<1> USE DEF d
<1> QED BY <1>1, <1>9, <1>14, <1>15, <1>16, LocalOrder DEF StepSame

LEMMA KilledOrder ==
    ASSUME Orderly, Basic', NEW n \in Nodes, NEW m, Reads(n, m), Killed(n, m) PROVE StepSame
<1> DEFINE d == node[n]
           nd == [d EXCEPT !.killed = TRUE, !.primary = FALSE]
<1>1. /\ EndMessage(n, nd, disk[n]) /\ m.com = "KILL" /\ inbox' = Unread(n) /\ ~d.killed
      /\ alive' = alive /\ last' = last
  BY DEF Killed, Quietly
<1>2. /\ Basic /\ Queue(inbox[n], sent) /\ sent \in Nat /\ inbox[n] # <<>> /\ m = Head(inbox[n])
      /\ Proc(d, sent) /\ d.conn = "idle" /\ d.main # "down" /\ (d.main = "run" => d.stage = "no")
      /\ Shape(n, d, inbox[n], Member(n))
  BY ReadHead
<1>3. DOMAIN node = Nodes /\ DOMAIN inbox = Nodes /\ DOMAIN disk = Nodes /\ disk' = [disk EXCEPT ![n] = disk[n]]
  BY <1>1, <1>2, BasicFacts DEF EndMessage
<1>5. d \in Process
  BY <1>2 DEF Proc
<1>6. /\ nd \in Process /\ nd.main = d.main /\ nd.killed = TRUE /\ nd.primary = FALSE /\ nd.view = d.view
      /\ SameSync(nd, d) /\ SameCache(nd, d) /\ SameWork(nd, d)
  BY ZenonT(60), <1>5 DEF Process, SameSync, SameCache, SameWork
<1> HIDE DEF nd
<1>7. Proc(nd, sent)
  BY <1>2, <1>6 DEF Proc, SameSync, SameWork
<1>8. PICK e : /\ Proc(e, sent) /\ Ended(n, e, nd)
               /\ node' = [node EXCEPT ![n] = e] /\ disk' = [disk EXCEPT ![n] = disk[n]]
  BY ONLY <1>1, <1>7, n \in Nodes, EndMessageIs
<1>9. /\ e.main = d.main /\ e.killed /\ ~e.primary /\ SameSync(e, d)
      /\ e.view = d.view /\ e.conn = "idle"
  BY <1>6, <1>8 DEF Ended, SameRole, SameSync, SameCache
<1>10. Popped(inbox[n], Tail(inbox[n]), m)
  BY <1>2, PoppedIs
<1>11. Holds(inbox[n], "KILL")
  BY <1>1, <1>10 DEF Popped
<1>12. d.main = "run" /\ d.stage = "no"
  <2>1. d.main # "wait" /\ d.stage = "no"
    BY <1>2, <1>11 DEF Shape, Called
  <2> QED BY <1>2, <2>1, FieldTypes DEF Shape, Stages
<1>13. Place(n, d, inbox[n], disk[n], alive, last, Recovered(alive))
  BY OrderlyFacts
<1>14. /\ node'[n] = e /\ inbox'[n] = Tail(inbox[n]) /\ disk'[n] = disk[n]
       /\ \A x \in Nodes : x # n => node'[x] = node[x] /\ inbox'[x] = inbox[x] /\ disk'[x] = disk[x]
  BY <1>1, <1>3, <1>8 DEF Unread
<1> HIDE DEF d
<1>15. Place(n, e, Tail(inbox[n]), disk[n], alive, last, Recovered(alive))
  BY <1>1, <1>9, <1>10, <1>12, <1>13, PlaceKilled
<1>16. In(n, e, Tail(inbox[n]), alive) <=> In(n, d, inbox[n], alive)
  BY <1>9, <1>11 DEF In
<1> USE DEF d
<1> QED BY <1>1, <1>9, <1>14, <1>15, <1>16, LocalOrder DEF StepSame

LEMMA RunsPrimaryOrder ==
    ASSUME Orderly, Basic', NEW n \in Nodes, RunsPrimary(n)
    PROVE  /\ Orderly' /\ Recovered(alive)' = Recovered(alive) \cup {n}
           /\ Virgin(last, Recovered(alive)) \/ Left(n, last, Recovered(alive))
<1> DEFINE d == node[n]
           f == Initial(d, disk[n])
           e == [f EXCEPT !.main = "run"]
<1>1. /\ d.main = "wait" /\ d.view # <<>> /\ d.primary
      /\ node' = [node EXCEPT ![n] = e]
      /\ disk' = [disk EXCEPT ![n] = WithLog(d, disk[n])]
      /\ alive' = alive /\ last' = last /\ inbox' = inbox
  BY DEF RunsPrimary
<1>2. /\ Basic /\ Proc(d, sent) /\ disk[n] \in DiskType /\ Shape(n, d, inbox[n], Member(n))
      /\ DOMAIN node = Nodes /\ DOMAIN disk = Nodes
  BY BasicFacts DEF Orderly
<1>3. Proc(f, sent) /\ SameRole(f, d) /\ SameSync(f, d) /\ SameWork(f, d) /\ f.view = d.view
  BY <1>2, InitialIs
<1>4. f \in Process
  BY <1>3 DEF Proc
<1> HIDE DEF f
<1>5. /\ e.main = "run" /\ e.killed = f.killed /\ e.primary = f.primary /\ e.stage = f.stage
      /\ e.link = f.link /\ e.view = f.view /\ e.conn = f.conn
  BY <1>4 DEF Process
<1> HIDE DEF e
<1>6. /\ Member(n) /\ ~d.killed /\ ~Holds(inbox[n], "KILL") /\ ~Holds(inbox[n], "RESTART")
      /\ d.stage = "no" /\ d.link = None
  BY <1>1, <1>2 DEF Shape, Called, Stages, Proc
<1>7. Place(n, d, inbox[n], disk[n], alive, last, Recovered(alive))
  BY OrderlyFacts
<1>8. IsFirst(n, alive) /\ ~Holds(inbox[n], "WRITE") /\ d.conn = "idle"
  BY <1>1, <1>6, <1>7 DEF Place, Roles, Writes, Waits, Holds
<1>9. /\ e.main = "run" /\ ~e.killed /\ e.primary /\ e.stage = "no" /\ e.link = None
      /\ e.view = d.view /\ e.conn = "idle"
  BY <1>1, <1>3, <1>5, <1>6, <1>8 DEF SameRole, SameSync, SameWork
<1>10. Virgin(last, Recovered(alive)) \/ Left(n, last, Recovered(alive))
  <2>1. n \in Recovered(alive) <=> In(n, d, inbox[n], alive)
    BY <1>2, OrderlyFacts, RecoveredIs
  <2>2. n \notin Recovered(alive)
    BY <1>1, <2>1 DEF In
  <2> QED BY <1>1, <1>7, <1>8, <2>2 DEF Place, Waits, IsFirst
<1>11. In(n, e, inbox[n], alive)
  BY <1>6, <1>9 DEF In, Member
<1>12. /\ node'[n] = e
       /\ \A x \in Nodes : x # n => node'[x] = node[x] /\ inbox'[x] = inbox[x] /\ disk'[x] = disk[x]
  BY <1>1, <1>2
<1> HIDE DEF d
<1>13. Place(n, e, inbox[n], disk'[n], alive, last, Recovered(alive) \cup {n})
  BY <1>6, <1>7, <1>8, <1>9, PlaceFirst
<1>14. \A x \in Nodes : x # n => \E m : node'[x] = LetGo(node[x], m)
  <2> SUFFICES ASSUME NEW x \in Nodes, x # n PROVE \E m : node'[x] = LetGo(node[x], m)
    OBVIOUS
  <2>1. PICK m : m # node[x].serving
    <3>1. node[x].serving # {node[x].serving} \/ node[x].serving # {}
      OBVIOUS
    <3> QED BY <3>1
  <2>2. LetGo(node[x], m) = node[x]
    BY <2>1 DEF LetGo
  <2> QED BY <1>12, <2>2
<1> USE DEF d
<1> QED BY <1>1, <1>8, <1>9, <1>10, <1>11, <1>12, <1>13, <1>14, GainOrder

LEMMA LetGoNone == \A d : \E m : d = LetGo(d, m)
<1> SUFFICES ASSUME NEW d PROVE \E m : d = LetGo(d, m)
  OBVIOUS
<1>1. PICK m : m # d.serving
  <2>1. d.serving # {d.serving} \/ d.serving # {}
    OBVIOUS
  <2> QED BY <2>1
<1>2. LetGo(d, m) = d
  BY <1>1 DEF LetGo
<1> QED BY <1>2

LEMMA RunsSecondaryOrder ==
    ASSUME Orderly, Basic', NEW n \in Nodes, RunsSecondary(n) PROVE StepSame
<1> DEFINE d == node[n]
           p == Head(d.view)
           e == [d EXCEPT !.main = "join", !.stage = "ask", !.peer = p]
           q == inbox[n]
<1>1. d.main = "wait" /\ d.view # <<>> /\ ~d.primary
      /\ node' = [node EXCEPT ![n].main = "join", ![n].stage = "ask", ![n].peer = p]
      /\ alive' = alive /\ last' = last /\ inbox' = inbox /\ disk' = disk
  BY DEF RunsSecondary
<1>2. /\ Basic /\ Proc(d, sent) /\ Shape(n, d, inbox[n], Member(n)) /\ DOMAIN node = Nodes
  BY BasicFacts DEF Orderly
<1>3. node'[n] = e /\ \A x \in Nodes : x # n => node'[x] = node[x]
  BY <1>1, <1>2
<1>4. d \in Process /\ (d.stage = "no" => d.link = None)
  BY <1>2 DEF Proc
<1> HIDE DEF p
<1>5. /\ e.main = "join" /\ e.primary = d.primary /\ SameCache(e, d)
      /\ e.stage = "ask" /\ e.peer = p /\ e.link = d.link /\ e.view = d.view /\ e.conn = d.conn
      /\ e.todo = d.todo
  <2> HIDE DEF d
  <2> QED BY <1>4 DEF Process, SameCache
<1> HIDE DEF e
<1>6. /\ d.stage = "no" /\ d.link = None /\ ~Holds(q, "KILL") /\ ~Holds(q, "RESTART") /\ p # n
  BY <1>1, <1>2, <1>4 DEF Shape, Stages, Called, Told, p
<1>7. Place(n, d, q, disk[n], alive, last, Recovered(alive))
  BY OrderlyFacts
<1>8. e.conn = "idle"
  BY <1>1, <1>5, <1>7 DEF Place, Waits
<1>9. Place(n, e, q, disk[n], alive, last, Recovered(alive))
  <2>1. Head(d.view) = p
    BY DEF p
  <2> HIDE DEF d, q
  <2>2. /\ (Popped(q, q, q[1]) /\ q[1].com = "RESTART" /\ d.main = "run") \/ (q = q /\ d.main = "wait")
        /\ d.view # <<>> /\ ~d.primary /\ Head(d.view) # n
        /\ ~Holds(q, "RESTART") /\ ~Holds(q, "KILL") /\ d.link = None
        /\ d.main = "run" => d.killed
        /\ e.main = "join" \/ (d.main = "run" /\ e.main = "run" /\ e.conn = "join")
        /\ e.main = "join" => d.main = "wait" /\ e.conn = "idle" /\ SameCache(e, d)
        /\ e.main = "run" => e.conn = "join"
        /\ ~e.primary /\ e.stage = "ask" /\ e.peer = Head(d.view)
        /\ e.link = None /\ e.view = d.view
    BY <1>1, <1>5, <1>6, <1>8, <2>1
  <2> QED BY ONLY <1>7, <2>2, PlaceAsks
<1>10. In(n, e, q, alive) <=> In(n, d, q, alive)
  BY <1>1, <1>5 DEF In
<1> QED BY <1>1, <1>3, <1>5, <1>8, <1>9, <1>10, LocalOrder DEF StepSame

LEMMA RestartFacts ==
    ASSUME Orderly, NEW n \in Nodes, NEW m, Reads(n, m), m.com = "RESTART"
    PROVE  /\ Popped(inbox[n], Tail(inbox[n]), m) /\ n \in Range(alive)
           /\ node[n].main = "run" /\ node[n].killed /\ node[n].stage = "no" /\ node[n].link = None
           /\ ~Holds(inbox[n], "KILL") /\ ~Holds(Tail(inbox[n]), "RESTART")
           /\ ~Holds(inbox[n], "WRITE")
           /\ node[n].view # <<>> /\ (Head(node[n].view) = n => node[n].primary)
           /\ Left(n, last, Recovered(alive)) <=> node[n].primary
           /\ node[n].primary => IsFirst(n, alive) /\ alive = <<n>>
<1> DEFINE d == node[n]
           q == inbox[n]
           S == Recovered(alive)
<1>1. /\ Basic /\ Queue(q, sent) /\ sent \in Nat /\ q # <<>> /\ m = Head(q)
      /\ 1 \in DOMAIN q /\ q[1] = m
      /\ \A j \in DOMAIN q : j \in Nat /\ ~(j < 1) /\ (j = 1 \/ 1 < j)
      /\ Proc(d, sent) /\ d.conn = "idle" /\ d.main # "down" /\ (d.main = "run" => d.stage = "no")
      /\ Shape(n, d, q, Member(n)) /\ d.killed
  BY ReadHead
<1>2. Place(n, d, q, disk[n], alive, last, S)
  BY OrderlyFacts
<1>3. Queue(Tail(q), sent) /\ Popped(q, Tail(q), m)
  BY <1>1, PoppedIs
<1> HIDE DEF d, q, S
<1>4. d.main = "run" /\ d.stage = "no" /\ d.link = None /\ ~Holds(q, "KILL")
  BY <1>1 DEF Shape, Called, Proc
<1>5. n \in Range(alive) /\ ~Holds(Tail(q), "RESTART")
  <2>1. Member(n) /\ \A j \in DOMAIN q : j # 1 => q[j].com # "RESTART"
    BY <1>1 DEF Shape, Called
  <2> QED BY <1>3, <2>1 DEF Popped, Holds, Member
<1>6. ~Holds(q, "WRITE")
  BY <1>1, <1>2 DEF Place, Writes, Holds
<1>7. d.view # <<>> /\ (Head(d.view) = n => d.primary)
  BY <1>1 DEF Shape, Told
<1>8. IF Left(n, last, S) THEN d.primary ELSE ~d.primary
  BY <1>1, <1>2, <1>4 DEF Place, Restarts
<1>9. d.primary => IsFirst(n, alive) /\ alive = <<n>>
  BY <1>2, <1>4, <1>5, <1>8 DEF Place, Roles, Leaver
<1> QED BY <1>1, <1>3, <1>4, <1>5, <1>6, <1>7, <1>8, <1>9 DEF d, q, S

LEMMA RestartedSecondaryOrder ==
    ASSUME Orderly, Basic', NEW n \in Nodes, NEW m, Reads(n, m), RestartedSecondary(n, m) PROVE StepSame
<1> DEFINE d == node[n]
           f == Revived(d)
           p == Head(d.view)
           e == [f EXCEPT !.conn = "join", !.stage = "ask", !.peer = p]
           q == inbox[n]
           r == Tail(q)
<1>1. /\ Basic /\ Proc(d, sent) /\ DOMAIN node = Nodes /\ DOMAIN inbox = Nodes
  BY BasicFacts DEF Orderly
<1>2. /\ Proc(f, sent) /\ f.main = d.main /\ f.view = d.view /\ SameSync(f, d) /\ SameWork(f, d)
      /\ ~f.killed /\ f.primary = d.primary
  BY <1>1, RevivedIs
<1>3. /\ m.com = "RESTART" /\ ~d.primary
      /\ node' = [node EXCEPT ![n] = e]
      /\ alive' = alive /\ last' = last /\ inbox' = Unread(n) /\ disk' = disk
  BY <1>2 DEF RestartedSecondary, Revived, Quietly
<1>4. /\ node'[n] = e /\ inbox'[n] = r
      /\ \A x \in Nodes : x # n => node'[x] = node[x] /\ inbox'[x] = inbox[x]
  BY <1>1, <1>3 DEF Unread
<1>5. f \in Process
  BY <1>2 DEF Proc
<1> HIDE DEF p, f
<1>6. /\ e.main = f.main /\ e.primary = f.primary /\ e.conn = "join"
      /\ e.stage = "ask" /\ e.peer = p /\ e.link = f.link /\ e.view = f.view
  BY <1>5 DEF Process
<1> HIDE DEF e
<1>7. /\ Popped(q, r, m)
      /\ d.main = "run" /\ d.killed /\ d.stage = "no" /\ d.link = None
      /\ ~Holds(q, "KILL") /\ ~Holds(r, "RESTART")
      /\ d.view # <<>> /\ Head(d.view) # n
  BY <1>3, RestartFacts
<1>8. Place(n, d, q, disk[n], alive, last, Recovered(alive))
  BY OrderlyFacts
<1>9. q[1] = m
  BY <1>7 DEF Popped
<1>10. /\ e.main = "run" /\ ~e.primary /\ e.conn = "join" /\ e.link = None /\ e.view = d.view
       /\ e.stage = "ask" /\ e.peer = Head(d.view)
  BY <1>2, <1>3, <1>6, <1>7 DEF SameSync, p
<1>11. Place(n, e, r, disk[n], alive, last, Recovered(alive))
  <2> HIDE DEF d, q, r
  <2>1. Popped(q, r, q[1]) /\ q[1].com = "RESTART"
    BY <1>3, <1>7, <1>9
  <2>2. /\ (Popped(q, r, q[1]) /\ q[1].com = "RESTART" /\ d.main = "run") \/ (r = q /\ d.main = "wait")
        /\ d.view # <<>> /\ ~d.primary /\ Head(d.view) # n
        /\ ~Holds(r, "RESTART") /\ ~Holds(q, "KILL") /\ d.link = None
        /\ d.main = "run" => d.killed
        /\ e.main = "join" \/ (d.main = "run" /\ e.main = "run" /\ e.conn = "join")
        /\ e.main = "join" => d.main = "wait" /\ e.conn = "idle" /\ SameCache(e, d)
        /\ e.main = "run" => e.conn = "join"
        /\ ~e.primary /\ e.stage = "ask" /\ e.peer = Head(d.view)
        /\ e.link = None /\ e.view = d.view
    BY <1>3, <1>7, <1>10, <2>1
  <2> QED BY ONLY <1>8, <2>2, PlaceAsks
<1>12. In(n, e, r, alive) <=> In(n, d, q, alive)
  BY <1>7, <1>10 DEF In
<1> QED BY <1>3, <1>4, <1>10, <1>7, <1>11, <1>12, LocalOrder DEF StepSame

LEMMA RestartedPrimaryOrder ==
    ASSUME Orderly, Basic', NEW n \in Nodes, NEW m, Reads(n, m), RestartedPrimary(n, m)
    PROVE  /\ Orderly' /\ Recovered(alive)' = Recovered(alive) \cup {n}
           /\ Left(n, last, Recovered(alive))
<1> DEFINE d == node[n]
           f == Revived(d)
           nd == Initial(f, disk[n])
           dk == WithLog(f, disk[n])
           q == inbox[n]
           r == Tail(q)
<1>1. /\ Basic /\ Proc(d, sent) /\ disk[n] \in DiskType
      /\ DOMAIN node = Nodes /\ DOMAIN inbox = Nodes /\ DOMAIN disk = Nodes
  BY BasicFacts DEF Orderly
<1>2. /\ Proc(f, sent) /\ f.main = d.main /\ f.view = d.view /\ SameSync(f, d) /\ SameWork(f, d)
      /\ ~f.killed /\ f.primary = d.primary
  BY <1>1, RevivedIs
<1>3. /\ m.com = "RESTART" /\ d.primary /\ EndMessage(n, nd, dk)
      /\ alive' = alive /\ last' = last /\ inbox' = Unread(n)
  BY <1>2 DEF RestartedPrimary, Revived, Quietly
<1>4. /\ Proc(nd, sent) /\ SameRole(nd, f) /\ SameSync(nd, f) /\ SameWork(nd, f) /\ nd.view = f.view
  BY <1>1, <1>2, InitialIs
<1> HIDE DEF f, nd, dk
<1>5. PICK e : /\ Proc(e, sent) /\ Ended(n, e, nd)
               /\ node' = [node EXCEPT ![n] = e] /\ disk' = [disk EXCEPT ![n] = dk]
  BY ONLY <1>3, <1>4, n \in Nodes, EndMessageIs
<1>6. /\ node'[n] = e /\ inbox'[n] = r
      /\ \A x \in Nodes : x # n => node'[x] = node[x] /\ inbox'[x] = inbox[x] /\ disk'[x] = disk[x]
  BY <1>1, <1>3, <1>5 DEF Unread
<1>7. /\ Popped(q, r, m) /\ n \in Range(alive)
      /\ d.main = "run" /\ d.killed /\ d.stage = "no" /\ d.link = None
      /\ ~Holds(q, "KILL") /\ ~Holds(r, "RESTART") /\ ~Holds(q, "WRITE")
      /\ Left(n, last, Recovered(alive)) /\ IsFirst(n, alive)
  BY <1>3, RestartFacts
<1>8. /\ e.main = "run" /\ ~e.killed /\ e.primary /\ e.stage = "no" /\ e.link = None
      /\ e.view = d.view /\ e.conn \in {"idle", "ckpt"}
  BY <1>2, <1>3, <1>4, <1>5, <1>7 DEF Ended, SameRole, SameSync
<1>9. Place(n, d, r, disk[n], alive, last, Recovered(alive))
  <2>1. Place(n, d, q, disk[n], alive, last, Recovered(alive))
    BY OrderlyFacts
  <2>2. /\ Queue(q, sent) /\ sent \in Nat /\ q # <<>> /\ Head(q) = m
    BY ReadHead
  <2>3. Queue(r, sent)
    BY <2>2, PoppedIs
  <2>4. Thin(q, r, {"CLUSTER", "KILL"})
    BY <1>3, <2>2, TailThin
  <2> HIDE DEF d, q, r
  <2> QED BY <2>1, <2>2, <2>3, <2>4, PlaceThin
<1>10. ~Holds(r, "WRITE") /\ ~Holds(r, "KILL")
  BY <1>7 DEF Popped
<1>11. Place(n, e, r, disk'[n], alive, last, Recovered(alive) \cup {n})
  <2> HIDE DEF d, q, r
  <2> QED BY <1>7, <1>8, <1>9, <1>10, PlaceFirst
<1>12. In(n, e, r, alive)
  BY <1>7, <1>8, <1>10 DEF In
<1>13. ~Virgin(last, Recovered(alive))
  BY <1>7, GroupNone DEF Virgin, Left
<1>14. \A x \in Nodes : x # n => \E h : node'[x] = LetGo(node[x], h)
  BY <1>6, LetGoNone
<1> QED BY <1>3, <1>6, <1>7, <1>8, <1>11, <1>12, <1>13, <1>14, GainOrder

------------------------------------------------------------------------------
(* A node that recovers.                                                   *)

\* A node gets on with its recovery.
LEMMA PlaceStill ==
    ASSUME NEW n, NEW d, NEW q, NEW dk, NEW al, NEW la, NEW S, Place(n, d, q, dk, al, la, S),
           d.stage # "no",
           NEW e, SameRole(e, d), SameWork(e, d), e.view = d.view, e.stage # "no", e.peer = d.peer,
           e.link = None, SameCache(e, d) \/ (e.seq = 0 /\ e.update = None),
           NEW dn, Virgin(la, S) => dn = BlankDisk
    PROVE  Place(n, e, q, dn, al, la, S)
<1>1. /\ e.main = d.main /\ e.killed = d.killed /\ e.primary = d.primary
      /\ e.conn = d.conn /\ e.todo = d.todo
  BY DEF SameRole, SameWork
<1>2. Waits(n, e, al, la, S) /\ Views(n, e, q, al)
  BY <1>1 DEF Place, Waits, Views, SameCache
<1>3. Roles(n, e, q, al, S) /\ Writes(n, e, q)
  BY <1>1 DEF Place, Roles, Writes
<1>4. Restarts(n, e, q, la, S)
  BY <1>1 DEF Place, Restarts
<1>5. Asking(n, e, q, al, la, S)
  BY <1>1 DEF Place, Asking, Asked
<1>6. Linked(e, al, S) /\ Leaver(n, e, q, al, la, S) /\ Forwards(n, e, al, S)
  BY <1>1 DEF Place, Linked, Leaver, Forwards
<1>7. Pristine(e, q, dn, la, S)
  BY <1>1 DEF Place, Pristine
<1> QED BY <1>2, <1>3, <1>4, <1>5, <1>6, <1>7 DEF Place

LEMMA ForgetsOrder == ASSUME Orderly, Basic', NEW n \in Nodes, Forgets(n) PROVE StepSame
<1> DEFINE d == node[n]
           e == [d EXCEPT !.stage = "full", !.link = None, !.seq = 0, !.update = None]
<1>1. /\ d.stage = "log"
      /\ node' = [node EXCEPT ![n].stage = "full", ![n].link = None,
                              ![n].seq = 0, ![n].update = None]
      /\ disk' = [disk EXCEPT ![n] = BlankDisk]
      /\ alive' = alive /\ last' = last /\ inbox' = inbox
  BY DEF Forgets
<1>2. d \in Process /\ DOMAIN node = Nodes /\ DOMAIN disk = Nodes
  BY BasicFacts DEF Orderly, Proc
<1>3. node' = [node EXCEPT ![n] = e]
  BY <1>1, <1>2 DEF Process
<1>4. /\ node'[n] = e /\ disk'[n] = BlankDisk
      /\ \A x \in Nodes : x # n => node'[x] = node[x] /\ inbox'[x] = inbox[x] /\ disk'[x] = disk[x]
  BY <1>1, <1>2, <1>3
<1>5. /\ SameRole(e, d) /\ SameWork(e, d) /\ e.view = d.view /\ e.stage = "full" /\ e.peer = d.peer
      /\ e.link = None /\ e.seq = 0 /\ e.update = None
  BY <1>2 DEF Process, SameRole, SameWork
<1> HIDE DEF e
<1>6. Place(n, d, inbox[n], disk[n], alive, last, Recovered(alive))
  BY OrderlyFacts
<1> HIDE DEF d
<1>7. Place(n, e, inbox[n], BlankDisk, alive, last, Recovered(alive))
  BY <1>1, <1>5, <1>6, PlaceStill
<1>8. In(n, e, inbox[n], alive) <=> In(n, d, inbox[n], alive)
  BY <1>1, <1>5 DEF In
<1>9. e.main = d.main /\ e.conn = d.conn /\ e.todo = d.todo
  BY <1>5 DEF SameRole, SameWork
<1>10. alive' = alive /\ last' = last /\ inbox'[n] = inbox[n]
  BY <1>1
<1> USE DEF d
<1> QED BY <1>4, <1>7, <1>8, <1>9, <1>10, LocalOrder DEF StepSame

\* The primary has sent something to a node that waits for it.
LEMMA PlaceLinked ==
    ASSUME NEW n, NEW d, NEW q, NEW dk, NEW al, NEW la, NEW S, Place(n, d, q, dk, al, la, S),
           NEW e, SameRole(e, d), SameCache(e, d), SameWork(e, d), e.view = d.view,
           e.stage = d.stage, e.peer = d.peer, NEW p \in S, d.peer = p, IsFirst(p, al)
    PROVE  Place(n, e, q, dk, al, la, S)
<1>1. /\ e.main = d.main /\ e.killed = d.killed /\ e.primary = d.primary
      /\ e.conn = d.conn /\ e.todo = d.todo
  BY DEF SameRole, SameWork
<1>2. Waits(n, e, al, la, S)
  BY <1>1 DEF Place, Waits, SameCache
<1>3. Views(n, e, q, al) /\ Roles(n, e, q, al, S) /\ Writes(n, e, q)
  BY <1>1 DEF Place, Views, Roles, Writes
<1>4. Restarts(n, e, q, la, S)
  BY <1>1 DEF Place, Restarts
<1>5. Asking(n, e, q, al, la, S)
  BY <1>1 DEF Place, Asking, Asked
<1>6. Linked(e, al, S) /\ Leaver(n, e, q, al, la, S) /\ Forwards(n, e, al, S)
  BY <1>1 DEF Place, Linked, Leaver, Forwards
<1>7. Pristine(e, q, dk, la, S)
  BY DEF Pristine, Virgin
<1> QED BY <1>2, <1>3, <1>4, <1>5, <1>6, <1>7 DEF Place

LEMMA SendFilesOrder == ASSUME Orderly, Basic', NEW n \in Nodes, SendFiles(n) PROVE StepSame
<1> DEFINE s == node[n].serving
           d == node[s]
           e == [d EXCEPT !.link = disk[n]]
<1>1. /\ node[n].conn = "serve" /\ s # None /\ d.stage = "full" /\ d.peer = n
      /\ node' = [node EXCEPT ![s].link = disk[n]]
      /\ alive' = alive /\ last' = last /\ inbox' = inbox /\ disk' = disk
  BY DEF SendFiles
<1>2. s \in Nodes
  <2>1. Proc(node[n], sent)
    BY BasicFacts DEF Orderly
  <2> QED BY <1>1, <2>1, FieldTypes
<1> HIDE DEF s
<1>3. Proc(d, sent) /\ DOMAIN node = Nodes /\ disk[n] \in DiskType
  BY <1>2, BasicFacts DEF Orderly
<1>4. /\ node'[s] = e
      /\ \A x \in Nodes : x # s => node'[x] = node[x] /\ inbox'[x] = inbox[x] /\ disk'[x] = disk[x]
  BY <1>1, <1>2, <1>3
<1>5. /\ SameRole(e, d) /\ SameCache(e, d) /\ SameWork(e, d) /\ e.view = d.view
      /\ e.stage = d.stage /\ e.peer = d.peer
  <2> HIDE DEF d
  <2> QED BY <1>1, <1>3, LinkedIs
<1> HIDE DEF e
<1>6. Place(s, d, inbox[s], disk[s], alive, last, Recovered(alive))
  BY <1>2, OrderlyFacts
<1>7. IsFirst(n, alive) /\ n \in Recovered(alive)
  BY <1>1, OrderlyFacts DEF Place, Roles
<1> HIDE DEF d
<1>8. Place(s, e, inbox[s], disk[s], alive, last, Recovered(alive))
  BY <1>1, <1>5, <1>6, <1>7, PlaceLinked
<1>9. In(s, e, inbox[s], alive) <=> In(s, d, inbox[s], alive)
  BY <1>5 DEF In, SameRole
<1>10. e.main = d.main /\ e.conn = d.conn /\ e.todo = d.todo
  BY <1>5 DEF SameRole, SameWork
<1> USE DEF d
<1> QED BY <1>1, <1>2, <1>4, <1>8, <1>9, <1>10, LocalOrder DEF StepSame

\* The message is not one of those that tell a node its place.
LEMMA PlaceRead ==
    ASSUME NEW w \in Nat, NEW q, Queue(q, w), q # <<>>, Head(q).com \notin {"CLUSTER", "KILL"},
           NEW n, NEW d, NEW dk, NEW al, NEW la, NEW S, Place(n, d, q, dk, al, la, S)
    PROVE  Place(n, d, Tail(q), dk, al, la, S) /\ (Holds(Tail(q), "KILL") <=> Holds(q, "KILL"))
<1>1. Queue(Tail(q), w)
  BY QueueTail
<1>2. Thin(q, Tail(q), {"CLUSTER", "KILL"})
  BY TailThin
<1>3. /\ \A com : Holds(Tail(q), com) => Holds(q, com)
      /\ \A com \in {"CLUSTER", "KILL"} : Holds(q, com) => Holds(Tail(q), com)
  BY <1>1, <1>2, ThinFacts
<1>4. Place(n, d, Tail(q), dk, al, la, S)
  BY <1>1, <1>2, PlaceThin
<1> QED BY <1>3, <1>4

\* The first member serves who asks it: it is recovered, or nobody ever was.
LEMMA ServerIs ==
    ASSUME Orderly, NEW n \in Nodes, NEW m, Reads(n, m), m.com = "SYNC", node[n].primary,
           disk[n].log.state # "absent",
           NEW s \in Nodes, s # n, node[s].stage = "log", node[s].peer = n
    PROVE  IsFirst(n, alive) /\ In(n, node[n], inbox[n], alive) /\ n \in Recovered(alive)
<1>1. ~Holds(inbox[n], "KILL")
  BY ReadHead
<1>2. IsFirst(n, alive)
  BY <1>1, OrderlyFacts DEF Place, Roles
<1>3. s \in Range(alive) /\ alive \in Seq(Nodes) /\ Distinct(alive)
  BY OrderlyFacts DEF Mem
<1>4. Before(n, s, alive)
  BY <1>2, <1>3, BehindFirst DEF IsFirst
<1>5. n \in Recovered(alive) \/ Virgin(last, Recovered(alive))
  BY <1>4, OrderlyFacts DEF Place, Asking, Asked
<1>6. ~Virgin(last, Recovered(alive))
  <2>1. BlankDisk.log.state = "absent"
    BY DEF BlankDisk, BlankLog
  <2> QED BY <2>1, OrderlyFacts DEF Place, Pristine
<1> QED BY <1>2, <1>3, <1>5, <1>6, RecoveredIs

LEMMA SyncStartsOrder ==
    ASSUME Orderly, Basic', NEW n \in Nodes, NEW m, Reads(n, m), SyncStarts(n, m) PROVE StepSame
<1> DEFINE s == m.from
           d == node[n]
           e == ServingOf(d, s)
           f == node[s]
           g == [f EXCEPT !.link = [log |-> disk[n].log]]
           r == Tail(inbox[n])
<1> PICK S : S = Recovered(alive)
  OBVIOUS
<1>1. /\ m.com = "SYNC" /\ d.primary /\ disk[n].log.state # "absent"
      /\ inbox' = Unread(n) /\ disk' = disk /\ alive' = alive /\ last' = last
  BY DEF SyncStarts, Quietly
<1>2. /\ s \in Nodes /\ s # n /\ f.stage = "log" /\ f.peer = n
      /\ node'[n] = e /\ node'[s] = g
      /\ \A x \in Nodes : x # n /\ x # s => node'[x] = node[x]
  <2>1. SyncLink(n, m.from)
    BY SyncStartsIs DEF Orderly
  <2> QED BY <2>1 DEF SyncLink, ServingOf
<1>3. /\ inbox'[n] = r /\ \A x \in Nodes : x # n => inbox'[x] = inbox[x]
  BY <1>1, BasicFacts DEF Unread, Orderly
<1>4. /\ Queue(inbox[n], sent) /\ sent \in Nat /\ inbox[n] # <<>> /\ Head(inbox[n]) = m /\ Proc(d, sent)
  BY ReadHead
<1> HIDE DEF s
<1>5. IsFirst(n, alive) /\ In(n, d, inbox[n], alive) /\ n \in S
  BY <1>1, <1>2, ServerIs
<1>6. Proc(f, sent) /\ disk[n].log \in LogType
  BY <1>2, BasicFacts DEF Orderly, DiskType
<1>7. /\ SameRole(e, d) /\ SameSync(e, d) /\ SameCache(e, d) /\ e.view = d.view /\ e.conn = "serve"
  <2> HIDE DEF d
  <2> QED BY <1>2, <1>4, ServingIs
<1>8. /\ SameRole(g, f) /\ SameCache(g, f) /\ SameWork(g, f) /\ g.view = f.view
      /\ g.stage = f.stage /\ g.peer = f.peer
  <2> HIDE DEF f
  <2> QED BY <1>2, <1>6, LinkedIs
<1>9. Place(n, d, inbox[n], disk[n], alive, last, S) /\ Place(s, f, inbox[s], disk[s], alive, last, S)
  BY <1>2, OrderlyFacts
<1> HIDE DEF e, g
<1>10. Place(n, d, r, disk[n], alive, last, S) /\ (Holds(r, "KILL") <=> Holds(inbox[n], "KILL"))
  <2> HIDE DEF d
  <2> QED BY <1>1, <1>4, <1>9, PlaceRead
<1>11. ~Virgin(last, S)
  BY <1>5 DEF Virgin
<1>12. Place(n, e, r, disk[n], alive, last, S)
  <2>1. d.main = "run" /\ d.stage = "no"
    BY <1>5 DEF In
  <2>2. Forwards(n, e, alive, S)
    BY <1>7 DEF Forwards
  <2> HIDE DEF d, r
  <2> QED BY <1>1, <1>5, <1>7, <1>10, <1>11, <2>1, <2>2, PlaceSame
<1>13. Place(s, g, inbox[s], disk[s], alive, last, S)
  <2> HIDE DEF f
  <2> QED BY <1>2, <1>5, <1>8, <1>9, PlaceLinked
<1>14. S \subseteq Nodes /\ \A x \in Nodes : x \in S <=> In(x, node[x], inbox[x], alive)
  BY OrderlyFacts, RecoveredIs
<1>15. \A x \in Nodes : x \in S <=> In(x, node'[x], inbox'[x], alive)
  BY <1>2, <1>3, <1>7, <1>8, <1>10, <1>14 DEF In, SameRole, SameSync
<1>16. \A x \in Nodes : Place(x, node'[x], inbox'[x], disk'[x], alive, last, S)
  <2> SUFFICES ASSUME NEW x \in Nodes, x # n, x # s
               PROVE  Place(x, node'[x], inbox'[x], disk'[x], alive, last, S)
    BY <1>1, <1>2, <1>3, <1>12, <1>13
  <2> QED BY <1>1, <1>2, <1>3, OrderlyFacts
<1>17. \A p, x \in Nodes : node'[p].conn = "forward" /\ x \in Range(node'[p].todo) =>
          x \in Range(alive) \/ (node[p].conn = "forward" /\ x \in Range(node[p].todo))
  BY <1>2, <1>7, <1>8 DEF SameWork
<1>18. \A x \in Nodes : node[x].main = "down" => node'[x].main = "down"
  BY <1>2, <1>7, <1>8 DEF SameRole
<1> QED BY <1>1, <1>14, <1>15, <1>16, <1>17, <1>18, SteadyOrder DEF StepSame

\* n alone changes; a message is sent to p.
LEMMA SendOrder ==
    ASSUME Orderly, Basic', NEW n \in Nodes, NEW p \in Nodes, NEW m \in Letter, Sensible(m, sent),
           m.com # "KILL", alive' = alive, last' = last, disk' = disk,
           \A x \in Nodes : x # n => node'[x] = node[x],
           \A x \in Nodes : inbox'[x] = IF x = p THEN Append(inbox[x], m) ELSE inbox[x],
           In(n, node'[n], inbox[n], alive) <=> In(n, node[n], inbox[n], alive),
           \A x \in Nodes : Place(x, node'[x], inbox'[x], disk[x], alive, last, Recovered(alive)),
           \A x \in Nodes : node'[n].conn = "forward" /\ x \in Range(node'[n].todo) =>
              node[n].conn = "forward" /\ x \in Range(node[n].todo),
           node[n].main = "down" => node'[n].main = "down"
    PROVE  StepSame
<1> PICK S : S = Recovered(alive)
  OBVIOUS
<1>1. S \subseteq Nodes /\ \A x \in Nodes : x \in S <=> In(x, node[x], inbox[x], alive)
  BY OrderlyFacts, RecoveredIs
<1>2. \A x \in Nodes : Holds(inbox'[x], "KILL") <=> Holds(inbox[x], "KILL")
  <2>1. Grown(inbox[p], Append(inbox[p], m), m)
    BY BasicFacts, AppendFacts DEF Orderly
  <2> QED BY <2>1 DEF Grown
<1>3. \A x \in Nodes : x \in S <=> In(x, node'[x], inbox'[x], alive)
  BY <1>1, <1>2 DEF In
<1>4. \A x \in Nodes : Place(x, node'[x], inbox'[x], disk'[x], alive, last, S)
  OBVIOUS
<1>5. \A a, x \in Nodes : node'[a].conn = "forward" /\ x \in Range(node'[a].todo) =>
          x \in Range(alive) \/ (node[a].conn = "forward" /\ x \in Range(node[a].todo))
  OBVIOUS
<1>6. \A x \in Nodes : node[x].main = "down" => node'[x].main = "down"
  OBVIOUS
<1> QED BY <1>1, <1>3, <1>4, <1>5, <1>6, SteadyOrder DEF StepSame

LEMMA AskSyncOrder == ASSUME Orderly, Basic', NEW n \in Nodes, AskSync(n) PROVE StepSame
<1> DEFINE d == node[n]
           p == d.peer
           e == [d EXCEPT !.stage = "log"]
           m == Message("SYNC", <<>>, n, None)
<1> PICK S : S = Recovered(alive)
  OBVIOUS
<1>1. /\ d.stage = "ask" /\ node[p].main # "wait" /\ node' = [node EXCEPT ![n].stage = "log"]
      /\ inbox' = [inbox EXCEPT ![p] = Append(@, m)]
      /\ alive' = alive /\ last' = last /\ disk' = disk
  BY DEF AskSync
<1>2. /\ Proc(d, sent) /\ Shape(n, d, inbox[n], Member(n)) /\ DOMAIN node = Nodes /\ DOMAIN inbox = Nodes
      /\ sent \in Nat
  BY BasicFacts DEF Orderly
<1>3. p \in Nodes /\ p # n /\ d.link = None
  BY <1>1, <1>2 DEF Shape, Stages, Proc
<1> HIDE DEF p
<1>4. /\ node'[n] = e /\ \A x \in Nodes : x # n => node'[x] = node[x]
  BY <1>1, <1>2
<1>5. d \in Process
  BY <1>2 DEF Proc
<1>6. /\ SameRole(e, d) /\ SameWork(e, d) /\ SameCache(e, d) /\ e.view = d.view /\ e.stage = "log"
      /\ e.peer = d.peer /\ e.link = None
  BY <1>3, <1>5 DEF Process, SameRole, SameWork, SameCache
<1> HIDE DEF e
<1>7. m \in Letter /\ Sensible(m, sent) /\ m.com = "SYNC"
  BY Letters DEF Message
<1> HIDE DEF m
<1>8. \A x \in Nodes : inbox'[x] = IF x = p THEN Append(inbox[x], m) ELSE inbox[x]
  BY <1>1, <1>2
<1>9. Place(n, d, inbox[n], disk[n], alive, last, S) /\ Place(p, node[p], inbox[p], disk[p], alive, last, S)
  BY <1>3, OrderlyFacts
<1>10. Place(p, node[p], inbox'[p], disk[p], alive, last, S)
  <2>1. Grown(inbox[p], Append(inbox[p], m), m)
    BY <1>3, <1>7, BasicFacts, AppendFacts DEF Orderly
  <2>2. inbox'[p] = Append(inbox[p], m)
    BY <1>3, <1>8
  <2> QED BY <1>1, <1>7, <1>9, <2>1, <2>2, PlaceAppend
<1>11. Virgin(last, S) => disk[n] = BlankDisk
  BY <1>9 DEF Place, Pristine
<1>12. Place(n, e, inbox[n], disk[n], alive, last, S)
  <2> HIDE DEF d
  <2> QED BY <1>1, <1>6, <1>9, <1>11, PlaceStill
<1>13. In(n, e, inbox[n], alive) <=> In(n, d, inbox[n], alive)
  BY <1>1, <1>6 DEF In
<1>14. \A x \in Nodes : Place(x, node'[x], inbox'[x], disk[x], alive, last, S)
  <2> SUFFICES ASSUME NEW x \in Nodes, x # n, x # p
               PROVE  Place(x, node'[x], inbox'[x], disk[x], alive, last, S)
    BY <1>3, <1>4, <1>8, <1>10, <1>12
  <2> QED BY <1>4, <1>8, OrderlyFacts
<1>15. e.main = d.main /\ e.conn = d.conn /\ e.todo = d.todo
  BY <1>6 DEF SameRole, SameWork
<1>16. m.com # "KILL" /\ alive' = alive /\ last' = last /\ disk' = disk
  BY <1>1, <1>7
<1> QED BY <1>3, <1>4, <1>7, <1>8, <1>13, <1>14, <1>15, <1>16, SendOrder

------------------------------------------------------------------------------
(* Writes on their way.                                                    *)

LEMMA ListTail ==
    ASSUME NEW al \in Seq(Nodes), al # <<>>
    PROVE  /\ Tail(al) \in Seq(Nodes) /\ Len(Tail(al)) = Len(al) - 1
           /\ \A m : m \in Range(Tail(al)) => m \in Range(al)
           /\ Head(al) \in Range(al) /\ Head(al) \in Nodes
           /\ Distinct(al) => Distinct(Tail(al)) /\ Head(al) \notin Range(Tail(al))
           /\ \A m \in Range(al) : m # Head(al) => m \in Range(Tail(al))
<1>1. /\ Tail(al) \in Seq(Nodes) /\ Len(al) \in Nat /\ Len(Tail(al)) = Len(al) - 1
      /\ DOMAIN al = 1 .. Len(al) /\ DOMAIN Tail(al) = 1 .. Len(al) - 1
      /\ \A i \in DOMAIN Tail(al) : Tail(al)[i] = al[i + 1]
      /\ Head(al) = al[1] /\ 1 \in DOMAIN al /\ al[1] \in Nodes
  OBVIOUS
<1>2. \A i \in DOMAIN Tail(al) : i + 1 \in DOMAIN al /\ i \in Nat /\ i + 1 # 1
  BY <1>1
<1>3. \A i \in DOMAIN al : i # 1 => i - 1 \in DOMAIN Tail(al) /\ Tail(al)[i - 1] = al[i]
  BY <1>1
<1>4. \A m : m \in Range(Tail(al)) => m \in Range(al)
  BY <1>1, <1>2 DEF Range
<1>5. Head(al) \in Range(al)
  BY <1>1 DEF Range
<1>6. Distinct(al) => Distinct(Tail(al))
  <2> SUFFICES ASSUME Distinct(al), NEW i \in DOMAIN Tail(al), NEW j \in DOMAIN Tail(al),
                      Tail(al)[i] = Tail(al)[j]
               PROVE  i = j
    BY DEF Distinct
  <2>1. i + 1 \in DOMAIN al /\ j + 1 \in DOMAIN al /\ al[i + 1] = al[j + 1] /\ i \in Nat /\ j \in Nat
    BY <1>1, <1>2
  <2>2. i + 1 = j + 1
    BY <2>1 DEF Distinct
  <2> QED BY <2>1, <2>2
<1>7. Distinct(al) => Head(al) \notin Range(Tail(al))
  <2> SUFFICES ASSUME Distinct(al), NEW i \in DOMAIN Tail(al), Tail(al)[i] = al[1] PROVE FALSE
    BY <1>1 DEF Range
  <2> QED BY <1>1, <1>2 DEF Distinct
<1>8. \A m \in Range(al) : m # Head(al) => m \in Range(Tail(al))
  <2> SUFFICES ASSUME NEW i \in DOMAIN al, al[i] # al[1] PROVE al[i] \in Range(Tail(al))
    BY <1>1 DEF Range
  <2> QED BY <1>3 DEF Range
<1> QED BY <1>1, <1>4, <1>5, <1>6, <1>7, <1>8

\* What a message that n forwards is.
Copied(n) == IF node[n].conn = "forward"
             THEN Message("WRITE", <<>>, None, [node[n].cur EXCEPT !.client = FALSE])
             ELSE Message("CKPT", <<>>, None, None)

LEMMA CopiedIs ==
    ASSUME Basic, NEW n \in Nodes, node[n].conn \in {"forward", "ckpt"}
    PROVE  /\ Copied(n) \in Letter /\ Sensible(Copied(n), sent)
           /\ Copied(n).com = IF node[n].conn = "forward" THEN "WRITE" ELSE "CKPT"
           /\ node[n].conn = "forward" =>
                 /\ Copied(n).write.val = node[n].cur.val /\ Copied(n).write.prev = node[n].cur.prev
                 /\ Copied(n).write \in Write
<1> DEFINE x == [node[n].cur EXCEPT !.client = FALSE]
<1>1. CASE node[n].conn = "forward"
  <2>1. node[n].cur \in Write /\ node[n].cur.val <= sent
    BY <1>1, BasicFacts DEF Proc
  <2>2. x \in Write /\ x.val = node[n].cur.val /\ x.prev = node[n].cur.prev
    BY <2>1 DEF Write
  <2> HIDE DEF x
  <2>3. Message("WRITE", <<>>, None, x) \in Letter /\ Sensible(Message("WRITE", <<>>, None, x), sent)
    BY <2>1, <2>2, Letters
  <2>4. Message("WRITE", <<>>, None, x).com = "WRITE" /\ Message("WRITE", <<>>, None, x).write = x
    BY DEF Message
  <2>5. Copied(n) = Message("WRITE", <<>>, None, x)
    BY <1>1 DEF Copied, x
  <2> QED BY <1>1, <2>2, <2>3, <2>4, <2>5
<1>2. CASE node[n].conn = "ckpt"
  <2>1. Message("CKPT", <<>>, None, None) \in Letter /\ Sensible(Message("CKPT", <<>>, None, None), sent)
    BY Letters
  <2>2. Message("CKPT", <<>>, None, None).com = "CKPT"
    BY DEF Message
  <2>3. Copied(n) = Message("CKPT", <<>>, None, None)
    BY <1>2 DEF Copied
  <2> QED BY <1>2, <2>1, <2>2, <2>3
<1> QED BY <1>1, <1>2

\* Who is sent a write that is forwarded is a recovered secondary.
LEMMA ReachedIs ==
    ASSUME Orderly, NEW n \in Nodes, node[n].conn = "forward", NEW to \in Nodes, to \in Range(node[n].todo),
           Up(to)
    PROVE  /\ to # n /\ to \in Recovered(alive) /\ ~IsFirst(to, alive)
           /\ In(to, node[to], inbox[to], alive)
<1>1. /\ IsFirst(n, alive) /\ Range(alive) \subseteq Recovered(alive)
      /\ n \notin Range(node[n].todo) /\ alive \in Seq(Nodes)
  BY OrderlyFacts DEF Place, Roles, Forwards
<1>2. to \in Range(alive)
  BY DEF Orderly, Reaches, Up
<1>3. to \in Recovered(alive)
  BY <1>1, <1>2
<1> QED BY <1>1, <1>3, RecoveredIs DEF IsFirst

LEMMA ForwardOneOrder == ASSUME Orderly, Basic', NEW n \in Nodes, ForwardOne(n) PROVE StepSame
<1> DEFINE d == node[n]
           to == Head(d.todo)
           m == Copied(n)
           e == [d EXCEPT !.todo = Tail(d.todo)]
<1> PICK S : S = Recovered(alive)
  OBVIOUS
<1>1. /\ d.conn \in {"forward", "ckpt"} /\ d.todo # <<>>
      /\ inbox' = (IF Up(to) THEN [inbox EXCEPT ![to] = Append(inbox[to], m)] ELSE inbox)
      /\ node' = [node EXCEPT ![n].todo = Tail(@)]
      /\ alive' = alive /\ last' = last /\ disk' = disk
  BY DEF ForwardOne, Copied
<1>2. /\ Basic /\ Proc(d, sent) /\ DOMAIN node = Nodes /\ DOMAIN inbox = Nodes /\ sent \in Nat
  BY BasicFacts DEF Orderly
<1>3. d \in Process /\ d.todo \in Seq(Nodes) /\ d.view \in Seq(Nodes)
  BY <1>2, FieldTypes DEF Proc
<1>4. /\ node'[n] = e /\ \A x \in Nodes : x # n => node'[x] = node[x]
  BY <1>1, <1>2
<1>5. /\ SameRole(e, d) /\ SameSync(e, d) /\ SameCache(e, d) /\ e.view = d.view /\ e.conn = d.conn
      /\ e.todo = Tail(d.todo)
  BY <1>3 DEF Process, SameRole, SameSync, SameCache
<1> HIDE DEF e
<1>6. /\ to \in Nodes /\ to \in Range(d.todo) /\ Len(Tail(d.todo)) = Len(d.todo) - 1
      /\ \A x : x \in Range(Tail(d.todo)) => x \in Range(d.todo)
      /\ Distinct(d.todo) => Distinct(Tail(d.todo))
  BY <1>1, <1>3, ListTail
<1> HIDE DEF to
<1>7. /\ m \in Letter /\ Sensible(m, sent) /\ m.com = IF d.conn = "forward" THEN "WRITE" ELSE "CKPT"
  BY <1>1, <1>2, CopiedIs
<1> HIDE DEF m
<1>8. Place(n, d, inbox[n], disk[n], alive, last, S) /\ Place(to, node[to], inbox[to], disk[to], alive, last, S)
      /\ Mem(node[to], inbox[to], to, alive) /\ alive \in Seq(Nodes) /\ Distinct(alive)
  BY <1>6, OrderlyFacts
<1>9. /\ IsFirst(n, alive) /\ d.primary /\ d.main = "run" /\ d.stage = "no"
      /\ d.conn = "forward" => n \in S
      /\ ~Virgin(last, S)
  BY <1>1, <1>8 DEF Place, Roles, Pristine
<1>10. Forwards(n, e, alive, S)
  <2> SUFFICES ASSUME d.conn = "forward"
               PROVE  /\ Range(alive) \subseteq S
                      /\ Distinct(Tail(d.todo)) /\ n \notin Range(Tail(d.todo))
                      /\ Len(Tail(d.todo)) <= Len(d.view) - 1
                      /\ Len(Tail(d.todo)) # Len(d.view) - 1
    BY <1>5 DEF Forwards
  <2>1. /\ Range(alive) \subseteq S
        /\ Distinct(d.todo) /\ n \notin Range(d.todo)
        /\ Len(d.todo) <= Len(d.view) - 1
    BY <1>8 DEF Place, Forwards
  <2>2. Len(d.todo) \in Nat /\ Len(d.view) \in Nat
    BY <1>3
  <2> HIDE DEF d
  <2> QED BY <1>6, <2>1, <2>2
<1>11. Place(n, e, inbox[n], disk[n], alive, last, S)
  <2> HIDE DEF d
  <2> QED BY <1>1, <1>5, <1>8, <1>9, <1>10, PlaceSame
<1>12. In(n, e, inbox[n], alive) <=> In(n, d, inbox[n], alive)
  BY <1>5 DEF In, SameRole, SameSync
<1>13. e.main = d.main /\ \A x \in Nodes : e.conn = "forward" /\ x \in Range(e.todo) =>
                              d.conn = "forward" /\ x \in Range(d.todo)
  BY <1>5, <1>6 DEF SameRole
<1>14. CASE ~Up(to)
  <2>1. inbox' = inbox
    BY <1>1, <1>14
  <2>2. /\ Place(n, node'[n], inbox'[n], disk'[n], alive, last, S)
        /\ \A x \in Nodes : x # n => node'[x] = node[x] /\ inbox'[x] = inbox[x] /\ disk'[x] = disk[x]
    BY <1>1, <1>4, <1>11, <2>1
  <2>3. alive' = alive /\ last' = last /\ inbox'[n] = inbox[n]
    BY <1>1, <2>1
  <2> QED BY <1>4, <1>12, <1>13, <2>2, <2>3, LocalOrder DEF StepSame
<1>15. CASE Up(to)
  <2>1. \A x \in Nodes : inbox'[x] = IF x = to THEN Append(inbox[x], m) ELSE inbox[x]
    BY <1>1, <1>2, <1>6, <1>15
  <2>2. Place(to, node'[to], inbox[to], disk[to], alive, last, S)
    BY <1>4, <1>6, <1>8, <1>11
  <2>3. Grown(inbox[to], Append(inbox[to], m), m)
    BY <1>2, <1>6, <1>7, BasicFacts, AppendFacts
  <2>6. Place(to, node'[to], Append(inbox[to], m), disk[to], alive, last, S)
    <3>1. CASE d.conn = "forward"
      <4>1. to # n /\ to \in S /\ ~IsFirst(to, alive) /\ In(to, node[to], inbox[to], alive)
        BY <1>6, <1>15, <3>1, ReachedIs
      <4>2. node'[to] = node[to]
        BY <1>4, <1>6, <4>1
      <4> QED BY <1>7, <2>2, <2>3, <3>1, <4>1, <4>2, PlaceWrite DEF In
    <3>2. CASE d.conn = "ckpt"
      <4>1. node'[to].main # "wait" \/ ~Left(to, last, S)
        <5>1. CASE to = n
          BY <1>4, <1>9, <5>1, <1>5 DEF SameRole
        <5>2. CASE to # n
          <6> SUFFICES ASSUME node[to].main = "wait", Left(to, last, S) PROVE FALSE
            BY <1>4, <1>6, <5>2
          <6>1. to \in Range(alive) /\ alive = <<to>>
            BY <1>8 DEF Mem, Place, Leaver
          <6> QED BY <1>9, <5>2, <6>1 DEF IsFirst
        <5> QED BY <5>1, <5>2
      <4> QED BY <1>7, <1>9, <2>2, <2>3, <3>2, <4>1, PlaceAppend
    <3> QED BY <1>1, <3>1, <3>2
  <2>7. \A x \in Nodes : Place(x, node'[x], inbox'[x], disk[x], alive, last, S)
    <3> SUFFICES ASSUME NEW x \in Nodes, x # to PROVE Place(x, node'[x], inbox[x], disk[x], alive, last, S)
      BY <1>6, <2>1, <2>6
    <3> QED BY <1>4, <1>11, OrderlyFacts
  <2>8. m.com # "KILL" /\ alive' = alive /\ last' = last /\ disk' = disk
    BY <1>1, <1>7
  <2> QED BY <1>4, <1>6, <1>7, <1>12, <1>13, <2>1, <2>7, <2>8, SendOrder
<1> QED BY <1>14, <1>15

LEMMA JoinedWellOrder ==
    ASSUME Orderly, Basic', NEW n \in Nodes, NEW dk \in DiskType, JoinedWell(n, dk),
           node[n].stage \in {"log", "full"}, node[n].link # None
    PROVE  Orderly' /\ Recovered(alive)' = Recovered(alive) \cup {n}
<1> DEFINE d == node[n]
           rd == Ready(d, dk.log)
           e == LetGo(rd, n)
           q == inbox[n]
<1> PICK S : S = Recovered(alive)
  OBVIOUS
<1>1. /\ disk' = [disk EXCEPT ![n] = dk] /\ alive' = alive /\ last' = last /\ inbox' = inbox
  BY DEF JoinedWell
<1>2. /\ node'[n] = e /\ \A x \in Nodes : x # n => node'[x] = LetGo(node[x], n)
  BY JoinedWellIs DEF JoinedEffect, Orderly
<1>3. /\ Basic /\ Proc(d, sent) /\ Shape(n, d, q, Member(n)) /\ dk.log \in LogType
      /\ disk' = [disk EXCEPT ![n] = dk] /\ DOMAIN disk = Nodes
  BY <1>1, BasicFacts DEF Orderly, DiskType
<1>4. /\ Proc(rd, sent) /\ rd.main = "run" /\ rd.killed = d.killed /\ rd.primary = d.primary
      /\ rd.stage = "no" /\ rd.link = None /\ rd.conn = (IF d.conn = "join" THEN "idle" ELSE d.conn)
      /\ rd.view = d.view
  <2> HIDE DEF d
  <2> QED BY <1>3, ReadyIs
<1> HIDE DEF rd
<1>5. /\ SameRole(e, rd) /\ SameSync(e, rd) /\ SameWork(e, rd) /\ e.view = rd.view
  BY <1>4, LetGoIs
<1> HIDE DEF e
<1>6. /\ n \in Range(alive) /\ ~d.killed /\ ~Holds(q, "KILL") /\ ~Holds(q, "RESTART")
      /\ d.stage # "no" /\ d.main # "down" /\ d.link # None
  BY <1>3 DEF Shape, Stages, Called, Member
<1>7. Place(n, d, q, disk[n], alive, last, S)
  BY OrderlyFacts
<1>8. d.conn = "join" \/ d.conn = "idle"
  <2>1. d.main \in {"join", "run"} /\ (d.conn = "join" <=> (d.main = "run" /\ d.stage # "no"))
    BY <1>3, <1>6 DEF Shape, Stages
  <2> QED BY <1>6, <1>7, <2>1 DEF Place, Waits
<1>9. /\ e.main = "run" /\ e.killed = d.killed /\ e.primary = d.primary /\ e.stage = "no"
      /\ e.link = None /\ e.view = d.view /\ e.conn = "idle"
  BY <1>4, <1>5, <1>8 DEF SameRole, SameSync, SameWork
<1>10. Place(n, e, q, dk, alive, last, S \cup {n})
  <2>1. n \in S \cup {n}
    OBVIOUS
  <2> HIDE DEF d, q
  <2> QED BY <1>6, <1>7, <1>9, <2>1, PlaceReady
<1>11. ~Virgin(last, S)
  BY <1>6, <1>7 DEF Place, Pristine
<1>12. In(n, e, q, alive)
  BY <1>6, <1>9 DEF In
<1>13. /\ disk'[n] = dk /\ inbox'[n] = q /\ node[n].main # "down" /\ e.conn # "forward"
       /\ \A x \in Nodes : x # n =>
             /\ \E m : node'[x] = LetGo(node[x], m)
             /\ inbox'[x] = inbox[x] /\ disk'[x] = disk[x]
  BY <1>1, <1>2, <1>3, <1>6, <1>9
<1>14. alive' = alive /\ last' = last /\ node'[n] = e
  BY <1>1, <1>2
<1> HIDE DEF d
<1> QED BY <1>10, <1>11, <1>12, <1>13, <1>14, GainOrder

LEMMA StableIs ==
    ASSUME Orderly, Stable, NEW n \in Nodes, n \in Range(alive)
    PROVE  /\ n \in Recovered(alive) /\ Range(alive) \subseteq Recovered(alive)
           /\ node[n].main = "run" /\ node[n].stage = "no" /\ ~node[n].killed /\ node[n].conn # "serve"
           /\ node[n].view = alive
           /\ \A i \in DOMAIN inbox[n] : inbox[n][i].com \in {"WRITE", "CKPT"}
           /\ node[n].primary => IsFirst(n, alive)
<1>1. \A x \in Range(alive) : ~Joining(x) /\ x \in Nodes
  BY OrderlyFacts, ListFacts DEF Stable
<1>2. \A x \in Range(alive) : Up(x)
  BY <1>1, BasicFacts DEF Orderly, Shape, Called, Member, Up
<1>3. Range(alive) \subseteq Recovered(alive)
  BY <1>1, <1>2 DEF Recovered
<1>4. In(n, node[n], inbox[n], alive)
  BY <1>3, OrderlyFacts, RecoveredIs
<1>5. node[n].conn # "serve" /\ \A i \in DOMAIN inbox[n] : inbox[n][i].com \in {"WRITE", "CKPT"}
  BY DEF Stable
<1>6. node[n].view = alive
  BY <1>5, OrderlyFacts DEF Place, Views
<1>7. node[n].primary => IsFirst(n, alive)
  BY <1>4, OrderlyFacts DEF Place, Roles, In
<1> QED BY <1>3, <1>4, <1>5, <1>6, <1>7 DEF In

\* The n-th write is of the value n, and the primary begins to forward it.
Begins(n, x, e) ==
    /\ x \in Write /\ x.val = sent + 1 /\ x.prev \in Expected(n)
    /\ Forwarding(n, e, node[n], x) /\ Proc(e, sent + 1)
    /\ node' = [node EXCEPT ![n] = e]

LEMMA BeginsIs ==
    ASSUME Basic, NEW n \in Nodes, ClientWrite(n)
    PROVE  \E x, e : Begins(n, x, e)
<1>1. PICK prev \in Expected(n) : RunWrite(n, [val |-> sent + 1, prev |-> prev, client |-> TRUE])
  BY DEF ClientWrite
<1>2. node[n].primary /\ sent < MaxWrites
  BY DEF ClientWrite, Serves
<1>3. Proc(node[n], sent) /\ disk[n] \in DiskType /\ sent \in Nat /\ sent <= MaxWrites
  BY BasicFacts
<1> DEFINE x == [val |-> sent + 1, prev |-> prev, client |-> TRUE]
<1>4. x \in Write /\ x.val = sent + 1 /\ x.prev = prev
  <2>1. prev \in Val \cup {None}
    BY <1>1, <1>3, ExpectedIs
  <2>2. sent + 1 \in 1 .. MaxWrites
    BY <1>2, <1>3, GroupBounds
  <2> QED BY <2>1, <2>2 DEF Write, Val
<1>5. RunWrite(n, x)
  BY <1>1
<1> HIDE DEF x
<1>6. sent + 1 \in Nat /\ sent <= sent + 1 /\ x.val <= sent + 1
  BY <1>3, <1>4
<1>7. \E e : Forwarding(n, e, node[n], x) /\ Proc(e, sent + 1) /\ node' = [node EXCEPT ![n] = e]
  BY <1>2, <1>4, <1>5, <1>6, RunWriteForwards
<1> QED BY <1>1, <1>4, <1>7 DEF Begins

LEMMA ClientWriteOrder ==
    ASSUME "overlap" \notin Hazards, Orderly, Basic', NEW n \in Nodes, ClientWrite(n) PROVE StepSame
<1> PICK S : S = Recovered(alive)
  OBVIOUS
<1> DEFINE d == node[n]
<1>1. /\ Stable /\ IsFirst(n, alive) /\ d.primary /\ d.conn = "idle"
      /\ alive' = alive /\ last' = last /\ inbox' = inbox
  BY DEF ClientWrite, Serves, IsFirst
<1>2. PICK x, e : Begins(n, x, e)
  BY BeginsIs DEF Orderly
<1>3. n \in Range(alive) /\ alive \in Seq(Nodes) /\ Distinct(alive)
  BY <1>1, OrderlyFacts, BehindFirst
<1>4. /\ n \in S /\ Range(alive) \subseteq S /\ d.main = "run" /\ d.stage = "no" /\ d.view = alive
  BY <1>1, <1>3, StableIs
<1>5. /\ SameRole(e, d) /\ SameSync(e, d) /\ SameCache(e, d) /\ e.view = d.view /\ e.conn = "forward"
      /\ e.todo = Without(alive, n)
  BY <1>2, <1>4 DEF Begins, Forwarding, Others
<1>6. /\ Distinct(e.todo) /\ Range(e.todo) = Range(alive) \ {n}
      /\ Len(e.todo) <= Len(alive) - 1
  BY <1>3, <1>5, ListLeave, WithoutIs
<1>7. Forwards(n, e, alive, S)
  BY <1>4, <1>5, <1>6 DEF Forwards
<1>8. /\ node'[n] = e /\ disk' = disk /\ \A y \in Nodes : y # n => node'[y] = node[y]
  <2>1. disk' = disk
    BY <1>1 DEF ClientWrite, RunWrite
  <2>2. DOMAIN node = Nodes
    BY BasicFacts DEF Orderly
  <2> QED BY <1>2, <2>1, <2>2 DEF Begins
<1>9. Place(n, d, inbox[n], disk[n], alive, last, S)
  BY OrderlyFacts
<1>10. ~Virgin(last, S)
  BY <1>4 DEF Virgin
<1>11. Place(n, e, inbox[n], disk[n], alive, last, S)
  <2> HIDE DEF d
  <2> QED BY <1>1, <1>4, <1>5, <1>7, <1>9, <1>10, PlaceSame
<1>12. In(n, e, inbox[n], alive) <=> In(n, d, inbox[n], alive)
  BY <1>5 DEF In, SameRole, SameSync
<1>13. \A m \in Nodes : e.conn = "forward" /\ m \in Range(e.todo) => m \in Range(alive)
  BY <1>6
<1>14. e.main = d.main
  BY <1>5 DEF SameRole
<1> QED BY <1>1, <1>8, <1>11, <1>12, <1>13, <1>14, LocalOrder DEF StepSame

------------------------------------------------------------------------------
(* Processes end, and come back.                                           *)

LEMMA MoveOrder ==
    ASSUME Basic', Distinct(alive'), NEW Z, Z \subseteq Nodes,
           \A m \in Nodes : m \in Z <=> In(m, node'[m], inbox'[m], alive'),
           \A x \in Nodes : Place(x, node'[x], inbox'[x], disk'[x], alive', last', Z),
           \A p, m \in Nodes : node'[p].conn = "forward" /\ m \in Range(node'[p].todo) =>
              m \in Range(alive') \/ node'[m].main = "down"
    PROVE  Orderly' /\ Recovered(alive)' = Z
<1>1. alive' \in Seq(Nodes)
  BY DEF Basic, TypeInv
<1>2. Recovered(alive)' = Z
  BY <1>1, RecoveredNext
<1>3. Reaches(alive)'
  BY DEF Reaches
<1>4. \A x \in Nodes : Place(x, node[x], inbox[x], disk[x], alive, last, Recovered(alive))'
  BY <1>2
<1>5. Distinct(alive)'
  OBVIOUS
<1> QED BY <1>2, <1>3, <1>4, <1>5 DEF Orderly

\* The processes that stay, when x ends: what they have not read of it is gone.
LEMMA PlaceUnasked ==
    ASSUME NEW w \in Nat, NEW q, Queue(q, w), NEW x, x # None, NEW n, NEW d, Proc(d, w),
           NEW dk, NEW al, NEW la, NEW S,
           Place(n, d, q, dk, al, la, S), Mem(d, q, n, al)
    PROVE  /\ Place(n, Parted(d, x), Unasked(q, x), dk, al, la, S)
           /\ Mem(Parted(d, x), Unasked(q, x), n, al)
           /\ Queue(Unasked(q, x), w)
           /\ \A com : Holds(Unasked(q, x), com) => Holds(q, com)
           /\ Holds(Unasked(q, x), "KILL") <=> Holds(q, "KILL")
           /\ Parted(d, x).link # None => Parted(d, x).peer # x
<1>1. Queue(Unasked(q, x), w)
  BY QueuePick
<1>2. Thin(q, Unasked(q, x), {"CLUSTER", "KILL"})
  BY UnaskedThin
<1>3. /\ \A com : Holds(Unasked(q, x), com) => Holds(q, com)
      /\ \A com \in {"CLUSTER", "KILL"} : Holds(q, com) => Holds(Unasked(q, x), com)
  BY <1>1, <1>2, ThinFacts
<1>4. Place(n, d, Unasked(q, x), dk, al, la, S)
  BY <1>1, <1>2, PlaceThin
<1>5. /\ SameRole(Parted(d, x), d) /\ SameCache(Parted(d, x), d) /\ SameWork(Parted(d, x), d)
      /\ Parted(d, x).view = d.view /\ Parted(d, x).stage = d.stage /\ Parted(d, x).link = d.link
      /\ Parted(d, x).peer = (IF d.peer = x /\ d.stage # "ask" THEN None ELSE d.peer)
  BY PartedIs
<1>6. Place(n, Parted(d, x), Unasked(q, x), dk, al, la, S)
  <2>1. Parted(d, x).peer \in {d.peer, None}
    BY <1>5
  <2> QED BY <1>4, <1>5, <2>1, PlaceParted
<1>7. Mem(Parted(d, x), Unasked(q, x), n, al)
  BY <1>3, <1>5 DEF Mem, SameRole
<1>8. d.stage = "ask" => d.link = None
  BY DEF Proc
<1>9. Holds(Unasked(q, x), "KILL") <=> Holds(q, "KILL")
  BY <1>3
<1> QED BY <1>1, <1>3, <1>5, <1>6, <1>7, <1>8, <1>9

\* A process ends.
LEMMA DieOrder ==
    ASSUME Orderly, Basic', NEW n \in Nodes, Die(n, node), NEW dk, disk' = [disk EXCEPT ![n] = dk],
           Virgin(last, Recovered(alive)) => dk = BlankDisk,
           \A x \in Range(Without(alive, n)) :
              node[x].main = "wait" /\ n = Head(alive) /\ n \in Recovered(alive) =>
                 Head(Without(alive, n)) \in Recovered(alive) \ {n}
    PROVE  Orderly' /\ Recovered(alive)' = Recovered(alive) \ {n}
<1> PICK S : S = Recovered(alive)
  OBVIOUS
<1> DEFINE Z == S \ {n}
           bl == Without(alive, n)
<1>1. DieEffect(n) /\ Basic
  BY DieIs DEF Orderly
<1>2. alive \in Seq(Nodes) /\ Distinct(alive) /\ sent \in Nat
  BY <1>1, OrderlyFacts, BasicFacts
<1>3. S \subseteq Nodes /\ S \subseteq Range(alive) /\ \A m \in Nodes : m \in S <=> In(m, node[m], inbox[m], alive)
  BY <1>2, RecoveredIs
<1>4. /\ bl \in Seq(Nodes) /\ Distinct(bl) /\ Range(bl) = Range(alive) \ {n}
  BY <1>2, ListLeave
<1>5. /\ alive' \in Seq(Nodes) /\ Distinct(alive') /\ Range(alive') = Range(alive) \ {n}
      /\ alive' = (IF n \in Range(alive) THEN bl ELSE alive)
      /\ last' = (IF S = {n} THEN n ELSE last)
  <2>1. S = {n} => n \in Range(alive)
    BY <1>3
  <2>2. n \notin Range(alive) => Range(alive) \ {n} = Range(alive)
    OBVIOUS
  <2> QED BY <1>1, <1>2, <1>4, <2>1, <2>2 DEF DieEffect, Member
<1>6. node'[n] = Down /\ inbox'[n] = <<>> /\ disk'[n] = dk /\ DOMAIN disk = Nodes
  BY <1>1, BasicFacts DEF DieEffect
<1> HIDE DEF bl, Z
<1>7. ASSUME NEW x \in Nodes, x # n
      PROVE  /\ node'[x] = Parted(node[x], n)
             /\ SameRole(node'[x], node[x]) /\ SameWork(node'[x], node[x]) /\ node'[x].stage = node[x].stage
             /\ Holds(inbox'[x], "KILL") <=> Holds(inbox[x], "KILL")
             /\ Place(x, node'[x], inbox'[x], disk'[x], alive', last', Z)
  <2> DEFINE d == node[x]
             q == inbox[x]
             u == Unasked(q, n)
  <2>1. /\ Place(x, d, q, disk[x], alive, last, S) /\ Mem(d, q, x, alive)
        /\ Proc(d, sent) /\ Queue(q, sent)
    BY <1>1, OrderlyFacts, BasicFacts
  <2>2. /\ node'[x] = Parted(d, n) /\ disk'[x] = disk[x]
        /\ inbox'[x] = IF n \in Range(alive) /\ x \in Range(alive') THEN Append(u, News(alive')) ELSE u
    BY <1>1, <1>6, <1>7 DEF DieEffect, Member
  <2> HIDE DEF d, q
  <2>3. /\ Place(x, Parted(d, n), u, disk[x], alive, last, S) /\ Mem(Parted(d, n), u, x, alive)
        /\ Queue(u, sent)
        /\ Holds(u, "KILL") <=> Holds(q, "KILL")
        /\ Parted(d, n).link # None => Parted(d, n).peer # n
    BY <1>2, <2>1, GroupNone, PlaceUnasked
  <2>4. /\ SameRole(Parted(d, n), d) /\ SameWork(Parted(d, n), d) /\ Parted(d, n).stage = d.stage
    BY <2>1, PartedIs
  <2> HIDE DEF u
  <2>5. CASE n \in Range(alive)
    <3>1. alive' = bl
      BY <1>5, <2>5
    <3>2. x \in Range(bl) => Grown(u, Append(u, News(bl)), News(bl))
      <4> SUFFICES ASSUME x \in Range(bl) PROVE Grown(u, Append(u, News(bl)), News(bl))
        OBVIOUS
      <4>1. bl # <<>>
        BY <1>4, ListFacts
      <4>2. News(bl) \in Letter /\ Sensible(News(bl), sent)
        BY <1>4, <4>1, Letters
      <4> QED BY <1>2, <2>3, <4>2, AppendFacts
    <3>3. /\ inbox'[x] = IF x \in Range(bl) THEN Append(u, News(bl)) ELSE u
          /\ \/ x \in Range(bl) /\ Grown(u, inbox'[x], News(bl))
             \/ x \notin Range(bl) /\ inbox'[x] = u
      BY <2>2, <2>5, <3>1, <3>2
    <3>4. Parted(d, n).main = "wait" /\ n = Head(alive) /\ n \in S => Head(bl) \in Z
      <4> SUFFICES ASSUME Parted(d, n).main = "wait", n = Head(alive), n \in S PROVE Head(bl) \in Z
        OBVIOUS
      <4>1. d.main = "wait" /\ x \in Range(alive)
        BY <2>3, <2>4 DEF SameRole, Mem
      <4>2. x \in Range(bl)
        BY <1>4, <1>7, <4>1
      <4> QED BY <4>1, <4>2 DEF Z, bl, d
    <3>5. Parted(d, n).link # None => Parted(d, n).peer # n
      BY <2>3
    <3>6. bl = Without(alive, n) /\ Z = S \ {n}
      BY DEF bl, Z
    <3>7. Place(x, Parted(d, n), inbox'[x], disk[x], bl, last', Z)
      BY <1>2, <1>5, <1>7, <2>3, <2>5, <3>3, <3>4, <3>5, <3>6, PlaceLeave
    <3>8. Holds(inbox'[x], "KILL") <=> Holds(q, "KILL")
      <4>1. News(bl).com # "KILL"
        BY DEF News, Message
      <4> QED BY <2>3, <3>3, <4>1 DEF Grown
    <3> QED BY <2>2, <2>4, <3>1, <3>7, <3>8 DEF d, q
  <2>6. CASE n \notin Range(alive)
    <3>1. Z = S /\ alive' = alive /\ last' = last
      BY <1>3, <1>5, <2>6 DEF Z
    <3> QED BY <2>2, <2>3, <2>4, <2>6, <3>1 DEF d, q
  <2> QED BY <2>5, <2>6
<1>8. Place(n, Down, <<>>, dk, alive', last', Z)
  <2>1. Virgin(last', Z) => dk = BlankDisk
    <3> SUFFICES ASSUME last' = None, Z = {} PROVE Virgin(last, S)
      BY DEF Virgin
    <3>1. S # {n} /\ last = None
      BY <1>5, GroupNone
    <3> QED BY <3>1 DEF Z, Virgin
  <2>2. n \notin Range(alive')
    BY <1>5
  <2> QED BY <2>1, <2>2, PlaceDown
<1>9. \A m \in Nodes : m \in Z <=> In(m, node'[m], inbox'[m], alive')
  <2>1. Down.main = "down"
    BY DEF Down, Fresh
  <2> QED BY <1>3, <1>5, <1>6, <1>7, <2>1 DEF In, Z, SameRole
<1>10. \A x \in Nodes : Place(x, node'[x], inbox'[x], disk'[x], alive', last', Z)
  BY <1>6, <1>7, <1>8
<1>11. \A p, m \in Nodes : node'[p].conn = "forward" /\ m \in Range(node'[p].todo) =>
          m \in Range(alive') \/ node'[m].main = "down"
  <2>1. Down.main = "down" /\ Down.conn = "idle"
    BY DEF Down, Fresh
  <2> SUFFICES ASSUME NEW p \in Nodes, NEW m \in Nodes, node'[p].conn = "forward", m \in Range(node'[p].todo), m # n
               PROVE  m \in Range(alive') \/ node'[m].main = "down"
    BY <1>6, <2>1
  <2>2. p # n
    BY <1>6, <2>1
  <2>3. node[p].conn = "forward" /\ m \in Range(node[p].todo)
    BY <1>7, <2>2 DEF SameWork
  <2>4. m \in Range(alive) \/ node[m].main = "down"
    BY <2>3 DEF Orderly, Reaches
  <2>5. node'[m].main = node[m].main
    BY <1>7 DEF SameRole
  <2> QED BY <1>5, <2>4, <2>5
<1>12. Z \subseteq Nodes /\ Z = S \ {n}
  BY <1>3 DEF Z
<1> QED BY <1>5, <1>9, <1>10, <1>11, <1>12, MoveOrder

LEMMA CrashOrder ==
    ASSUME "takeover" \notin Hazards, Orderly, Basic', NEW n \in Nodes, Crash(n)
    PROVE  Orderly' /\ Recovered(alive)' = Recovered(alive) \ {n}
<1>1. Die(n, node) /\ ~LeavesNewcomer(n) /\ disk' = disk
  BY DEF Crash
<1>2. disk' = [disk EXCEPT ![n] = disk[n]]
  BY <1>1, BasicFacts DEF Orderly
<1>3. Virgin(last, Recovered(alive)) => disk[n] = BlankDisk
  BY OrderlyFacts DEF Place, Pristine
<1>4. alive \in Seq(Nodes) /\ Distinct(alive)
  BY OrderlyFacts
<1>5. Without(alive, n) \in Seq(Nodes) /\ Range(Without(alive, n)) = Range(alive) \ {n}
  BY <1>4, ListLeave
<1>6. \A x \in Range(Without(alive, n)) :
         node[x].main = "wait" /\ n = Head(alive) /\ n \in Recovered(alive) =>
            Head(Without(alive, n)) \in Recovered(alive) \ {n}
  <2> SUFFICES ASSUME NEW x \in Range(Without(alive, n)), node[x].main = "wait", n = Head(alive)
               PROVE  Head(Without(alive, n)) \in Recovered(alive) \ {n}
    OBVIOUS
  <2>1. Without(alive, n) # <<>> /\ Head(Without(alive, n)) \in Range(Without(alive, n))
    BY <1>5, ListFacts
  <2>2. Head(Without(alive, n)) # n
    BY <1>5, <2>1
  <2> QED BY <1>1, <2>1, <2>2 DEF LeavesNewcomer
<1> QED BY <1>1, <1>2, <1>3, <1>6, DieOrder

LEMMA ExitOrder ==
    ASSUME Orderly, Basic', NEW n \in Nodes, n \notin Recovered(alive), NEW dk, Exit(n, dk),
           Virgin(last, Recovered(alive)) => dk = BlankDisk
    PROVE  StepSame
<1>1. Die(n, node) /\ disk' = [disk EXCEPT ![n] = dk]
  BY DEF Exit
<1>2. Orderly' /\ Recovered(alive)' = Recovered(alive) \ {n}
  BY <1>1, DieOrder
<1> QED BY <1>2 DEF StepSame

LEMMA HeirIs ==
    ASSUME {"takeover", "overlap"} \cap Hazards = {}, Orderly, NEW n \in Nodes, MayJoin(n)
    PROVE  Entry(n, alive, last, Recovered(alive)) /\ \A m \in Nodes : node[m].conn # "forward"
BY DEF MayJoin, Heir, Entry, Virgin

\* bl is the list al on which n has just come.
Newest(n, al, bl, la, S) ==
    /\ bl \in Seq(Nodes) /\ Distinct(bl) /\ Range(bl) = Range(al) \cup {n} /\ bl # <<>>
    /\ Left(n, la, S) => al = <<>> /\ bl = <<n>> /\ Head(bl) = n
    /\ ~Left(n, la, S) /\ ~Virgin(la, S) => al # <<>> /\ Head(bl) = Head(al) /\ Head(bl) \in S /\ Head(bl) # n
    /\ \A p : p = Head(bl) /\ Before(p, n, bl) => IsFirst(p, bl) /\ (p \in S \/ Virgin(la, S))
    /\ Head(bl) \in S \/ Virgin(la, S) \/ Left(n, la, S)
    /\ Head(bl) = n => IsFirst(n, bl)

LEMMA JoinList ==
    ASSUME NEW al \in Seq(Nodes), Distinct(al), NEW n \in Nodes, n \notin Range(al), NEW la,
           NEW S, S \subseteq Range(al), Entry(n, al, la, S), NEW bl, bl = Append(al, n)
    PROVE  Newest(n, al, bl, la, S)
<1>0. n # None
  BY GroupNone
<1>1. /\ bl \in Seq(Nodes) /\ Distinct(bl) /\ Range(bl) = Range(al) \cup {n} /\ bl # <<>>
      /\ al # <<>> => Head(bl) = Head(al)
      /\ al = <<>> => bl = <<n>> /\ Head(bl) = n
      /\ \A p, m : Before(p, m, bl) => p # n /\ (m # n => Before(p, m, al))
  BY ListJoin
<1>2. al # <<>> => Head(al) \in Range(al)
  BY ListFacts
<1>3. al = <<>> => S = {}
  BY RangeEmpty
<1>4. Left(n, la, S) => al = <<>>
  BY <1>0 DEF Entry, Left, Virgin
<1>5. ~Left(n, la, S) /\ ~Virgin(la, S) => al # <<>> /\ Head(al) \in S
  BY <1>3 DEF Entry, Left, Virgin
<1>6. Head(bl) \in S \/ Virgin(la, S) \/ Left(n, la, S)
  BY <1>1, <1>5
<1>7. \A p : p = Head(bl) /\ Before(p, n, bl) => IsFirst(p, bl) /\ (p \in S \/ Virgin(la, S))
  BY <1>1, <1>3, <1>2 DEF IsFirst, Entry
<1> QED BY <1>1, <1>2, <1>4, <1>5, <1>6, <1>7 DEF IsFirst, Newest

LEMMA PlaceFresh ==
    ASSUME NEW al \in Seq(Nodes), Distinct(al), NEW n \in Nodes, n \notin Range(al), NEW la,
           NEW S, S \subseteq Range(al), Entry(n, al, la, S), NEW bl, bl = Append(al, n),
           NEW r, Grown(<<>>, r, News(bl)), NEW dk, Virgin(la, S) => dk = BlankDisk
    PROVE  Place(n, Fresh, r, dk, bl, la, S)
<1>1. Newest(n, al, bl, la, S)
  BY JoinList
<1>2. /\ bl \in Seq(Nodes) /\ Range(bl) = Range(al) \cup {n} /\ bl # <<>>
      /\ Left(n, la, S) => bl = <<n>> /\ Head(bl) = n
      /\ \A p : p = Head(bl) /\ Before(p, n, bl) => IsFirst(p, bl) /\ (p \in S \/ Virgin(la, S))
      /\ Head(bl) \in S \/ Virgin(la, S) \/ Left(n, la, S)
      /\ Head(bl) = n => IsFirst(n, bl)
  BY <1>1 DEF Newest
<1>3. \A i \in DOMAIN r : r[i] = News(bl)
  BY DEF Grown
<1>4. News(bl).com = "CLUSTER" /\ News(bl).list = bl
  BY DEF News, Message
<1>5. \A com : Holds(r, com) => com = "CLUSTER"
  BY <1>3, <1>4 DEF Holds
<1>6. /\ Fresh.main = "wait" /\ Fresh.conn = "idle" /\ Fresh.seq = 0 /\ Fresh.update = None
      /\ ~Fresh.killed /\ ~Fresh.primary /\ Fresh.view = <<>> /\ Fresh.stage = "no" /\ Fresh.link = None
  BY DEF Fresh
<1> HIDE DEF Fresh
<1>7. Waits(n, Fresh, bl, la, S)
  BY <1>2, <1>6 DEF Waits
<1>8. Views(n, Fresh, r, bl)
  BY <1>2, TellViews
<1>9. Roles(n, Fresh, r, bl, S)
  BY <1>2, <1>3, <1>4, <1>6 DEF Roles, Names
<1>10. Writes(n, Fresh, r) /\ Restarts(n, Fresh, r, la, S)
  BY <1>3, <1>4 DEF Writes, Restarts
<1>11. Asking(n, Fresh, r, bl, la, S)
  <2> SUFFICES ASSUME NEW p \in Nodes, Asked(n, Fresh, r, p), Before(p, n, bl)
               PROVE  IsFirst(p, bl) /\ (p \in S \/ Virgin(la, S))
    BY DEF Asking
  <2>1. p = Head(bl)
    BY <1>3, <1>4, <1>6 DEF Asked, Names
  <2> QED BY <1>2, <2>1
<1>12. Linked(Fresh, bl, S) /\ Forwards(n, Fresh, bl, S)
  BY <1>6 DEF Linked, Forwards
<1>13. Leaver(n, Fresh, r, bl, la, S)
  BY <1>2, <1>3, <1>4, <1>5, <1>6 DEF Leaver, Names
<1>14. Pristine(Fresh, r, dk, la, S)
  BY <1>5, <1>6 DEF Pristine
<1> QED BY <1>7, <1>8, <1>9, <1>10, <1>11, <1>12, <1>13, <1>14 DEF Place

\* n comes on the list, and its own place is right.
LEMMA JoinOrder ==
    ASSUME Orderly, Basic', NEW n \in Nodes, n \notin Range(alive), Entry(n, alive, last, Recovered(alive)),
           \A m \in Nodes : node[m].conn # "forward",
           alive' = Append(alive, n), last' = last, disk' = disk,
           \A x \in Nodes : x # n =>
              /\ node'[x] = node[x]
              /\ inbox'[x] = IF x \in Range(alive') THEN Append(inbox[x], News(alive')) ELSE inbox[x],
           node'[n].conn # "forward", ~In(n, node'[n], inbox'[n], alive'),
           Place(n, node'[n], inbox'[n], disk[n], alive', last, Recovered(alive))
    PROVE  StepSame
<1> PICK S : S = Recovered(alive)
  OBVIOUS
<1> PICK bl : bl = alive'
  OBVIOUS
<1>1. alive \in Seq(Nodes) /\ Distinct(alive) /\ Basic /\ sent \in Nat
  BY OrderlyFacts, BasicFacts
<1>2. S \subseteq Nodes /\ S \subseteq Range(alive) /\ \A m \in Nodes : m \in S <=> In(m, node[m], inbox[m], alive)
  BY <1>1, RecoveredIs
<1>3. bl \in Seq(Nodes) /\ Distinct(bl) /\ Range(bl) = Range(alive) \cup {n} /\ bl # <<>>
  <2>1. Newest(n, alive, bl, last, S)
    BY <1>1, <1>2, JoinList
  <2> QED BY <2>1 DEF Newest
<1>4. News(bl) \in Letter /\ Sensible(News(bl), sent) /\ News(bl).com # "KILL"
  BY <1>3, Letters DEF News, Message
<1>5. ASSUME NEW x \in Nodes, x # n
      PROVE  /\ Holds(inbox'[x], "KILL") <=> Holds(inbox[x], "KILL")
             /\ Place(x, node'[x], inbox'[x], disk'[x], bl, last, S)
  <2>1. Place(x, node[x], inbox[x], disk[x], alive, last, S) /\ Mem(node[x], inbox[x], x, alive)
    BY OrderlyFacts
  <2>2. Grown(inbox[x], Append(inbox[x], News(bl)), News(bl))
    BY <1>1, <1>4, BasicFacts, AppendFacts
  <2>3. x \in Range(bl) <=> x \in Range(alive)
    BY <1>3, <1>5
  <2>4. /\ \/ x \in Range(alive) /\ Grown(inbox[x], inbox'[x], News(bl))
           \/ x \notin Range(alive) /\ inbox'[x] = inbox[x]
        /\ node'[x] = node[x]
    BY <1>5, <2>2, <2>3
  <2>5. bl = Append(alive, n) /\ node[x].conn # "forward"
    OBVIOUS
  <2>6. Place(x, node[x], inbox'[x], disk[x], bl, last, S)
    BY ONLY <1>1, <1>5, <2>1, <2>4, <2>5, n \in Nodes, n \notin Range(alive), x \in Nodes, S = Recovered(alive),
            Entry(n, alive, last, Recovered(alive)), PlaceJoin
  <2> QED BY <1>4, <2>4, <2>6 DEF Grown
<1>6. \A x \in Nodes : Place(x, node'[x], inbox'[x], disk'[x], alive', last', S)
  BY <1>5
<1>7. \A m \in Nodes : m \in S <=> In(m, node'[m], inbox'[m], alive')
  BY <1>2, <1>3, <1>5 DEF In
<1>8. \A p \in Nodes : node'[p].conn # "forward"
  OBVIOUS
<1>9. Distinct(alive')
  BY <1>3
<1> QED BY <1>2, <1>6, <1>7, <1>8, <1>9, MoveOrder DEF StepSame

LEMMA StartOrder ==
    ASSUME {"takeover", "overlap"} \cap Hazards = {}, Orderly, Basic', NEW n \in Nodes, Start(n)
    PROVE  StepSame
<1> PICK S : S = Recovered(alive)
  OBVIOUS
<1> DEFINE bl == Append(alive, n)
           r == Append(<<>>, News(bl))
<1>1. /\ node[n].main = "down" /\ MayJoin(n) /\ node' = [node EXCEPT ![n] = Fresh]
      /\ alive' = bl /\ inbox' = Announce(bl, inbox) /\ last' = last /\ disk' = disk
  BY DEF Start, Up
<1>2. /\ alive \in Seq(Nodes) /\ Distinct(alive) /\ Basic /\ sent \in Nat /\ DOMAIN node = Nodes
      /\ n \notin Range(alive) /\ inbox[n] = <<>>
  BY <1>1, OrderlyFacts, BasicFacts DEF Shape, Called, Member
<1>3. S \subseteq Range(alive)
  BY <1>2, RecoveredIs
<1>4. Entry(n, alive, last, S) /\ \A m \in Nodes : node[m].conn # "forward"
  BY <1>1, HeirIs
<1>5. bl \in Seq(Nodes) /\ Range(bl) = Range(alive) \cup {n} /\ bl # <<>>
  <2>1. Newest(n, alive, bl, last, S)
    BY <1>2, <1>3, <1>4, JoinList
  <2> QED BY <2>1 DEF Newest
<1> HIDE DEF bl
<1>6. \A x \in Nodes : inbox'[x] = IF x \in Range(bl) THEN Append(inbox[x], News(bl)) ELSE inbox[x]
  BY <1>1, <1>5, AnnounceIs
<1>7. /\ node'[n] = Fresh /\ inbox'[n] = r
      /\ \A x \in Nodes : x # n => node'[x] = node[x]
  BY <1>1, <1>2, <1>5, <1>6
<1>8. Grown(<<>>, r, News(bl))
  <2>1. News(bl) \in Letter /\ Sensible(News(bl), sent)
    BY <1>5, Letters
  <2>2. Queue(<<>>, sent)
    BY DEF Queue
  <2> QED BY <1>2, <2>1, <2>2, AppendFacts
<1> HIDE DEF r
<1>9. Virgin(last, S) => disk[n] = BlankDisk
  BY OrderlyFacts DEF Place, Pristine
<1>10. Place(n, Fresh, r, disk[n], bl, last, S)
  BY <1>2, <1>3, <1>4, <1>8, <1>9, PlaceFresh DEF bl
<1>11. Fresh.main = "wait" /\ Fresh.conn = "idle"
  BY DEF Fresh
<1>12. ~In(n, Fresh, r, bl)
  BY <1>11 DEF In
<1>13. alive' = Append(alive, n)
  BY <1>1 DEF bl
<1> QED BY <1>1, <1>2, <1>4, <1>6, <1>7, <1>10, <1>11, <1>12, <1>13, JoinOrder

\* A killed process that comes back on the list: CLUSTER, then RESTART.
LEMMA PlaceBack ==
    ASSUME NEW al \in Seq(Nodes), Distinct(al), NEW n \in Nodes, n \notin Range(al), NEW la,
           NEW S, S \subseteq Range(al), Entry(n, al, la, S), NEW bl, bl = Append(al, n),
           NEW d, NEW q, NEW dk, Place(n, d, q, dk, al, la, S), Mem(d, q, n, al),
           d.main = "run", ~Virgin(la, S),
           NEW u, Grown(q, u, News(bl)), NEW r, NEW m, Grown(u, r, m), m.com = "RESTART"
    PROVE  Place(n, d, r, dk, bl, la, S)
<1>1. Newest(n, al, bl, la, S)
  BY JoinList
<1>2. News(bl).com = "CLUSTER" /\ News(bl).list = bl
  BY DEF News, Message
<1>3. d.stage = "no" /\ d.link = None /\ ~Holds(q, "RESTART")
  BY DEF Mem
<1>4. ~IsFirst(n, al) /\ ~Holds(q, "CLUSTER")
  <2>1. ~IsFirst(n, al)
    BY BehindFirst
  <2> QED BY <2>1 DEF Place, Views
\* k is where the list is, l where RESTART is
<1>5. PICK k \in DOMAIN u : /\ u[k] = News(bl) /\ k \notin DOMAIN q
                            /\ \A i \in DOMAIN u : i \in DOMAIN q \/ i = k
                            /\ \A i \in DOMAIN q : i < k
  BY DEF Grown
<1>6. PICK l \in DOMAIN r : /\ r[l] = m /\ l \notin DOMAIN u
                            /\ \A i \in DOMAIN r : i \in DOMAIN u \/ i = l
                            /\ \A i \in DOMAIN u : i < l
  BY DEF Grown
<1>7. /\ k \in DOMAIN r /\ r[k] = News(bl) /\ k < l
      /\ \A i \in DOMAIN r : i \in DOMAIN q \/ i = k \/ i = l
      /\ \A i \in DOMAIN q : i \in DOMAIN r /\ r[i] = q[i]
      /\ \A i, j \in DOMAIN r : i < j => ~(j < i) /\ i # j
  BY <1>5, <1>6 DEF Grown
<1>8. /\ \A i \in DOMAIN r : r[i].com = "WRITE" => i \in DOMAIN q
      /\ \A i \in DOMAIN r : r[i].com = "RESTART" => i = l
      /\ \A i \in DOMAIN r : r[i].com = "CLUSTER" => i = k
      /\ \A i \in DOMAIN q : \A j \in DOMAIN r : j < i => j \in DOMAIN q
  <2>1. \A i \in DOMAIN r : r[i].com = "WRITE" => i \in DOMAIN q
    BY <1>2, <1>6, <1>7
  <2>2. \A i \in DOMAIN r : r[i].com = "RESTART" => i = l
    BY <1>2, <1>3, <1>7 DEF Holds
  <2>3. \A i \in DOMAIN r : r[i].com = "CLUSTER" => i = k
    BY <1>4, <1>6, <1>7 DEF Holds
  <2>4. \A i \in DOMAIN q : \A j \in DOMAIN r : j < i => j \in DOMAIN q
    <3> SUFFICES ASSUME NEW i \in DOMAIN q, NEW j \in DOMAIN r, j < i, j \notin DOMAIN q PROVE FALSE
      OBVIOUS
    <3>1. i \in DOMAIN u /\ i < k /\ i < l
      BY <1>5, <1>6 DEF Grown
    <3> QED BY <1>7, <3>1
  <2> QED BY <2>1, <2>2, <2>3, <2>4
<1>9. \A com : Holds(q, com) => Holds(r, com)
  BY DEF Grown
<1>10. \A i \in DOMAIN r : \A p : Names(r[i], p) => i = k /\ p = Head(bl)
  BY <1>2, <1>7, <1>8 DEF Names
<1>11. d.primary => Holds(q, "KILL")
  BY <1>4 DEF Place, Roles
<1>12. Waits(n, d, bl, la, S)
  BY DEF Waits
<1>13. Views(n, d, r, bl)
  <2>1. \A j \in DOMAIN r : k < j => r[j].com # "CLUSTER"
    BY <1>7, <1>8
  <2> QED BY <1>1, <1>2, <1>7, <2>1 DEF Views, Newest
<1>14. Roles(n, d, r, bl, S)
  <2>1. \A i \in DOMAIN r : Names(r[i], n) => IsFirst(n, bl)
    BY <1>1, <1>10 DEF Newest
  <2>2. d.conn \notin {"forward", "ckpt", "serve"}
    BY <1>4 DEF Place, Roles
  <2> QED BY <1>9, <1>11, <2>1, <2>2 DEF Place, Roles
<1>15. Writes(n, d, r)
  BY <1>7, <1>8 DEF Place, Writes
<1>16. Restarts(n, d, r, la, S)
  <2> SUFFICES IF Left(n, la, S)
               THEN \E j \in DOMAIN r : j < l /\ Names(r[j], n)
               ELSE /\ ~d.primary \/ Holds(r, "KILL")
                    /\ \A j \in DOMAIN r : j < l => ~Names(r[j], n)
    BY <1>8 DEF Restarts
  <2>1. Left(n, la, S) => Names(r[k], n)
    BY <1>1, <1>2, <1>7 DEF Newest, Names
  <2>2. ~Left(n, la, S) => Head(bl) # n
    BY <1>1 DEF Newest
  <2> QED BY <1>7, <1>9, <1>10, <1>11, <2>1, <2>2
<1>17. Asking(n, d, r, bl, la, S)
  <2> SUFFICES ASSUME NEW p \in Nodes, Asked(n, d, r, p), Before(p, n, bl)
               PROVE  IsFirst(p, bl) /\ (p \in S \/ Virgin(la, S))
    BY DEF Asking
  <2>1. ~(\A j \in DOMAIN r : j < l => r[j].com # "CLUSTER")
    BY <1>2, <1>7
  <2>2. p = Head(bl)
    BY <1>3, <1>8, <1>10, <2>1 DEF Asked
  <2> QED BY <1>1, <2>2 DEF Newest
<1>18. Linked(d, bl, S)
  BY <1>3 DEF Linked
<1>19. Leaver(n, d, r, bl, la, S)
  <2>1. Left(n, la, S) => ~Holds(q, "WRITE")
    BY DEF Place, Leaver
  <2> QED BY <1>1, <1>3, <1>7, <1>8, <2>1 DEF Leaver, Newest, Holds
<1>20. Forwards(n, d, bl, S) /\ Pristine(d, r, dk, la, S)
  BY <1>4 DEF Place, Roles, Forwards, Pristine
<1> QED BY <1>12, <1>13, <1>14, <1>15, <1>16, <1>17, <1>18, <1>19, <1>20 DEF Place

LEMMA RestartOrder ==
    ASSUME {"takeover", "overlap"} \cap Hazards = {}, Orderly, Basic', NEW n \in Nodes, Restart(n)
    PROVE  StepSame
<1> PICK S : S = Recovered(alive)
  OBVIOUS
<1> DEFINE bl == Append(alive, n)
           d == node[n]
           q == inbox[n]
           m == Message("RESTART", <<>>, None, None)
           told == Announce(bl, inbox)
           u == Append(q, News(bl))
           r == Append(u, m)
<1>1. /\ d.main # "down" /\ n \notin Range(alive) /\ MayJoin(n)
      /\ node' = node /\ alive' = bl /\ last' = last /\ disk' = disk
      /\ inbox' = [told EXCEPT ![n] = Append(told[n], m)]
  BY DEF Restart, Up
<1>2. /\ alive \in Seq(Nodes) /\ Distinct(alive) /\ Basic /\ sent \in Nat /\ Queue(q, sent)
      /\ Shape(n, d, q, Member(n)) /\ d.main \in {"down", "wait", "join", "run"}
      /\ Place(n, d, q, disk[n], alive, last, S) /\ Mem(d, q, n, alive)
  BY OrderlyFacts, BasicFacts
<1>3. S \subseteq Range(alive)
  BY <1>2, RecoveredIs
<1>4. Entry(n, alive, last, S) /\ \A x \in Nodes : node[x].conn # "forward"
  BY <1>1, HeirIs
<1>5. bl \in Seq(Nodes) /\ Range(bl) = Range(alive) \cup {n} /\ bl # <<>>
  <2>1. Newest(n, alive, bl, last, S)
    BY <1>1, <1>2, <1>3, <1>4, JoinList
  <2> QED BY <2>1 DEF Newest
<1>6. /\ d.main = "run" /\ (d.killed \/ Holds(q, "KILL"))
  BY <1>1, <1>2 DEF Shape, Called, Stages, Mem, Member
<1>7. ~Virgin(last, S) /\ d.conn # "forward"
  BY <1>2, <1>4, <1>6 DEF Place, Pristine
<1> HIDE DEF bl, told
<1>8. DOMAIN told = Nodes
      /\ \A x \in Nodes : told[x] = IF x \in Range(bl) THEN Append(inbox[x], News(bl)) ELSE inbox[x]
  BY <1>5, AnnounceIs DEF told
<1> HIDE DEF q, m
<1>9. News(bl) \in Letter /\ Sensible(News(bl), sent) /\ m \in Letter /\ Sensible(m, sent) /\ m.com = "RESTART"
  BY <1>5, Letters DEF Message, m
<1>10. Queue(u, sent) /\ Grown(q, u, News(bl))
  BY <1>2, <1>9, AppendFacts
<1> HIDE DEF u
<1>11. Grown(u, r, m)
  BY <1>2, <1>9, <1>10, AppendFacts
<1>12. /\ inbox'[n] = r
       /\ \A x \in Nodes : x # n => inbox'[x] = IF x \in Range(bl) THEN Append(inbox[x], News(bl)) ELSE inbox[x]
  BY <1>1, <1>5, <1>8 DEF u, q
<1> HIDE DEF r, d
<1>13. bl = Append(alive, n)
  BY DEF bl
<1>14. Place(n, d, r, disk[n], bl, last, S)
  BY <1>1, <1>2, <1>3, <1>4, <1>6, <1>7, <1>9, <1>10, <1>11, <1>13, PlaceBack
<1>15. ~In(n, d, r, bl)
  BY <1>6, <1>10, <1>11 DEF In, Grown
<1>16. d = node[n]
  BY DEF d
<1>17. node'[n] = node[n] /\ \A x \in Nodes : node'[x] = node[x]
  BY <1>1
<1>18. /\ alive' = Append(alive, n) /\ alive' = bl /\ last' = last /\ disk' = disk
  BY <1>1, <1>13
<1> QED BY <1>1, <1>4, <1>7, <1>12, <1>14, <1>15, <1>16, <1>17, <1>18, JoinOrder

\* KILL is on its way to a member that left the list.
LEMMA PlaceToKill ==
    ASSUME NEW al \in Seq(Nodes), Distinct(al), NEW n \in Range(al), NEW bl, bl = Without(al, n),
           NEW la, NEW S, n \in S, Range(al) \subseteq S, n # None,
           NEW lb, NEW Z, Z = S \ {n}, lb = (IF S = {n} THEN n ELSE la),
           NEW d, NEW q, NEW dk, Mem(d, q, n, al), Place(n, d, q, dk, al, la, S),
           d.main = "run", d.stage = "no", ~d.killed, d.view = al, d.conn = "idle",
           \A i \in DOMAIN q : q[i].com \in {"WRITE", "CKPT"},
           NEW r, NEW m, Grown(q, r, m), m.com = "KILL"
    PROVE  Place(n, d, r, dk, bl, lb, Z)
<1>1. n \notin Range(bl)
  BY ListLeave
<1>2. /\ \A i \in DOMAIN r : i \in DOMAIN q \/ r[i].com = "KILL"
      /\ \A i \in DOMAIN q : i \in DOMAIN r /\ r[i] = q[i]
      /\ \A i \in DOMAIN r : r[i].com \in {"WRITE", "CKPT", "KILL"}
      /\ \A i, j \in DOMAIN r : i < j => i \in DOMAIN q
      /\ Holds(r, "KILL")
      /\ Holds(r, "WRITE") => Holds(q, "WRITE")
  BY DEF Grown
<1>3. \A i \in DOMAIN r : \A p : ~Names(r[i], p)
  BY <1>2 DEF Names
<1>4. d.link = None
  BY DEF Mem
<1>5. ~Virgin(lb, Z)
  BY DEF Virgin
<1>6. Left(n, lb, Z) => ~Holds(q, "WRITE")
  <2> SUFFICES ASSUME Left(n, lb, Z) PROVE ~Holds(q, "WRITE")
    OBVIOUS
  <2>1. Range(al) = {n}
    BY DEF Left
  <2>2. al # <<>> /\ Head(al) = n
    BY <2>1, ListFacts
  <2>3. d.primary
    BY <2>2 DEF Place, Roles
  <2> QED BY <2>3 DEF Place, Writes, Holds
<1>7. Waits(n, d, bl, lb, Z)
  BY DEF Waits
<1>8. Views(n, d, r, bl)
  BY <1>1, <1>2 DEF Views, Holds
<1>9. Roles(n, d, r, bl, Z)
  BY <1>2, <1>3 DEF Place, Roles
<1>10. Writes(n, d, r)
  <2> SUFFICES ASSUME NEW i \in DOMAIN r, r[i].com = "WRITE"
               PROVE  /\ d.main = "run" /\ d.stage = "no" /\ ~d.killed /\ ~d.primary
                      /\ \A j \in DOMAIN r : j < i => r[j].com # "KILL" /\ ~Names(r[j], n)
    BY DEF Writes
  <2>1. i \in DOMAIN q /\ q[i] = r[i]
    BY <1>2
  <2> QED BY <1>2, <2>1 DEF Place, Writes
<1>11. Restarts(n, d, r, lb, Z) /\ Asking(n, d, r, bl, lb, Z)
  BY <1>2, <1>3 DEF Restarts, Asking, Asked
<1>12. Linked(d, bl, Z) /\ Forwards(n, d, bl, Z) /\ Pristine(d, r, dk, lb, Z)
  BY <1>4, <1>5 DEF Linked, Forwards, Pristine
<1>13. Leaver(n, d, r, bl, lb, Z)
  BY <1>1, <1>2, <1>6 DEF Leaver
<1> QED BY <1>7, <1>8, <1>9, <1>10, <1>11, <1>12, <1>13 DEF Place

LEMMA KillOrder ==
    ASSUME "killBusy" \notin Hazards, Orderly, Basic', NEW n \in Nodes, Kill(n)
    PROVE  Orderly' /\ Recovered(alive)' = Recovered(alive) \ {n}
<1> PICK S : S = Recovered(alive)
  OBVIOUS
<1> DEFINE Z == S \ {n}
           bl == Without(alive, n)
           m == Message("KILL", <<>>, None, None)
           boxes == [inbox EXCEPT ![n] = Append(inbox[n], m)]
<1>1. /\ n \in Range(alive) /\ Stable /\ \A x \in Nodes : node[x].conn = "idle"
      /\ alive' = bl /\ inbox' = Announce(bl, boxes) /\ last' = (IF S = {n} THEN n ELSE last)
      /\ node' = node /\ disk' = disk
  BY DEF Kill, Leave
<1>2. alive \in Seq(Nodes) /\ Distinct(alive) /\ sent \in Nat /\ DOMAIN inbox = Nodes /\ Basic
  BY OrderlyFacts, BasicFacts
<1>3. S \subseteq Nodes /\ S \subseteq Range(alive) /\ \A x \in Nodes : x \in S <=> In(x, node[x], inbox[x], alive)
  BY <1>2, RecoveredIs
<1>4. bl \in Seq(Nodes) /\ Distinct(bl) /\ Range(bl) = Range(alive) \ {n}
  BY <1>2, ListLeave
<1> HIDE DEF bl, Z, m, boxes
<1>5. \A x \in Nodes : inbox'[x] = IF x \in Range(bl) THEN Append(boxes[x], News(bl)) ELSE boxes[x]
  BY <1>1, <1>4, AnnounceIs
<1>6. /\ inbox'[n] = Append(inbox[n], m)
      /\ \A x \in Nodes : x # n =>
            inbox'[x] = IF x \in Range(bl) THEN Append(inbox[x], News(bl)) ELSE inbox[x]
  BY <1>2, <1>4, <1>5 DEF boxes
<1>7. m \in Letter /\ Sensible(m, sent) /\ m.com = "KILL"
  BY Letters DEF Message, m
<1>8. bl = Without(alive, n) /\ Z = S \ {n} /\ n # None
  BY GroupNone DEF bl, Z
<1>9. /\ n \in S /\ Range(alive) \subseteq S
      /\ node[n].main = "run" /\ node[n].stage = "no" /\ ~node[n].killed /\ node[n].view = alive
      /\ \A i \in DOMAIN inbox[n] : inbox[n][i].com \in {"WRITE", "CKPT"}
  BY <1>1, StableIs
<1>10. Grown(inbox[n], inbox'[n], m)
  BY <1>2, <1>6, <1>7, BasicFacts, AppendFacts
<1>11. Place(n, node'[n], inbox'[n], disk'[n], bl, last', Z)
  <2>1. Place(n, node[n], inbox[n], disk[n], alive, last, S) /\ Mem(node[n], inbox[n], n, alive)
    BY OrderlyFacts
  <2>2. Place(n, node[n], inbox'[n], disk[n], bl, last', Z)
    BY <1>1, <1>2, <1>7, <1>8, <1>9, <1>10, <2>1, PlaceToKill
  <2> QED BY <1>1, <2>2
<1>12. ASSUME NEW x \in Nodes, x # n
       PROVE  /\ Holds(inbox'[x], "KILL") <=> Holds(inbox[x], "KILL")
              /\ Place(x, node'[x], inbox'[x], disk'[x], bl, last', Z)
  <2>1. Place(x, node[x], inbox[x], disk[x], alive, last, S) /\ Mem(node[x], inbox[x], x, alive)
    BY OrderlyFacts
  <2>2. x \in Range(bl) => Grown(inbox[x], Append(inbox[x], News(bl)), News(bl))
    <3> SUFFICES ASSUME x \in Range(bl) PROVE Grown(inbox[x], Append(inbox[x], News(bl)), News(bl))
      OBVIOUS
    <3>1. bl # <<>>
      BY <1>4, ListFacts
    <3>2. News(bl) \in Letter /\ Sensible(News(bl), sent)
      BY <1>4, <3>1, Letters
    <3> QED BY <1>2, <3>2, BasicFacts, AppendFacts
  <2>3. \/ x \in Range(bl) /\ Grown(inbox[x], inbox'[x], News(bl))
        \/ x \notin Range(bl) /\ inbox'[x] = inbox[x]
    BY <1>6, <1>12, <2>2
  <2>4. node[x].main # "wait" /\ node[x].link = None
    <3>1. x \in Range(alive) => node[x].main = "run" /\ node[x].stage = "no"
      BY <1>1, StableIs
    <3> QED BY <2>1, <3>1 DEF Mem
  <2>5. Place(x, node[x], inbox'[x], disk[x], bl, last', Z)
    BY <1>1, <1>2, <1>8, <1>12, <2>1, <2>3, <2>4, PlaceLeave
  <2>6. News(bl).com # "KILL"
    BY DEF News, Message
  <2> QED BY <1>1, <2>3, <2>5, <2>6 DEF Grown
<1>13. \A x \in Nodes : x \in Z <=> In(x, node'[x], inbox'[x], alive')
  BY <1>1, <1>3, <1>4, <1>8, <1>12 DEF In
<1>14. \A x \in Nodes : Place(x, node'[x], inbox'[x], disk'[x], alive', last', Z)
  BY <1>1, <1>11, <1>12
<1>15. Z \subseteq Nodes /\ Distinct(alive') /\ \A p \in Nodes : node'[p].conn # "forward"
  BY <1>1, <1>3, <1>4, <1>8
<1> QED BY <1>8, <1>13, <1>14, <1>15, MoveOrder

LEMMA InitOrder == ASSUME Init PROVE Orderly
<1>1. /\ alive = <<>> /\ last = None
      /\ \A n \in Nodes : node[n] = Down /\ inbox[n] = <<>> /\ disk[n] = BlankDisk
  BY DEF Init
<1>2. Range(alive) = {} /\ Recovered(alive) = {}
  BY <1>1, RangeEmpty DEF Recovered
<1>3. \A n \in Nodes : Place(n, node[n], inbox[n], disk[n], alive, last, Recovered(alive))
  BY <1>1, <1>2, PlaceDown
<1>4. Distinct(alive)
  BY <1>1 DEF Distinct
<1>5. Reaches(alive)
  BY <1>1 DEF Reaches, Down, Fresh
<1> QED BY <1>3, <1>4, <1>5, InitBasic DEF Orderly
==============================================================================
