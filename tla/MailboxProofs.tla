---------------------------- MODULE MailboxProofs -----------------------------
(***************************************************************************)
(* Proofs about Mailbox, for every set of users, readers, threads and      *)
(* mails.  A thread works on a copy of the mailbox; the invariants say     *)
(* which other threads there can be, and what the copy is worth.           *)
(***************************************************************************)
EXTENDS Mailbox, Functions, FiniteSetTheorems, TLAPS

------------------------------------------------------------------------------
(* Sequences, and the numbers up to their length.                          *)

LEMMA EmptyConcat ==
    ASSUME NEW S, NEW q \in Seq(S)
    PROVE  <<>> \o q = q
OBVIOUS

\* Nth enumerates the positions K in their order.
LEMMA NthFacts ==
    ASSUME NEW K \in SUBSET Nat, IsFiniteSet(K)
    PROVE  /\ Cardinality(K) \in Nat
           /\ \A k \in 1 .. Cardinality(K) : Nth(K, k) \in K
           /\ \A j, k \in 1 .. Cardinality(K) : j < k => Nth(K, j) < Nth(K, k)
           /\ \A n \in K : \E k \in 1 .. Cardinality(K) : Nth(K, k) = n
<1> DEFINE c == Cardinality(K)
           L(n) == {m \in K : m <= n}
           rank == [n \in K |-> Cardinality(L(n))]
<1>0. \A n \in K : n \in Nat OBVIOUS
<1>1. IsFiniteSet(K) /\ c \in Nat
  BY FS_CardinalityType
<1>2. \A n \in K : /\ IsFiniteSet(L(n)) /\ Cardinality(L(n)) \in Nat
                   /\ Cardinality(L(n)) <= c
                   /\ Cardinality(L(n)) # 0
  <2> SUFFICES ASSUME NEW n \in K
               PROVE  /\ IsFiniteSet(L(n)) /\ Cardinality(L(n)) \in Nat
                      /\ Cardinality(L(n)) <= c
                      /\ Cardinality(L(n)) # 0
    OBVIOUS
  <2>1. L(n) \in SUBSET K /\ n \in L(n) OBVIOUS
  <2> HIDE DEF L
  <2>2. IsFiniteSet(L(n)) /\ Cardinality(L(n)) <= c BY <1>1, <2>1, FS_Subset
  <2>3. Cardinality(L(n)) \in Nat BY <2>2, FS_CardinalityType
  <2>4. Cardinality(L(n)) # 0 BY <2>1, <2>2, FS_EmptySet
  <2> QED BY <2>2, <2>3, <2>4
<1>3. \A n, m \in K : n < m => rank[n] < rank[m]
  <2> SUFFICES ASSUME NEW n \in K, NEW m \in K, n < m
               PROVE  Cardinality(L(n)) < Cardinality(L(m))
    OBVIOUS
  <2>1. L(n) \in SUBSET L(m) /\ m \in L(m) /\ m \notin L(n)
    <3>1. n \in Nat /\ m \in Nat /\ ~(m <= n) /\ m <= m BY <1>0
    <3>2. \A k \in Nat : k <= n => k <= m BY <3>1
    <3> QED BY <1>0, <3>1, <3>2
  <2>2. /\ Cardinality(L(n)) \in Nat /\ Cardinality(L(m)) \in Nat
        /\ IsFiniteSet(L(m))
    BY <1>2
  <2> HIDE DEF L
  <2>3. Cardinality(L(n)) <= Cardinality(L(m)) /\ Cardinality(L(n)) # Cardinality(L(m))
    BY <2>1, <2>2, FS_Subset
  <2> QED BY <2>2, <2>3
<1>4. rank \in [K -> 1 .. c] BY <1>1, <1>2
<1>5. \A n \in K : rank[n] = Cardinality(L(n)) OBVIOUS
<1> HIDE DEF rank, c
<1>6. rank \in Injection(K, 1 .. c)
  <2>1. \A n, m \in K : rank[n] = rank[m] => n = m BY <1>1, <1>3, <1>4
  <2> QED BY <1>4, <2>1 DEF Injection, IsInjective
<1>7. rank \in Surjection(K, 1 .. c)
  <2>1. IsFiniteSet(1 .. c) /\ Cardinality(1 .. c) = c BY <1>1, FS_Interval
  <2> QED BY <1>6, <2>1, FS_Injection DEF c
<1>8. \A k \in 1 .. c : \E n \in K : rank[n] = k BY <1>7 DEF Surjection
<1>9. \A k \in 1 .. c : Nth(K, k) \in K /\ rank[Nth(K, k)] = k
  <2> SUFFICES ASSUME NEW k \in 1 .. c PROVE Nth(K, k) \in K /\ rank[Nth(K, k)] = k
    OBVIOUS
  <2>1. PICK n \in K : Cardinality({m \in K : m <= n}) = k BY <1>5, <1>8
  <2>2. Nth(K, k) \in K /\ Cardinality({m \in K : m <= Nth(K, k)}) = k
    BY <2>1 DEF Nth
  <2> QED BY <1>5, <2>2
<1>10. \A j, k \in 1 .. c : j < k => Nth(K, j) < Nth(K, k)
  <2> SUFFICES ASSUME NEW j \in 1 .. c, NEW k \in 1 .. c, j < k
               PROVE  Nth(K, j) < Nth(K, k)
    OBVIOUS
  <2> DEFINE n == Nth(K, j)
             m == Nth(K, k)
  <2>1. n \in K /\ m \in K /\ rank[n] = j /\ rank[m] = k BY <1>9
  <2>a. j \in Nat /\ k \in Nat OBVIOUS
  <2> HIDE DEF n, m
  <2>b. n \in Nat /\ m \in Nat BY <1>0, <2>1
  <2>2. n \in Nat /\ m \in Nat /\ j \in Nat /\ k \in Nat BY <2>a, <2>b
  <2>3. ~(m < n) /\ m # n BY <1>3, <2>1, <2>2
  <2> QED BY <2>2, <2>3 DEF n, m
<1>11. \A n \in K : \E k \in 1 .. c : Nth(K, k) = n
  <2> SUFFICES ASSUME NEW n \in K PROVE \E k \in 1 .. c : Nth(K, k) = n
    OBVIOUS
  <2>1. rank[n] \in 1 .. c BY <1>4
  <2>2. Nth(K, rank[n]) = n BY <1>6, <1>9, <2>1 DEF Injection, IsInjective
  <2> QED BY <2>1, <2>2
<1> QED BY <1>1, <1>9, <1>10, <1>11 DEF c

\* Positions of a sequence are a finite set.
LEMMA Positions ==
    ASSUME NEW len \in Nat, NEW K \in SUBSET (1 .. len)
    PROVE  K \in SUBSET Nat /\ IsFiniteSet(K)
<1>1. IsFiniteSet(1 .. len) BY FS_Interval
<1>2. IsFiniteSet(K) BY <1>1, FS_Subset
<1> QED BY <1>2

\* Pick takes the elements at K, all of them, once and in their order.
LEMMA PickFacts ==
    ASSUME NEW S, NEW s \in Seq(S), NEW K \in SUBSET (1 .. Len(s))
    PROVE  /\ Pick(s, K) \in Seq(S)
           /\ DOMAIN Pick(s, K) = 1 .. Cardinality(K)
           /\ \E f \in [DOMAIN Pick(s, K) -> K] :
                 /\ \A k \in DOMAIN Pick(s, K) : Pick(s, K)[k] = s[f[k]]
                 /\ \A j, k \in DOMAIN Pick(s, K) : j < k => f[j] < f[k]
                 /\ \A n \in K : \E k \in DOMAIN Pick(s, K) : f[k] = n
<1> DEFINE c == Cardinality(K)
           p == Pick(s, K)
           f == [k \in 1 .. c |-> Nth(K, k)]
<1>n. /\ c \in Nat
      /\ \A k \in 1 .. c : Nth(K, k) \in K
      /\ \A j, k \in 1 .. c : j < k => Nth(K, j) < Nth(K, k)
      /\ \A n \in K : \E k \in 1 .. c : Nth(K, k) = n
  <2>1. Len(s) \in Nat OBVIOUS
  <2>2. K \in SUBSET Nat /\ IsFiniteSet(K) BY <2>1, Positions
  <2> QED BY <2>2, NthFacts
<1> HIDE DEF c
<1>0. f \in [1 .. c -> K] BY <1>n
<1>1. p = [k \in 1 .. c |-> s[Nth(K, k)]] BY DEF Pick, c
<1>2. \A k \in 1 .. c : s[Nth(K, k)] \in S
  <2>1. \A n \in K : s[n] \in S OBVIOUS
  <2> QED BY <1>n, <2>1
<1>3. p \in Seq(S) /\ DOMAIN p = 1 .. c BY <1>n, <1>1, <1>2
<1>4. /\ \A k \in DOMAIN p : p[k] = s[f[k]]
      /\ \A j, k \in DOMAIN p : j < k => f[j] < f[k]
      /\ \A n \in K : \E k \in DOMAIN p : f[k] = n
  BY <1>n, <1>1, <1>3
<1> HIDE DEF f, p
<1> QED BY <1>0, <1>3, <1>4 DEF p, c

\* The principle of induction, for a property given as the set of the numbers
\* that have it: no finite set of numbers is below itself in an endless chain.
LEMMA NatInductionOnSets ==
    ASSUME NEW T, 0 \in T, \A n \in Nat : n \in T => n + 1 \in T
    PROVE  Nat \subseteq T
<1> SUFFICES ASSUME NEW m \in Nat, m \notin T PROVE FALSE
  OBVIOUS
<1> DEFINE R == StrictSubsetOrdering(Nat)
           F == FiniteSubsetsOf(Nat)
           B == {1 .. n : n \in Nat \ T}
<1>1. IsWellFoundedOn(R, F) BY FS_StrictSubsetOrderingWellFounded
<1>2. B \subseteq F
  <2>1. \A n \in Nat : IsFiniteSet(1 .. n) /\ 1 .. n \in SUBSET Nat BY FS_Interval
  <2> QED BY <2>1 DEF FiniteSubsetsOf
<1>3. B # {} OBVIOUS
<1>4. \E x \in B : \A y \in B : ~(<<y, x>> \in R)
  <2> HIDE DEF R, F, B
  <2> QED BY <1>1, <1>2, <1>3, WFMin
<1>5. PICK n \in Nat \ T : \A y \in B : <<y, 1 .. n>> \notin R BY <1>4
<1>6. n # 0 /\ n - 1 \in Nat \ T
  <2>1. n # 0 BY <1>5
  <2>2. n - 1 \in Nat BY <2>1
  <2>3. (n - 1) + 1 = n BY <2>1
  <2> QED BY <2>1, <2>2, <2>3
<1>7. 1 .. (n - 1) \in B BY <1>6
<1>8. <<1 .. (n - 1), 1 .. n>> \in StrictSubsetOrdering(Nat)
  <2>1. 1 .. (n - 1) \in SUBSET Nat /\ 1 .. n \in SUBSET Nat OBVIOUS
  <2>2. n \in 1 .. n /\ n \notin 1 .. (n - 1) BY <1>6
  <2>3. 1 .. (n - 1) \subseteq 1 .. n BY <1>6
  <2> QED BY <2>1, <2>2, <2>3 DEF StrictSubsetOrdering
<1> QED BY <1>5, <1>7, <1>8


------------------------------------------------------------------------------
(* Invariants.                                                             *)

Writing(w) == worker[w].at # "idle" /\ worker[w].op = "write"

\* A thread that is to post a mail has an id for it.
IdTaken ==
    \A w \in Workers :
        Writing(w) /\ worker[w].at \in {"cput", "reload", "refused"} => worker[w].id > 0

TypeInv == TypeOK /\ IdTaken

\* A mail that is being written is not in any mailbox, and one thread writes it.
FreshInv ==
    /\ \A u \in Users : \A n \in DOMAIN mbox[u] :
          <<u, mbox[u][n].body>> \in sent \cup unsure
    /\ \A w \in Workers : Writing(w) =>
          \A u \in Users : <<u, worker[w].body>> \notin sent \cup unsure
    /\ \A v, w \in Workers :
          Writing(v) /\ Writing(w) /\ worker[v].body = worker[w].body => v = w

\* The copy of a thread that is to post it.
Accurate(w) ==
    /\ worker[w].at \in {"load", "cput"}
    /\ worker[w].at = "load" => worker[w].mails = <<>>
    /\ worker[w].at = "cput" => worker[w].text = mbox[worker[w].usr]
                                /\ worker[w].mails = mbox[worker[w].usr]

\* A thread that deletes has the mailbox for itself.
DeleteInv ==
    \A u \in Users : \A w \in Deleting(u) : Busy(u) = {w} /\ Accurate(w)

TwiceInv == TypeInv /\ FreshInv /\ DeleteInv /\ NoMailTwice

\* So has, at the mailbox of a reader, one that writes; it gives a new id.
WriteInv ==
    \A u \in Readers : \A w \in Busy(u) :
        /\ Busy(u) = {w}
        /\ worker[w].op = "write" /\ worker[w].at # "load" =>
              \A n \in DOMAIN mbox[u] : mbox[u][n].id < worker[w].id

IdsInv == TypeInv /\ DeleteInv /\ WriteInv /\ IdsUnique

\* The mail a reader has open is in the mailbox, and nobody has another one; what
\* a thread deletes was asked for.
ViewInv ==
    /\ \A u \in Users : \A m \in open[u] :
          /\ u \in Readers /\ Deleting(u) = {}
          /\ m.id = to_be_deleted
          /\ \E n \in DOMAIN mbox[u] : mbox[u][n] = m
          /\ open[u] = {m} /\ \A v \in Users \ {u} : open[v] = {}
    /\ \A u \in Users : \A w \in Deleting(u) : \A n \in DOMAIN mbox[u] :
          mbox[u][n].id = worker[w].id => <<u, mbox[u][n].body>> \in asked

LostInv == IdsInv /\ ViewInv /\ NoMailLost

------------------------------------------------------------------------------
(* Ids, and what a deletion leaves.                                        *)

\* parse_mails ends with the largest id.
LEMMA MaxIdFacts ==
    ASSUME NEW text \in Text
    PROVE  /\ MaxId(text) \in Nat
           /\ \A n \in DOMAIN text : text[n].id <= MaxId(text)
<1> DEFINE ids == {text[n].id : n \in DOMAIN text} \cup {0}
           Top(k) == \E i \in ids : \A n \in 1 .. k : text[n].id <= i
           T == {k \in Nat : k <= Len(text) => Top(k)}
<1>1. Len(text) \in Nat /\ DOMAIN text = 1 .. Len(text) BY DEF Text
<1>2. \A n \in DOMAIN text : text[n] \in Mail BY <1>1 DEF Text
<1>3. \A i \in ids : i \in Nat BY <1>2 DEF Mail
<1>4. 0 \in T
  <2>1. Top(0) BY <1>3
  <2> QED BY <2>1
<1>5. ASSUME NEW k \in Nat, k \in T PROVE k + 1 \in T
  <2> SUFFICES ASSUME k + 1 <= Len(text) PROVE Top(k + 1)
    OBVIOUS
  <2>1. k <= Len(text) /\ k + 1 \in DOMAIN text BY <1>1
  <2>2. PICK i \in ids : \A n \in 1 .. k : text[n].id <= i BY <1>5, <2>1
  <2> DEFINE j == text[k + 1].id
  <2>3. j \in ids BY <2>1
  <2>4. i \in Nat /\ j \in Nat BY <1>3, <2>3
  <2>5. \A n \in 1 .. k : text[n].id \in Nat BY <1>1, <1>3, <2>1
  <2>6. \A n \in 1 .. k + 1 : n \in 1 .. k \/ n = k + 1 OBVIOUS
  <2> HIDE DEF ids
  <2>7. CASE j <= i
    <3>1. \A n \in 1 .. k + 1 : text[n].id <= i BY <2>2, <2>6, <2>7
    <3> QED BY <2>2, <3>1
  <2>8. CASE ~(j <= i)
    <3>1. \A n \in 1 .. k + 1 : text[n].id <= j
      BY <2>2, <2>4, <2>5, <2>6, <2>8
    <3> QED BY <2>3, <3>1
  <2> QED BY <2>7, <2>8
<1>6. Len(text) \in T
  <2> HIDE DEF T
  <2> QED BY <1>1, <1>4, <1>5, NatInductionOnSets
<1>7. Top(Len(text)) BY <1>1, <1>6
<1>8. \E i \in ids : \A j \in ids : j <= i
  <2>1. PICK i \in ids : \A n \in 1 .. Len(text) : text[n].id <= i BY <1>7
  <2>2. i \in Nat BY <1>3
  <2>3. \A j \in ids : j <= i BY <1>1, <2>1, <2>2
  <2> QED BY <2>3
<1>9. MaxId(text) \in ids /\ \A j \in ids : j <= MaxId(text) BY <1>8 DEF MaxId
<1> QED BY <1>3, <1>9

Kept(s, id) == Pick(s, {n \in DOMAIN s : s[n].id # id})

LEMMA KeptFacts ==
    ASSUME NEW s \in Text, NEW id
    PROVE  /\ Kept(s, id) \in Text
           /\ \A k \in DOMAIN Kept(s, id) : \E n \in DOMAIN s : Kept(s, id)[k] = s[n]
           /\ \A n \in DOMAIN s : s[n].id # id =>
                 \E k \in DOMAIN Kept(s, id) : Kept(s, id)[k] = s[n]
           /\ (\A m, n \in DOMAIN s : s[m].body = s[n].body => m = n) =>
                 \A j, k \in DOMAIN Kept(s, id) :
                     Kept(s, id)[j].body = Kept(s, id)[k].body => j = k
           /\ (\A m, n \in DOMAIN s : s[m].id = s[n].id => m = n) =>
                 \A j, k \in DOMAIN Kept(s, id) :
                     Kept(s, id)[j].id = Kept(s, id)[k].id => j = k
<1> DEFINE K == {n \in DOMAIN s : s[n].id # id}
           p == Kept(s, id)
<1>1. s \in Seq(Mail) /\ Len(s) \in Nat /\ DOMAIN s = 1 .. Len(s) BY DEF Text
<1>2. K \in SUBSET (1 .. Len(s)) BY <1>1
<1>3. p = Pick(s, K) BY DEF Kept
<1> HIDE DEF p, K
<1>4. p \in Text /\ DOMAIN p = 1 .. Cardinality(K) BY <1>1, <1>2, <1>3, PickFacts DEF Text
<1>5. PICK f \in [DOMAIN p -> K] :
          /\ \A k \in DOMAIN p : p[k] = s[f[k]]
          /\ \A j, k \in DOMAIN p : j < k => f[j] < f[k]
          /\ \A n \in K : \E k \in DOMAIN p : f[k] = n
  BY SMTT(40), <1>1, <1>2, <1>3, PickFacts
<1>6. \A k \in DOMAIN p : f[k] \in DOMAIN s /\ f[k] \in Nat
  <2>1. \A n \in K : n \in DOMAIN s /\ n \in Nat BY <1>1 DEF K
  <2> QED BY <2>1
<1>7. \A j, k \in DOMAIN p : f[j] = f[k] => j = k
  <2> SUFFICES ASSUME NEW j \in DOMAIN p, NEW k \in DOMAIN p, f[j] = f[k], j # k
               PROVE  FALSE
    OBVIOUS
  <2>1. Cardinality(K) \in Nat
    <3>1. K \in SUBSET Nat /\ IsFiniteSet(K)
      BY <1>1, <1>2, Positions
    <3> QED BY <3>1, NthFacts
  <2>2. j \in Nat /\ k \in Nat BY <1>4, <2>1
  <2>3. f[j] < f[k] \/ f[k] < f[j] BY <1>5, <2>2
  <2> QED BY <1>6, <2>3
<1>8. \A n \in DOMAIN s : s[n].id # id => \E k \in DOMAIN p : p[k] = s[n]
  BY <1>5 DEF K
<1> QED BY <1>4, <1>5, <1>6, <1>7, <1>8 DEF p

------------------------------------------------------------------------------
(* The steps of a thread.                                                  *)

LEMMA AJob ==
    ASSUME TypeOK, NEW w \in Workers, worker[w].at # "idle"
    PROVE  worker[w] \in Job /\ worker[w].usr \in Users
BY DEF TypeOK, IdleWorker, Job

\* The copy is read: the first time, or again after a CPUT that failed.
LEMMA ReadShape ==
    ASSUME TypeInv, NEW w \in Workers, Load(w) \/ Reload(w)
    PROVE  /\ worker[w] \in Job
           /\ \A v \in Workers \ {w} : worker'[v] = worker[v]
           /\ worker' \in [Workers -> Job \cup {IdleWorker}]
           /\ worker'[w].at = "cput"
           /\ worker'[w].op = worker[w].op
           /\ worker'[w].usr = worker[w].usr
           /\ worker'[w].body = worker[w].body
           /\ worker'[w].text = mbox[worker[w].usr]
           /\ worker'[w].mails = worker[w].mails \o mbox[worker[w].usr]
           /\ worker[w].op = "write" =>
                 IF worker[w].at = "load"
                 THEN worker'[w].id = MaxId(mbox[worker[w].usr]) + 1
                 ELSE worker'[w].id = worker[w].id
           /\ worker[w].op = "del" => worker'[w].id = worker[w].id
           /\ worker[w].at = "load" <=> Load(w)
           /\ UNCHANGED <<mbox, to_be_deleted, open, sent, unsure, asked>>
<1> DEFINE x == worker[w]
           text == mbox[x.usr]
           mails == x.mails \o text
<1>1. x \in Job /\ x.usr \in Users BY AJob DEF TypeInv, Load, Reload
<1>2. text \in Text /\ mails \in Text BY <1>1 DEF TypeInv, TypeOK, Job, Text
<1>3. worker \in [Workers -> Job \cup {IdleWorker}] BY DEF TypeInv, TypeOK
<1>4. CASE Load(w)
  <2> DEFINE id == IF x.op = "write" THEN MaxId(text) + 1 ELSE x.id
             y == [x EXCEPT !.at = "cput", !.text = text, !.mails = mails, !.id = id]
  <2>1. id \in Nat BY <1>1, <1>2, MaxIdFacts DEF Job
  <2>2. worker' = [worker EXCEPT ![w] = y]
    BY <1>3, <1>4 DEF Load, Reread, Reloaded, FirstId
  <2> HIDE DEF id, mails, text
  <2>3. /\ y \in Job /\ y.at = "cput" /\ y.op = x.op /\ y.usr = x.usr /\ y.body = x.body
        /\ y.text = text /\ y.mails = mails /\ y.id = id
    BY <1>1, <1>2, <2>1 DEF Job
  <2> HIDE DEF y
  <2>4. worker'[w] = y /\ worker' \in [Workers -> Job \cup {IdleWorker}]
        /\ \A v \in Workers \ {w} : worker'[v] = worker[v]
    BY <1>3, <2>2, <2>3
  <2>5. x.at = "load" /\ UNCHANGED <<mbox, to_be_deleted, open, sent, unsure, asked>>
    BY <1>4 DEF Load
  <2> QED BY <1>1, <1>4, <2>3, <2>4, <2>5 DEF id, mails, text
<1>5. CASE Reload(w)
  <2> DEFINE y == [x EXCEPT !.at = "cput", !.text = text, !.mails = mails]
  <2>2. worker' = [worker EXCEPT ![w] = y] BY <1>3, <1>5 DEF Reload, Reread, Reloaded
  <2> HIDE DEF mails, text
  <2>3. /\ y \in Job /\ y.at = "cput" /\ y.op = x.op /\ y.usr = x.usr /\ y.body = x.body
        /\ y.text = text /\ y.mails = mails /\ y.id = x.id
    BY <1>1, <1>2 DEF Job
  <2> HIDE DEF y
  <2>4. worker'[w] = y /\ worker' \in [Workers -> Job \cup {IdleWorker}]
        /\ \A v \in Workers \ {w} : worker'[v] = worker[v]
    BY <1>3, <2>2, <2>3
  <2>5. x.at \in {"reload", "refused"} /\ UNCHANGED <<mbox, to_be_deleted, open, sent, unsure, asked>>
    BY <1>5 DEF Reload
  <2>6. ~Load(w) BY <2>5 DEF Load
  <2> QED BY <1>1, <1>5, <2>3, <2>4, <2>5, <2>6 DEF mails, text
<1> QED BY <1>4, <1>5

\* A CPUT that is executed: its thread has posted the mailbox it holds.
Posted(w) ==
    /\ worker[w].at = "cput"
    /\ mbox[worker[w].usr] = worker[w].text
    /\ mbox' = [mbox EXCEPT ![worker[w].usr] = PostText(w)]
    /\ worker' = [worker EXCEPT ![w] = IdleWorker]
    /\ sent' \cup unsure' = sent \cup unsure \cup
          (IF worker[w].op = "write" THEN {<<worker[w].usr, worker[w].body>>} ELSE {})
    /\ sent' \subseteq
          sent \cup (IF worker[w].op = "write" THEN {<<worker[w].usr, worker[w].body>>} ELSE {})
    /\ UNCHANGED <<to_be_deleted, open, asked>>

GaveUp(w) ==
    /\ worker[w].at # "idle"
    /\ worker' = [worker EXCEPT ![w] = IdleWorker]
    /\ unsure' = IF worker[w].op = "write"
                 THEN unsure \cup {<<worker[w].usr, worker[w].body>>} ELSE unsure
    /\ UNCHANGED <<mbox, sent, to_be_deleted, open, asked>>

\* The CPUT fails: another thread was faster, or it is refused; or there is no
\* answer.
Failed(w) ==
    /\ worker[w].at \notin {"idle", "hung"}
    /\ \E at \in {"reload", "refused", "hung"} :
          /\ worker' = [worker EXCEPT ![w].at = at]
          /\ at # "hung" =>
                /\ worker[w].at = "cput"
                /\ \/ mbox[worker[w].usr] # worker[w].text
                   \/ worker[w].op = "write" \/ "overlapDelete" \in Hazards
    /\ UNCHANGED <<mbox, sent, unsure, to_be_deleted, open, asked>>

Act(w) == Step(w) \/ Fault(w)

LEMMA StepShape ==
    ASSUME TypeInv, NEW w \in Workers, Act(w)
    PROVE  /\ worker[w] \in Job
           /\ Load(w) \/ Reload(w) \/ Posted(w) \/ GaveUp(w) \/ Failed(w)
<1>1. worker[w] \in Job
  BY AJob DEF TypeInv, Act, Step, Fault, Load, Reload, Cput, Refused, Silent, LinkError
<1>2. CASE Cput(w)
  <2>1. Posted(w) \/ Failed(w) BY <1>2 DEF Cput, Unchanged, Finish, Posted, Failed
  <2> QED BY <1>1, <2>1
<1>3. CASE LinkError(w)
  <2>1. CASE mbox' = mbox BY <1>1, <1>3, <2>1 DEF LinkError, Finish, GaveUp
  <2>2. CASE mbox' # mbox BY <1>1, <1>3, <2>2 DEF LinkError, Finish, Unchanged, Posted
  <2> QED BY <2>1, <2>2
<1>4. CASE Refused(w) \/ Silent(w)
  BY <1>1, <1>4 DEF Refused, Silent, Failed
<1> QED BY <1>1, <1>2, <1>3, <1>4 DEF Act, Step, Fault

\* What is posted: one mail more, or fewer.
LEMMA PostShape ==
    ASSUME TypeInv, NEW w \in Workers, Posted(w)
    PROVE  /\ worker[w] \in Job
           /\ worker[w].op = "write" =>
                 /\ [id |-> worker[w].id, body |-> worker[w].body] \in Mail
                 /\ PostText(w) = Append(mbox[worker[w].usr],
                                         [id |-> worker[w].id, body |-> worker[w].body])
           /\ worker[w].op = "del" => PostText(w) = Kept(worker[w].mails, worker[w].id)
           /\ PostText(w) \in Text
<1>1. worker[w] \in Job /\ worker[w].usr \in Users BY AJob DEF TypeInv, Posted
<1>2. CASE worker[w].op = "write"
  <2>1. worker[w].id \in Nat \ {0}
    BY <1>1, <1>2 DEF TypeInv, IdTaken, Writing, Posted, Job
  <2>2. [id |-> worker[w].id, body |-> worker[w].body] \in Mail
    BY <1>1, <2>1 DEF Mail, Job
  <2>3. PostText(w) = Append(mbox[worker[w].usr],
                             [id |-> worker[w].id, body |-> worker[w].body])
    BY <1>2 DEF PostText, Posted
  <2>4. mbox[worker[w].usr] \in Text BY <1>1 DEF TypeInv, TypeOK
  <2> QED BY <1>1, <1>2, <2>2, <2>3, <2>4 DEF Text
<1>3. CASE worker[w].op = "del"
  <2>1. PostText(w) = Kept(worker[w].mails, worker[w].id) BY <1>3 DEF PostText, Kept
  <2>2. worker[w].mails \in Text BY <1>1 DEF Job
  <2> QED BY <1>1, <1>3, <2>1, <2>2, KeptFacts
<1> QED BY <1>1, <1>2, <1>3 DEF Job

LEMMA BeginShape ==
    ASSUME TypeOK, NEW w \in Workers, NEW u \in Users, NEW op \in {"write", "del"},
           NEW id \in Nat, NEW body \in Bodies, Begin(w, op, u, id, body)
    PROVE  /\ worker' \in [Workers -> Job \cup {IdleWorker}]
           /\ \A v \in Workers \ {w} : worker'[v] = worker[v]
           /\ worker'[w].at = "load" /\ worker'[w].op = op /\ worker'[w].usr = u
           /\ worker'[w].id = id /\ worker'[w].body = body /\ worker'[w].mails = <<>>
<1> DEFINE y == [at |-> "load", op |-> op, usr |-> u, id |-> id, body |-> body,
                 text |-> <<>>, mails |-> <<>>]
<1>1. <<>> \in Text BY DEF Text
<1>2. y \in Job BY <1>1 DEF Job
<1>3. worker' = [worker EXCEPT ![w] = y] BY DEF Begin
<1>4. worker \in [Workers -> Job \cup {IdleWorker}] BY DEF TypeOK
<1>5. y.at = "load" /\ y.op = op /\ y.usr = u /\ y.id = id /\ y.body = body
      /\ y.mails = <<>>
  OBVIOUS
<1> HIDE DEF y
<1> QED BY <1>2, <1>3, <1>4, <1>5

LEMMA DeleteShape ==
    ASSUME TypeOK, NEW w \in Workers, NEW u \in Readers, DeleteMail(w, u)
    PROVE  /\ u \in Users
           /\ worker' \in [Workers -> Job \cup {IdleWorker}]
           /\ \A v \in Workers \ {w} : worker'[v] = worker[v]
           /\ worker'[w].at = "load" /\ worker'[w].op = "del" /\ worker'[w].usr = u
           /\ worker'[w].id = to_be_deleted /\ worker'[w].mails = <<>>
           /\ \E m \in open[u] :
                 /\ m \in Mail
                 /\ open' = IF "again" \in Hazards THEN open
                            ELSE [open EXCEPT ![u] = @ \ {m}]
                 /\ asked' = asked \cup {<<u, m.body>>}
           /\ UNCHANGED <<mbox, to_be_deleted, sent, unsure>>
<1>0. PICK m \in open[u] :
         /\ Begin(w, "del", u, to_be_deleted, m.body)
         /\ asked' = asked \cup {<<u, m.body>>}
         /\ open' = IF "again" \in Hazards THEN open ELSE [open EXCEPT ![u] = @ \ {m}]
  BY DEF DeleteMail
<1>1. u \in Users /\ m \in Mail BY ReadersAssumption DEF TypeOK
<1>2. m.body \in Bodies /\ to_be_deleted \in Nat BY <1>1 DEF Mail, TypeOK
<1>3. Begin(w, "del", u, to_be_deleted, m.body) BY <1>0
<1>4. /\ worker' \in [Workers -> Job \cup {IdleWorker}]
      /\ \A v \in Workers \ {w} : worker'[v] = worker[v]
      /\ worker'[w].at = "load" /\ worker'[w].op = "del" /\ worker'[w].usr = u
      /\ worker'[w].id = to_be_deleted /\ worker'[w].mails = <<>>
  BY <1>1, <1>2, <1>3, BeginShape
<1> QED BY <1>0, <1>1, <1>4 DEF DeleteMail

LEMMA DeliverShape ==
    ASSUME TypeOK, NEW w \in Workers, NEW u \in Users, NEW body \in Bodies,
           Deliver(w, u, body)
    PROVE  /\ worker' \in [Workers -> Job \cup {IdleWorker}]
           /\ \A v \in Workers \ {w} : worker'[v] = worker[v]
           /\ worker'[w].at = "load" /\ worker'[w].op = "write" /\ worker'[w].usr = u
           /\ worker'[w].body = body /\ worker'[w].mails = <<>>
           /\ UNCHANGED <<mbox, to_be_deleted, open, sent, unsure, asked>>
BY BeginShape DEF Deliver

LEMMA AMail ==
    ASSUME TypeOK, NEW u \in Users, NEW n \in DOMAIN mbox[u]
    PROVE  /\ mbox[u] \in Seq(Mail) /\ mbox[u][n] \in Mail
           /\ mbox[u][n].id \in Nat \ {0} /\ mbox[u][n].body \in Bodies
<1>1. mbox[u] \in Seq(Mail) BY DEF TypeOK, Text
<1>2. mbox[u][n] \in Mail BY <1>1
<1> QED BY <1>1, <1>2 DEF Mail

LEMMA TypeStep ==
    ASSUME TypeInv, [Next]_vars
    PROVE  TypeInv'
<1>0. TypeOK /\ IdTaken BY DEF TypeInv
<1>1. ASSUME NEW w \in Workers, Load(w) \/ Reload(w) PROVE TypeInv'
  <2>0. /\ worker[w] \in Job
        /\ \A v \in Workers \ {w} : worker'[v] = worker[v]
        /\ worker' \in [Workers -> Job \cup {IdleWorker}]
        /\ worker'[w].op = worker[w].op
        /\ worker[w].op = "write" =>
              IF worker[w].at = "load"
              THEN worker'[w].id = MaxId(mbox[worker[w].usr]) + 1
              ELSE worker'[w].id = worker[w].id
        /\ worker[w].at = "load" <=> Load(w)
        /\ UNCHANGED <<mbox, to_be_deleted, open, sent, unsure, asked>>
    BY <1>1, ReadShape
  <2>1. TypeOK' BY <1>0, <2>0 DEF TypeOK
  <2>2. MaxId(mbox[worker[w].usr]) \in Nat
    BY <1>0, <2>0, MaxIdFacts DEF Job, TypeOK
  <2>3. worker[w].op = "write" => worker'[w].id > 0
    BY <1>0, <1>1, <2>0, <2>2 DEF IdTaken, Writing, Reload
  <2>4. IdTaken' BY <1>0, <2>0, <2>3 DEF IdTaken, Writing
  <2> QED BY <2>1, <2>4 DEF TypeInv
<1>2. ASSUME NEW w \in Workers, Posted(w) PROVE TypeInv'
  <2>0. worker[w] \in Job /\ PostText(w) \in Text BY <1>2, PostShape
  <2>1. worker' = [worker EXCEPT ![w] = IdleWorker]
        /\ mbox' = [mbox EXCEPT ![worker[w].usr] = PostText(w)]
        /\ UNCHANGED <<to_be_deleted, open, asked>>
    BY <1>2 DEF Posted
  <2>2. <<worker[w].usr, worker[w].body>> \in Users \X Bodies BY <2>0 DEF Job
  <2>3. sent' \subseteq Users \X Bodies /\ unsure' \subseteq Users \X Bodies
    BY <1>0, <1>2, <2>2 DEF Posted, TypeOK
  <2>4. mbox' \in [Users -> Text] BY <1>0, <2>0, <2>1 DEF TypeOK
  <2>5. TypeOK' BY <1>0, <2>1, <2>3, <2>4 DEF TypeOK
  <2>6. IdTaken' BY <1>0, <2>1 DEF TypeOK, IdTaken, Writing, IdleWorker
  <2> QED BY <2>5, <2>6 DEF TypeInv
<1>3. ASSUME NEW w \in Workers, GaveUp(w), worker[w] \in Job PROVE TypeInv'
  <2>1. <<worker[w].usr, worker[w].body>> \in Users \X Bodies BY <1>3 DEF Job
  <2>2. TypeOK' BY <1>0, <1>3, <2>1 DEF TypeOK, GaveUp
  <2>3. IdTaken' BY <1>0, <1>3 DEF TypeOK, IdTaken, Writing, IdleWorker, GaveUp
  <2> QED BY <2>2, <2>3 DEF TypeInv
<1>4. ASSUME NEW w \in Workers, Failed(w), worker[w] \in Job PROVE TypeInv'
  <2>0. PICK at \in {"reload", "refused", "hung"} :
           /\ worker' = [worker EXCEPT ![w].at = at]
           /\ at # "hung" => worker[w].at = "cput"
    BY <1>4 DEF Failed
  <2> DEFINE y == [worker[w] EXCEPT !.at = at]
  <2>1. worker' = [worker EXCEPT ![w] = y] BY <1>0, <2>0 DEF TypeOK
  <2>2. /\ y \in Job /\ y.id = worker[w].id /\ y.op = worker[w].op
        /\ y.at # "hung" => worker[w].at = "cput"
    BY <1>4, <2>0 DEF Job
  <2> HIDE DEF y
  <2>3. TypeOK' BY <1>0, <1>4, <2>1, <2>2 DEF TypeOK, Failed
  <2>4. worker'[w] = y /\ \A v \in Workers \ {w} : worker'[v] = worker[v]
    BY <1>0, <2>1 DEF TypeOK
  <2>5. IdTaken' BY <1>0, <1>4, <2>2, <2>4 DEF IdTaken, Writing, Failed
  <2> QED BY <2>3, <2>5 DEF TypeInv
<1>5. ASSUME NEW w \in Workers, NEW u \in Users, NEW body \in Bodies, Deliver(w, u, body)
      PROVE  TypeInv'
  <2>1. /\ worker' \in [Workers -> Job \cup {IdleWorker}]
        /\ \A v \in Workers \ {w} : worker'[v] = worker[v]
        /\ worker'[w].at = "load"
        /\ UNCHANGED <<mbox, to_be_deleted, open, sent, unsure, asked>>
    BY <1>0, <1>5, DeliverShape
  <2> QED BY <1>0, <2>1 DEF TypeInv, TypeOK, IdTaken, Writing
<1>6. ASSUME NEW w \in Workers, NEW u \in Readers, DeleteMail(w, u) PROVE TypeInv'
  <2>1. /\ u \in Users
        /\ worker' \in [Workers -> Job \cup {IdleWorker}]
        /\ \A v \in Workers \ {w} : worker'[v] = worker[v]
        /\ worker'[w].at = "load"
        /\ UNCHANGED <<mbox, to_be_deleted, sent, unsure>>
    BY <1>0, <1>6, DeleteShape
  <2>2. PICK m \in open[u] :
           /\ m \in Mail
           /\ open' = IF "again" \in Hazards THEN open ELSE [open EXCEPT ![u] = @ \ {m}]
           /\ asked' = asked \cup {<<u, m.body>>}
    BY <1>0, <1>6, DeleteShape
  <2>3. asked' \subseteq Users \X Bodies BY <1>0, <2>1, <2>2 DEF Mail, TypeOK
  <2>4. open' \in [Users -> SUBSET Mail] BY <1>0, <2>1, <2>2 DEF TypeOK
  <2> QED BY <1>0, <2>1, <2>3, <2>4 DEF TypeInv, TypeOK, IdTaken, Writing
<1>7. ASSUME NEW u \in Readers, NEW n \in 1 .. MaxLen, Display(u, n) PROVE TypeInv'
  <2>1. u \in Users BY ReadersAssumption
  <2>2. mbox[u][n] \in Mail /\ mbox[u][n].id \in Nat
    BY <1>0, <1>7, <2>1, AMail DEF Display
  <2>3. open' \in [Users -> SUBSET Mail] BY <1>0, <1>7, <2>1, <2>2 DEF TypeOK, Display
  <2> QED BY <1>0, <1>7, <2>2, <2>3 DEF TypeInv, TypeOK, IdTaken, Writing, Display
<1>8. ASSUME NEW u \in Readers, Leave(u) PROVE TypeInv'
  <2>1. u \in Users BY ReadersAssumption
  <2>2. open' \in [Users -> SUBSET Mail] BY <1>0, <1>8, <2>1 DEF TypeOK, Leave
  <2> QED BY <1>0, <1>8, <2>2 DEF TypeInv, TypeOK, IdTaken, Writing, Leave
<1>9. CASE UNCHANGED vars BY <1>0, <1>9 DEF TypeInv, TypeOK, IdTaken, Writing, vars
<1>10. ASSUME NEW w \in Workers, Act(w) PROVE TypeInv'
  BY <1>1, <1>2, <1>3, <1>4, <1>10, StepShape
<1> QED BY <1>5, <1>6, <1>7, <1>8, <1>9, <1>10 DEF Next, Act

LEMMA TypeInit == Init => TypeInv
<1> SUFFICES ASSUME Init PROVE TypeInv
  OBVIOUS
<1>1. <<>> \in Text BY DEF Text
<1>2. TypeOK BY <1>1 DEF Init, TypeOK
<1>3. IdTaken BY DEF Init, IdTaken, Writing, IdleWorker
<1> QED BY <1>2, <1>3 DEF TypeInv

(***************************************************************************)
(* The state of the mailboxes and of the threads is of its type: every     *)
(* mail in a mailbox has an id above 0 (parse_mails counts from 1), also   *)
(* after retries and broken connections.                                   *)
(***************************************************************************)
THEOREM MailboxTypeCorrect == Spec => []TypeOK
<1>1. TypeInv => TypeOK BY DEF TypeInv
<1> QED BY <1>1, TypeInit, TypeStep, PTL DEF Spec

------------------------------------------------------------------------------
(* No mail twice.                                                          *)

\* What a thread that deletes posts, it has from the mailbox as it is.
LEMMA PostedBodies ==
    ASSUME TypeInv, DeleteInv, NEW w \in Workers, Posted(w)
    PROVE  LET u == worker[w].usr
               m == [id |-> worker[w].id, body |-> worker[w].body] IN
           /\ u \in Users /\ worker[w].op \in {"write", "del"}
           /\ mbox'[u] = PostText(w) /\ \A v \in Users \ {u} : mbox'[v] = mbox[v]
           /\ worker[w].op = "write" =>
                 m \in Mail /\ PostText(w) = Append(mbox[u], m)
           /\ worker[w].op = "del" => PostText(w) = Kept(mbox[u], worker[w].id)
<1> DEFINE u == worker[w].usr
<1>1. worker[w] \in Job /\ u \in Users /\ worker[w].op \in {"write", "del"}
  BY PostShape DEF Job
<1>2. worker[w].op = "del" => worker[w].mails = mbox[u]
  BY <1>1 DEF DeleteInv, Deleting, Busy, Accurate, Posted
<1>3. mbox'[u] = PostText(w) /\ \A v \in Users \ {u} : mbox'[v] = mbox[v]
  BY <1>1 DEF Posted, TypeInv, TypeOK
<1> QED BY <1>1, <1>2, <1>3, PostShape

\* Threads other than w do what they did.
LEMMA Idled ==
    ASSUME TypeOK, NEW w \in Workers, worker' = [worker EXCEPT ![w] = IdleWorker]
    PROVE  worker'[w].at = "idle" /\ \A v \in Workers \ {w} : worker'[v] = worker[v]
BY DEF TypeOK, IdleWorker

LEMMA FailedShape ==
    ASSUME TypeOK, NEW w \in Workers, worker[w] \in Job, Failed(w)
    PROVE  /\ \A v \in Workers \ {w} : worker'[v] = worker[v]
           /\ worker'[w].at \in {"reload", "refused", "hung"} /\ worker'[w].op = worker[w].op
           /\ worker'[w].at # "hung" =>
                 /\ worker[w].at = "cput"
                 /\ \/ mbox[worker[w].usr] # worker[w].text
                   \/ worker[w].op = "write" \/ "overlapDelete" \in Hazards
           /\ worker'[w].usr = worker[w].usr /\ worker'[w].body = worker[w].body
           /\ worker'[w].id = worker[w].id
<1>0. PICK at \in {"reload", "refused", "hung"} :
         /\ worker' = [worker EXCEPT ![w].at = at]
         /\ at # "hung" =>
               /\ worker[w].at = "cput"
               /\ \/ mbox[worker[w].usr] # worker[w].text
                   \/ worker[w].op = "write" \/ "overlapDelete" \in Hazards
  BY DEF Failed
<1> DEFINE y == [worker[w] EXCEPT !.at = at]
<1>1. worker' = [worker EXCEPT ![w] = y] BY <1>0 DEF TypeOK
<1>2. /\ y.at = at /\ y.op = worker[w].op /\ y.usr = worker[w].usr
      /\ y.body = worker[w].body /\ y.id = worker[w].id
  BY DEF Job
<1> HIDE DEF y
<1> QED BY <1>0, <1>1, <1>2 DEF TypeOK

LEMMA FreshStep ==
    ASSUME TypeInv, DeleteInv, FreshInv, [Next]_vars
    PROVE  FreshInv'
<1>0. TypeOK BY DEF TypeInv
\* A step that begins no writing and leaves mailboxes and history alone.
<1>1. ASSUME UNCHANGED <<mbox, sent, unsure>>,
             \A v \in Workers : Writing(v)' =>
                 Writing(v) /\ worker'[v].body = worker[v].body
      PROVE  FreshInv'
  BY <1>1 DEF FreshInv
<1>2. ASSUME NEW w \in Workers, Load(w) \/ Reload(w) PROVE FreshInv'
  <2>1. /\ \A v \in Workers \ {w} : worker'[v] = worker[v]
        /\ worker'[w].op = worker[w].op /\ worker'[w].body = worker[w].body
        /\ UNCHANGED <<mbox, sent, unsure>>
    BY <1>2, ReadShape
  <2>2. worker[w].at # "idle" BY <1>2 DEF Load, Reload
  <2> QED BY <1>1, <2>1, <2>2 DEF Writing
<1>3. ASSUME NEW w \in Workers, Failed(w), worker[w] \in Job PROVE FreshInv'
  <2>1. /\ \A v \in Workers \ {w} : worker'[v] = worker[v]
        /\ worker'[w].op = worker[w].op /\ worker'[w].body = worker[w].body
    BY <1>0, <1>3, FailedShape
  <2>2. UNCHANGED <<mbox, sent, unsure>> /\ worker[w].at # "idle" BY <1>3 DEF Failed
  <2> QED BY <1>1, <2>1, <2>2 DEF Writing
<1>4. ASSUME NEW w \in Workers, worker[w].at # "idle",
             worker' = [worker EXCEPT ![w] = IdleWorker],
             sent' \cup unsure' = sent \cup unsure \cup
               (IF worker[w].op = "write" THEN {<<worker[w].usr, worker[w].body>>} ELSE {}),
             \A u \in Users : \A n \in DOMAIN mbox'[u] :
               <<u, mbox'[u][n].body>> \in sent' \cup unsure'
      PROVE  FreshInv'
  <2>1. worker'[w].at = "idle" /\ \A v \in Workers \ {w} : worker'[v] = worker[v]
    BY <1>0, <1>4, Idled
  <2>2. ASSUME NEW v \in Workers, Writing(v)', NEW u \in Users
        PROVE  <<u, worker'[v].body>> \notin sent' \cup unsure'
    <3>1. v # w /\ worker'[v] = worker[v] /\ Writing(v) BY <2>1, <2>2 DEF Writing
    <3>2. <<u, worker[v].body>> \notin sent \cup unsure BY <3>1 DEF FreshInv
    <3>3. worker[w].op = "write" => worker[v].body # worker[w].body
      BY <1>4, <3>1 DEF FreshInv, Writing
    <3> QED BY <1>4, <3>1, <3>2, <3>3
  <2>3. ASSUME NEW v \in Workers, NEW x \in Workers, Writing(v)', Writing(x)',
               worker'[v].body = worker'[x].body
        PROVE  v = x
    BY <2>1, <2>3 DEF FreshInv, Writing
  <2> QED BY <1>4, <2>2, <2>3 DEF FreshInv
<1>5. ASSUME NEW w \in Workers, Posted(w) PROVE FreshInv'
  <2> DEFINE u == worker[w].usr
             b == worker[w].body
             m == [id |-> worker[w].id, body |-> b]
  <2>1. /\ u \in Users /\ worker[w].op \in {"write", "del"}
        /\ mbox'[u] = PostText(w) /\ \A v \in Users \ {u} : mbox'[v] = mbox[v]
        /\ worker[w].op = "write" => m \in Mail /\ PostText(w) = Append(mbox[u], m)
        /\ worker[w].op = "del" => PostText(w) = Kept(mbox[u], worker[w].id)
    BY <1>5, PostedBodies
  <2>2. sent' \cup unsure' = sent \cup unsure \cup
          (IF worker[w].op = "write" THEN {<<u, b>>} ELSE {})
    BY <1>5 DEF Posted
  <2>3. mbox[u] \in Seq(Mail) /\ mbox[u] \in Text BY <1>0, <2>1 DEF TypeOK, Text
  <2>4. ASSUME NEW n \in DOMAIN mbox'[u] PROVE <<u, mbox'[u][n].body>> \in sent' \cup unsure'
    <3>1. CASE worker[w].op = "write"
      <4>1. mbox'[u] = Append(mbox[u], m) BY <2>1, <3>1
      <4>2. mbox'[u][n] = m \/ (n \in DOMAIN mbox[u] /\ mbox'[u][n] = mbox[u][n])
        BY <2>3, <4>1
      <4>3. CASE mbox'[u][n] = m BY <2>2, <3>1, <4>3
      <4>4. CASE n \in DOMAIN mbox[u] /\ mbox'[u][n] = mbox[u][n]
        BY <2>1, <2>2, <4>4 DEF FreshInv
      <4> QED BY <4>2, <4>3, <4>4
    <3>2. CASE worker[w].op = "del"
      <4>1. PICK k \in DOMAIN mbox[u] : mbox'[u][n] = mbox[u][k]
        BY <2>1, <2>3, <3>2, KeptFacts
      <4> QED BY <2>1, <2>2, <4>1 DEF FreshInv
    <3> QED BY <2>1, <3>1, <3>2
  <2>5. \A v \in Users : \A n \in DOMAIN mbox'[v] :
            <<v, mbox'[v][n].body>> \in sent' \cup unsure'
    BY <2>1, <2>2, <2>4 DEF FreshInv
  <2>6. worker[w].at # "idle" /\ worker' = [worker EXCEPT ![w] = IdleWorker]
    BY <1>5 DEF Posted
  <2> QED BY <1>4, <2>2, <2>5, <2>6
<1>6. ASSUME NEW w \in Workers, GaveUp(w), worker[w] \in Job PROVE FreshInv'
  <2>1. worker[w].at # "idle" BY <1>6 DEF Job
  <2>2. mbox' = mbox /\ worker' = [worker EXCEPT ![w] = IdleWorker]
        /\ sent' \cup unsure' = sent \cup unsure \cup
             (IF worker[w].op = "write" THEN {<<worker[w].usr, worker[w].body>>} ELSE {})
    BY <1>6 DEF GaveUp
  <2>3. \A u \in Users : \A n \in DOMAIN mbox'[u] :
            <<u, mbox'[u][n].body>> \in sent' \cup unsure'
    BY <2>2 DEF FreshInv
  <2> QED BY <1>4, <2>1, <2>2, <2>3
<1>7. ASSUME NEW w \in Workers, Act(w) PROVE FreshInv'
  BY <1>2, <1>3, <1>5, <1>6, <1>7, StepShape
<1>8. ASSUME NEW w \in Workers, NEW u \in Users, NEW body \in Bodies, Deliver(w, u, body)
      PROVE  FreshInv'
  <2>1. /\ \A v \in Workers \ {w} : worker'[v] = worker[v]
        /\ worker'[w].body = body
        /\ UNCHANGED <<mbox, sent, unsure>>
    BY <1>0, <1>8, DeliverShape
  <2>2. Fresh(body) BY <1>8 DEF Deliver
  <2>3. ASSUME NEW v \in Workers, Writing(v)', NEW x \in Users
        PROVE  <<x, worker'[v].body>> \notin sent' \cup unsure'
    BY <2>1, <2>2, <2>3 DEF Fresh, FreshInv, Writing
  <2>4. ASSUME NEW v \in Workers, NEW x \in Workers, Writing(v)', Writing(x)',
               worker'[v].body = worker'[x].body
        PROVE  v = x
    BY <2>1, <2>2, <2>4 DEF Fresh, FreshInv, Writing
  <2> QED BY <2>1, <2>3, <2>4 DEF FreshInv
<1>9. ASSUME NEW w \in Workers, NEW u \in Readers, DeleteMail(w, u) PROVE FreshInv'
  <2>1. /\ \A v \in Workers \ {w} : worker'[v] = worker[v]
        /\ worker'[w].op = "del"
        /\ UNCHANGED <<mbox, sent, unsure>>
    BY <1>0, <1>9, DeleteShape
  <2> QED BY <1>1, <2>1 DEF Writing
<1>10. ASSUME UNCHANGED <<mbox, worker, sent, unsure>> PROVE FreshInv'
  BY <1>1, <1>10 DEF Writing
<1>11. ASSUME NEW u \in Readers, (\E n \in 1 .. MaxLen : Display(u, n)) \/ Leave(u)
       PROVE  UNCHANGED <<mbox, worker, sent, unsure>>
  BY <1>11 DEF Display, Leave
<1> QED BY <1>7, <1>8, <1>9, <1>10, <1>11 DEF Next, Act, vars

\* A copy stays what it is worth in a step that changes neither it nor the
\* mailbox.
LEMMA StaysAccurate ==
    ASSUME NEW w, Accurate(w), worker'[w] = worker[w],
           mbox'[worker[w].usr] = mbox[worker[w].usr]
    PROVE  Accurate(w)'
BY DEF Accurate

LEMMA ReadsAccurate ==
    ASSUME TypeInv, NEW w \in Workers, Accurate(w), Load(w) \/ Reload(w)
    PROVE  Accurate(w)'
<1>1. worker[w].at = "load" BY DEF Accurate, Load, Reload
<1>2. mbox[worker[w].usr] \in Seq(Mail) /\ worker[w].mails = <<>>
  BY <1>1, AJob DEF TypeInv, TypeOK, Text, Accurate
<1>3. <<>> \o mbox[worker[w].usr] = mbox[worker[w].usr] BY <1>2, EmptyConcat
<1>4. /\ worker'[w].at = "cput" /\ worker'[w].text = mbox[worker[w].usr]
      /\ worker'[w].usr = worker[w].usr
      /\ worker'[w].mails = worker[w].mails \o mbox[worker[w].usr] /\ mbox' = mbox
  BY ReadShape
<1> QED BY <1>2, <1>3, <1>4 DEF Accurate

LEMMA DeleteStep ==
    ASSUME TypeInv, DeleteInv, [Next]_vars, "overlapDelete" \notin Hazards
    PROVE  DeleteInv'
<1>0. TypeOK BY DEF TypeInv
<1> DEFINE Alone(u, w) == Busy(u) = {w} /\ Accurate(w)
<1>b. /\ \A u, w : w \in Busy(u) <=>
             w \in Workers /\ worker[w].at \notin {"idle", "hung"} /\ worker[w].usr = u
      /\ \A u, w : w \in Busy(u)' <=>
             w \in Workers /\ worker'[w].at \notin {"idle", "hung"} /\ worker'[w].usr = u
      /\ \A u, w : w \in Deleting(u) <=> w \in Busy(u) /\ worker[w].op = "del"
      /\ \A u, w : w \in Deleting(u)' <=> w \in Busy(u)' /\ worker'[w].op = "del"
  BY DEF Busy, Deleting
\* A thread goes on, at the same mailbox.
<1>1. ASSUME NEW w \in Workers, worker[w].at \notin {"idle", "hung"},
             worker'[w].at \notin {"idle", "hung"},
             \A v \in Workers \ {w} : worker'[v] = worker[v],
             worker'[w].op = worker[w].op, worker'[w].usr = worker[w].usr,
             worker[w].op = "del" /\ Accurate(w) => Accurate(w)', mbox' = mbox
      PROVE  DeleteInv'
  <2> SUFFICES ASSUME NEW u \in Users, NEW v \in Deleting(u)' PROVE Alone(u, v)'
    BY DEF DeleteInv
  <2>a. \A x : x \in Busy(u)' <=> x \in Busy(u) BY <1>1, <1>b
  <2>b. v \in Deleting(u) BY <1>1, <1>b
  <2>1. Busy(u)' = Busy(u) /\ v \in Deleting(u) BY <2>a, <2>b
  <2>2. Busy(u) = {v} /\ Accurate(v) BY <2>1 DEF DeleteInv
  <2>3. CASE v = w BY <1>1, <1>b, <2>1, <2>2, <2>3
  <2>4. CASE v # w
    <3>1. v \in Workers BY <1>b, <2>1
    <3> QED BY <1>1, <2>1, <2>2, <2>4, <3>1, StaysAccurate
  <2> QED BY <2>3, <2>4
\* A thread ends, or waits for ever.
<1>2. ASSUME NEW w \in Workers, worker'[w].at \in {"idle", "hung"},
             \A v \in Workers \ {w} : worker'[v] = worker[v],
             \A v \in Users : mbox'[v] = mbox[v] \/ w \in Busy(v)
      PROVE  DeleteInv'
  <2> SUFFICES ASSUME NEW u \in Users, NEW v \in Deleting(u)' PROVE Alone(u, v)'
    BY DEF DeleteInv
  <2>2. v # w /\ v \in Workers /\ v \in Deleting(u) BY <1>2, <1>b
  <2>3. Busy(u) = {v} /\ Accurate(v) BY <2>2 DEF DeleteInv
  <2>4. w \notin Busy(u) /\ worker[v].usr = u BY <1>b, <2>2, <2>3
  <2>a. \A x : x \in Busy(u)' <=> x \in Busy(u) BY <1>2, <1>b, <2>4
  <2>5. Busy(u)' = Busy(u) BY <2>a
  <2> QED BY <1>2, <2>2, <2>3, <2>4, <2>5, StaysAccurate
<1>3. ASSUME NEW w \in Workers, Act(w) PROVE DeleteInv'
  <2>0. worker[w].at # "idle" /\ worker[w] \in Job
    BY <1>3, StepShape DEF Job
  <2>1. CASE Load(w) \/ Reload(w)
    <3>1. worker[w].at \notin {"idle", "hung"} BY <2>1 DEF Load, Reload
    <3> QED BY <1>1, <2>1, <3>1, ReadShape, ReadsAccurate
  <2>2. CASE Failed(w)
    <3>2. mbox' = mbox /\ worker[w].at \notin {"idle", "hung"} BY <2>2 DEF Failed
    <3>3. CASE worker'[w].at = "hung" BY <1>0, <1>2, <2>0, <2>2, <3>2, <3>3, FailedShape
    <3>4. CASE worker'[w].at # "hung"
      <4>1. worker[w].op = "del" => ~Accurate(w)
        BY <1>0, <2>0, <2>2, <3>4, FailedShape DEF Accurate
      <4> QED BY <1>0, <1>1, <2>0, <2>2, <3>2, <3>4, <4>1, FailedShape
    <3> QED BY <3>3, <3>4
  <2>3. CASE Posted(w)
    <3>1. worker' = [worker EXCEPT ![w] = IdleWorker] /\ w \in Busy(worker[w].usr)
      BY <2>3 DEF Posted, Busy
    <3>2. worker'[w].at = "idle" /\ \A v \in Workers \ {w} : worker'[v] = worker[v]
      BY <1>0, <3>1, Idled
    <3> QED BY <1>2, <2>0, <2>3, <3>1, <3>2, PostedBodies
  <2>4. CASE GaveUp(w)
    <3>1. worker'[w].at = "idle" /\ \A v \in Workers \ {w} : worker'[v] = worker[v]
      BY <1>0, <2>4, Idled DEF GaveUp
    <3> QED BY <1>2, <2>4, <3>1 DEF GaveUp
  <2> QED BY <1>3, <2>1, <2>2, <2>3, <2>4, StepShape
<1>4. ASSUME NEW w \in Workers, NEW a \in Users, worker[w].at = "idle",
             \A v \in Workers \ {w} : worker'[v] = worker[v],
             worker'[w].at = "load", worker'[w].usr = a, worker'[w].mails = <<>>,
             mbox' = mbox, Deleting(a) = {},
             worker'[w].op = "del" => Busy(a) = {}
      PROVE  DeleteInv'
  <2> SUFFICES ASSUME NEW u \in Users, NEW v \in Deleting(u)' PROVE Alone(u, v)'
    BY DEF DeleteInv
  <2>1. CASE v = w
    <3>1. u = a /\ Busy(u) = {} BY <1>4, <1>b, <2>1
    <3>2. Busy(u)' = {v} BY <1>4, <1>b, <2>1, <3>1
    <3>3. Accurate(v)' BY <1>4, <2>1 DEF Accurate
    <3> QED BY <3>2, <3>3
  <2>2. CASE v # w
    <3>1. v \in Workers /\ v \in Deleting(u) BY <1>4, <1>b, <2>2
    <3>2. Busy(u) = {v} /\ Accurate(v) BY <3>1 DEF DeleteInv
    <3>3. u # a BY <1>4, <3>1
    <3>a. \A x : x \in Busy(u)' <=> x \in Busy(u) BY <1>4, <1>b, <3>3
    <3>4. Busy(u)' = Busy(u) BY <3>a
    <3> QED BY <1>4, <2>2, <3>1, <3>2, <3>4, StaysAccurate
  <2> QED BY <2>1, <2>2
<1>5. ASSUME NEW w \in Workers, NEW u \in Users, NEW body \in Bodies, Deliver(w, u, body)
      PROVE  DeleteInv'
  <2>1. worker[w].at = "idle" /\ Deleting(u) = {} BY <1>5 DEF Deliver
  <2>2. /\ \A v \in Workers \ {w} : worker'[v] = worker[v]
        /\ worker'[w].at = "load" /\ worker'[w].usr = u /\ worker'[w].mails = <<>>
        /\ mbox' = mbox /\ worker'[w].op = "write"
    BY <1>0, <1>5, DeliverShape
  <2> QED BY <1>4, <2>1, <2>2
<1>6. ASSUME NEW w \in Workers, NEW u \in Readers, DeleteMail(w, u) PROVE DeleteInv'
  <2>1. worker[w].at = "idle" /\ Busy(u) = {} BY <1>6 DEF DeleteMail
  <2>2. Deleting(u) = {} BY <1>b, <2>1
  <2>3. /\ \A v \in Workers \ {w} : worker'[v] = worker[v]
        /\ worker'[w].at = "load" /\ worker'[w].usr = u /\ worker'[w].mails = <<>>
        /\ mbox' = mbox /\ u \in Users
    BY <1>0, <1>6, DeleteShape
  <2> QED BY <1>4, <2>1, <2>2, <2>3
<1>7. ASSUME UNCHANGED <<mbox, worker>> PROVE DeleteInv'
  BY <1>7 DEF DeleteInv, Deleting, Busy, Accurate
<1>8. ASSUME NEW u \in Readers, (\E n \in 1 .. MaxLen : Display(u, n)) \/ Leave(u)
      PROVE  UNCHANGED <<mbox, worker>>
  BY <1>8 DEF Display, Leave
<1> QED BY <1>3, <1>5, <1>6, <1>7, <1>8 DEF Next, Act, vars

\* Only what is posted changes a mailbox.
LEMMA OnlyPosted ==
    ASSUME TypeInv, [Next]_vars
    PROVE  mbox' = mbox \/ \E w \in Workers : Posted(w)
<1>1. ASSUME NEW w \in Workers, Act(w) PROVE mbox' = mbox \/ Posted(w)
  BY <1>1, StepShape DEF Load, Reload, Failed, GaveUp
<1> QED BY <1>1 DEF Next, Act, vars, Deliver, Display, Leave, DeleteMail

LEMMA TwiceStep ==
    ASSUME TwiceInv, [Next]_vars
    PROVE  NoMailTwice'
<1>0. TypeInv /\ TypeOK /\ FreshInv /\ DeleteInv /\ NoMailTwice BY DEF TwiceInv, TypeInv
<1>1. CASE mbox' = mbox BY <1>0, <1>1 DEF NoMailTwice
<1>2. ASSUME NEW w \in Workers, Posted(w) PROVE NoMailTwice'
  <2> DEFINE u == worker[w].usr
             m == [id |-> worker[w].id, body |-> worker[w].body]
  <2>1. /\ u \in Users /\ worker[w].op \in {"write", "del"}
        /\ mbox'[u] = PostText(w) /\ \A v \in Users \ {u} : mbox'[v] = mbox[v]
        /\ worker[w].op = "write" => m \in Mail /\ PostText(w) = Append(mbox[u], m)
        /\ worker[w].op = "del" => PostText(w) = Kept(mbox[u], worker[w].id)
    BY <1>0, <1>2, PostedBodies
  <2>2. mbox[u] \in Seq(Mail) /\ mbox[u] \in Text BY <1>0, <2>1 DEF TypeOK, Text
  <2>3. \A j, k \in DOMAIN mbox[u] : mbox[u][j].body = mbox[u][k].body => j = k
    BY <1>0, <2>1 DEF NoMailTwice
  <2>4. ASSUME NEW j \in DOMAIN mbox'[u], NEW k \in DOMAIN mbox'[u],
               mbox'[u][j].body = mbox'[u][k].body
        PROVE  j = k
    <3>1. CASE worker[w].op = "write"
      <4>1. mbox'[u] = Append(mbox[u], m) BY <2>1, <3>1
      <4>2. /\ DOMAIN mbox[u] = 1 .. Len(mbox[u]) /\ Len(mbox[u]) \in Nat
            /\ DOMAIN mbox'[u] = 1 .. Len(mbox[u]) + 1
            /\ mbox'[u][Len(mbox[u]) + 1] = m
            /\ \A n \in DOMAIN mbox[u] : mbox'[u][n] = mbox[u][n]
        BY SMTT(40), <2>1, <2>2, <3>1, <4>1
      <4>3. \A n \in DOMAIN mbox[u] : mbox[u][n].body # m.body
        BY <1>0, <1>2, <2>1, <3>1 DEF FreshInv, Writing, Posted
      <4>4. (j \in DOMAIN mbox[u] \/ j = Len(mbox[u]) + 1)
            /\ (k \in DOMAIN mbox[u] \/ k = Len(mbox[u]) + 1)
        BY <4>2
      <4> HIDE DEF u, m
      <4> QED BY <2>3, <2>4, <4>2, <4>3, <4>4
    <3>2. CASE worker[w].op = "del"
      <4>1. mbox'[u] = Kept(mbox[u], worker[w].id) BY <2>1, <3>2
      <4> QED BY <2>2, <2>3, <2>4, <4>1, KeptFacts
    <3> QED BY <2>1, <3>1, <3>2
  <2> HIDE DEF u
  <2> QED BY <1>0, <2>1, <2>4 DEF NoMailTwice
<1> QED BY <1>0, <1>1, <1>2, OnlyPosted

LEMMA TwiceInit == Init => TwiceInv
<1> SUFFICES ASSUME Init PROVE TwiceInv
  OBVIOUS
<1>1. TypeInv BY TypeInit
<1>2. \A w \in Workers : worker[w].at = "idle" BY DEF Init, IdleWorker
<1>3. \A u \in Users : DOMAIN mbox[u] = {} BY DEF Init
<1>4. \A u \in Users : Deleting(u) = {} BY <1>2 DEF Deleting, Busy
<1> QED BY <1>1, <1>2, <1>3, <1>4 DEF TwiceInv, FreshInv, DeleteInv, NoMailTwice, Writing

(***************************************************************************)
(* No mail is in a mailbox twice.  del() rewrites the mailbox from what it *)
(* has parsed, and the retry of init() appends the mailbox to that once    *)
(* more, so this takes that a deletion has the mailbox for itself and its  *)
(* CPUT is not refused for another reason.                                 *)
(***************************************************************************)
THEOREM MailsOnce ==
    ASSUME "overlapDelete" \notin Hazards
    PROVE  Spec => []NoMailTwice
<1>1. TwiceInv /\ [Next]_vars => TwiceInv'
  BY TypeStep, FreshStep, DeleteStep, TwiceStep DEF TwiceInv
<1>2. TwiceInv => NoMailTwice BY DEF TwiceInv
<1> QED BY <1>1, <1>2, TwiceInit, PTL DEF Spec

------------------------------------------------------------------------------
(* Ids.                                                                    *)

LEMMA WriteStep ==
    ASSUME TypeInv, WriteInv, [Next]_vars,
           {"overlapDelete", "overlapWrite"} \cap Hazards = {}
    PROVE  WriteInv'
<1>0. TypeOK BY DEF TypeInv
<1> DEFINE Newer(u, w) == worker[w].op = "write" /\ worker[w].at # "load" =>
                             \A n \in DOMAIN mbox[u] : mbox[u][n].id < worker[w].id
           Alone(u, w) == Busy(u) = {w} /\ Newer(u, w)
<1>a. \A u \in Readers : \A w \in Busy(u) : Alone(u, w) BY DEF WriteInv
<1>b. /\ \A u, w : w \in Busy(u) <=>
             w \in Workers /\ worker[w].at \notin {"idle", "hung"} /\ worker[w].usr = u
      /\ \A u, w : w \in Busy(u)' <=>
             w \in Workers /\ worker'[w].at \notin {"idle", "hung"} /\ worker'[w].usr = u
  BY DEF Busy
<1>s. ASSUME \A u \in Readers : \A w \in Busy(u)' : Alone(u, w)' PROVE WriteInv'
  BY <1>s DEF WriteInv
<1>f. ASSUME NEW u \in Readers, NEW v \in Busy(u), Busy(u)' = Busy(u),
             worker'[v] = worker[v], mbox'[u] = mbox[u]
      PROVE  Alone(u, v)'
  BY <1>a, <1>b, <1>f
<1>1. ASSUME NEW w \in Workers, worker[w].at \notin {"idle", "hung"},
             worker'[w].at \notin {"idle", "hung"},
             \A v \in Workers \ {w} : worker'[v] = worker[v],
             worker'[w].usr = worker[w].usr, mbox' = mbox,
             Alone(worker[w].usr, w) => Newer(worker[w].usr, w)'
      PROVE  WriteInv'
  <2> SUFFICES ASSUME NEW u \in Readers, NEW v \in Busy(u)' PROVE Alone(u, v)'
    BY <1>s
  <2>a. \A x : x \in Busy(u)' <=> x \in Busy(u) BY <1>1, <1>b
  <2>1. Busy(u)' = Busy(u) /\ v \in Busy(u) BY <2>a
  <2>2. Alone(u, v) BY <1>a, <2>1
  <2>3. CASE v = w
    <3>1. worker[w].usr = u BY <1>b, <2>1, <2>3
    <3> QED BY <1>1, <2>1, <2>2, <2>3, <3>1
  <2>4. CASE v # w
    <3>1. worker'[v] = worker[v] BY <1>1, <1>b, <2>1, <2>4
    <3> QED BY <1>1, <1>f, <2>1, <3>1
  <2> QED BY <2>3, <2>4
<1>2. ASSUME NEW w \in Workers, worker'[w].at \in {"idle", "hung"},
             \A v \in Workers \ {w} : worker'[v] = worker[v],
             \A v \in Users : mbox'[v] = mbox[v] \/ w \in Busy(v)
      PROVE  WriteInv'
  <2> SUFFICES ASSUME NEW u \in Readers, NEW v \in Busy(u)' PROVE Alone(u, v)'
    BY <1>s
  <2>2. v # w /\ v \in Workers /\ v \in Busy(u) BY <1>2, <1>b
  <2>3. Busy(u) = {v} BY <1>a, <2>2
  <2>4. w \notin Busy(u) BY <2>2, <2>3
  <2>a. \A x : x \in Busy(u)' <=> x \in Busy(u) BY <1>2, <1>b, <2>4
  <2>5. Busy(u)' = Busy(u) BY <2>a
  <2>6. mbox'[u] = mbox[u] BY <1>2, <2>4, ReadersAssumption
  <2> QED BY <1>2, <1>f, <2>2, <2>5, <2>6
<1>3. ASSUME NEW w \in Workers, Load(w) \/ Reload(w) PROVE WriteInv'
  <2>0. worker[w].at \notin {"idle", "hung"} /\ worker[w].usr \in Users
    BY <1>0, <1>3, AJob DEF Load, Reload
  <2> DEFINE u == worker[w].usr
  <2>1. /\ \A v \in Workers \ {w} : worker'[v] = worker[v]
        /\ worker'[w].at = "cput" /\ worker'[w].op = worker[w].op
        /\ worker'[w].usr = u /\ mbox' = mbox
        /\ worker[w].op = "write" =>
              IF worker[w].at = "load"
              THEN worker'[w].id = MaxId(mbox[u]) + 1
              ELSE worker'[w].id = worker[w].id
    BY <1>3, ReadShape
  <2>2. ASSUME Alone(u, w) PROVE Newer(u, w)'
    <3>1. CASE worker[w].at = "load"
      <4>1. mbox[u] \in Text BY <1>0, <2>0 DEF TypeOK
      <4>2. /\ MaxId(mbox[u]) \in Nat
            /\ \A n \in DOMAIN mbox[u] : mbox[u][n].id <= MaxId(mbox[u])
        BY <4>1, MaxIdFacts
      <4>3. \A n \in DOMAIN mbox[u] : mbox[u][n].id \in Nat BY <1>0, <2>0, AMail
      <4>4. \A n \in DOMAIN mbox[u] : mbox[u][n].id < MaxId(mbox[u]) + 1 BY <4>2, <4>3
      <4> QED BY <2>1, <3>1, <4>4
    <3>2. CASE worker[w].at # "load" BY <2>1, <2>2, <3>2
    <3> QED BY <3>1, <3>2
  <2> HIDE DEF u, Newer
  <2>3. Alone(worker[w].usr, w) => Newer(worker[w].usr, w)'
    BY <2>2 DEF u
  <2> QED BY <1>1, <2>0, <2>1, <2>3 DEF u
<1>4. ASSUME NEW w \in Workers, Act(w) PROVE WriteInv'
  <2>0. worker[w].at # "idle" /\ worker[w] \in Job
    BY <1>4, StepShape DEF Job
  <2>2. CASE Failed(w)
    <3>2. mbox' = mbox /\ worker[w].at \notin {"idle", "hung"} BY <2>2 DEF Failed
    <3>3. CASE worker'[w].at = "hung" BY <1>0, <1>2, <2>0, <2>2, <3>2, <3>3, FailedShape
    <3>4. CASE worker'[w].at # "hung"
      <4>1. Alone(worker[w].usr, w) => Newer(worker[w].usr, w)'
        BY <1>0, <2>0, <2>2, <3>2, <3>4, FailedShape
      <4> HIDE DEF Newer
      <4> QED BY <1>0, <1>1, <2>0, <2>2, <3>2, <3>4, <4>1, FailedShape
    <3> QED BY <3>3, <3>4
  <2>3. CASE Posted(w)
    <3>1. worker' = [worker EXCEPT ![w] = IdleWorker] /\ w \in Busy(worker[w].usr)
      BY <2>3 DEF Posted, Busy
    <3>2. \A v \in Users \ {worker[w].usr} : mbox'[v] = mbox[v]
      BY <1>0, <2>0, <2>3 DEF Posted, TypeOK
    <3>3. worker'[w].at = "idle" /\ \A v \in Workers \ {w} : worker'[v] = worker[v]
      BY <1>0, <3>1, Idled
    <3> QED BY <1>2, <3>1, <3>2, <3>3
  <2>4. CASE GaveUp(w)
    <3>1. worker'[w].at = "idle" /\ \A v \in Workers \ {w} : worker'[v] = worker[v]
      BY <1>0, <2>4, Idled DEF GaveUp
    <3> QED BY <1>2, <2>4, <3>1 DEF GaveUp
  <2> QED BY <1>3, <1>4, <2>2, <2>3, <2>4, StepShape
<1>5. ASSUME NEW w \in Workers, NEW a \in Users, worker[w].at = "idle",
             \A v \in Workers \ {w} : worker'[v] = worker[v],
             worker'[w].at = "load", worker'[w].usr = a, worker'[w].mails = <<>>,
             mbox' = mbox, a \in Readers => Busy(a) = {}
      PROVE  WriteInv'
  <2> SUFFICES ASSUME NEW u \in Readers, NEW v \in Busy(u)' PROVE Alone(u, v)'
    BY <1>s
  <2>1. CASE v = w
    <3>1. u = a /\ Busy(u) = {} BY <1>5, <1>b, <2>1
    <3>2. \A x : x \in Busy(u)' <=> x = v BY <1>5, <1>b, <2>1, <3>1
    <3>3. Busy(u)' = {v} BY <3>2
    <3> QED BY <1>5, <2>1, <3>3
  <2>2. CASE v # w
    <3>1. v \in Workers /\ v \in Busy(u) BY <1>5, <1>b, <2>2
    <3>2. u # a BY <1>5, <3>1
    <3>3. \A x : x \in Busy(u)' <=> x \in Busy(u) BY <1>5, <1>b, <3>2
    <3>4. Busy(u)' = Busy(u) BY <3>3
    <3> QED BY <1>5, <1>f, <2>2, <3>1, <3>4
  <2> QED BY <2>1, <2>2
<1>6. ASSUME NEW w \in Workers, NEW u \in Users, NEW body \in Bodies, Deliver(w, u, body)
      PROVE  WriteInv'
  <2>1. worker[w].at = "idle" /\ (u \in Readers => Busy(u) = {}) BY <1>6 DEF Deliver
  <2>2. /\ \A v \in Workers \ {w} : worker'[v] = worker[v]
        /\ worker'[w].at = "load" /\ worker'[w].usr = u /\ worker'[w].mails = <<>>
        /\ mbox' = mbox
    BY <1>0, <1>6, DeliverShape
  <2> QED BY <1>5, <2>1, <2>2
<1>7. ASSUME NEW w \in Workers, NEW u \in Readers, DeleteMail(w, u) PROVE WriteInv'
  <2>1. worker[w].at = "idle" /\ Busy(u) = {} BY <1>7 DEF DeleteMail
  <2>2. /\ \A v \in Workers \ {w} : worker'[v] = worker[v]
        /\ worker'[w].at = "load" /\ worker'[w].usr = u /\ worker'[w].mails = <<>>
        /\ mbox' = mbox /\ u \in Users
    BY <1>0, <1>7, DeleteShape
  <2> QED BY <1>5, <2>1, <2>2
<1>8. ASSUME UNCHANGED <<mbox, worker>> PROVE WriteInv'
  BY <1>8 DEF WriteInv, Busy
<1>9. ASSUME NEW u \in Readers, (\E n \in 1 .. MaxLen : Display(u, n)) \/ Leave(u)
      PROVE  UNCHANGED <<mbox, worker>>
  BY <1>9 DEF Display, Leave
<1> QED BY <1>4, <1>6, <1>7, <1>8, <1>9 DEF Next, Act, vars

LEMMA IdsStep ==
    ASSUME IdsInv, [Next]_vars
    PROVE  IdsUnique'
<1>0. TypeInv /\ TypeOK /\ DeleteInv /\ WriteInv /\ IdsUnique BY DEF IdsInv, TypeInv
<1>1. CASE mbox' = mbox BY <1>0, <1>1 DEF IdsUnique
<1>2. ASSUME NEW w \in Workers, Posted(w) PROVE IdsUnique'
  <2> DEFINE u == worker[w].usr
             m == [id |-> worker[w].id, body |-> worker[w].body]
  <2>1. /\ u \in Users /\ worker[w].op \in {"write", "del"}
        /\ mbox'[u] = PostText(w) /\ \A v \in Users \ {u} : mbox'[v] = mbox[v]
        /\ worker[w].op = "write" => m \in Mail /\ PostText(w) = Append(mbox[u], m)
        /\ worker[w].op = "del" => PostText(w) = Kept(mbox[u], worker[w].id)
    BY <1>0, <1>2, PostedBodies
  <2>2. mbox[u] \in Seq(Mail) /\ mbox[u] \in Text BY <1>0, <2>1 DEF TypeOK, Text
  <2>3. ASSUME u \in Readers, NEW j \in DOMAIN mbox'[u], NEW k \in DOMAIN mbox'[u],
               mbox'[u][j].id = mbox'[u][k].id
        PROVE  j = k
    <3>0. \A i, n \in DOMAIN mbox[u] : mbox[u][i].id = mbox[u][n].id => i = n
      BY <1>0, <2>3 DEF IdsUnique
    <3>1. CASE worker[w].op = "write"
      <4>1. mbox'[u] = Append(mbox[u], m) BY <2>1, <3>1
      <4>2. /\ DOMAIN mbox[u] = 1 .. Len(mbox[u]) /\ Len(mbox[u]) \in Nat
            /\ DOMAIN mbox'[u] = 1 .. Len(mbox[u]) + 1
            /\ mbox'[u][Len(mbox[u]) + 1] = m
            /\ \A n \in DOMAIN mbox[u] : mbox'[u][n] = mbox[u][n]
        BY SMTT(40), <2>1, <2>2, <3>1, <4>1
      <4>3. \A n \in DOMAIN mbox[u] : mbox[u][n].id # m.id
        <5>1. w \in Busy(u) /\ worker[w].at = "cput" BY <1>2 DEF Posted, Busy
        <5>2. \A n \in DOMAIN mbox[u] : mbox[u][n].id < m.id
          BY <1>0, <2>3, <3>1, <5>1 DEF WriteInv
        <5>3. \A n \in DOMAIN mbox[u] : mbox[u][n].id \in Nat BY <1>0, <2>1, AMail
        <5>4. m.id \in Nat BY <2>1, <3>1 DEF Mail
        <5> HIDE DEF u, m
        <5> QED BY <5>2, <5>3, <5>4
      <4>4. (j \in DOMAIN mbox[u] \/ j = Len(mbox[u]) + 1)
            /\ (k \in DOMAIN mbox[u] \/ k = Len(mbox[u]) + 1)
        BY <4>2
      <4> HIDE DEF u, m
      <4> QED BY <2>3, <3>0, <4>2, <4>3, <4>4
    <3>2. CASE worker[w].op = "del"
      <4>1. mbox'[u] = Kept(mbox[u], worker[w].id) BY <2>1, <3>2
      <4> QED BY SMTT(40), <2>2, <2>3, <3>0, <4>1, KeptFacts
    <3> QED BY <2>1, <3>1, <3>2
  <2> HIDE DEF u
  <2>4. ASSUME NEW v \in Readers, v # u PROVE mbox'[v] = mbox[v]
    BY <2>1, <2>4, ReadersAssumption
  <2> QED BY <1>0, <2>3, <2>4 DEF IdsUnique
<1> QED BY <1>0, <1>1, <1>2, OnlyPosted

LEMMA IdsInit == Init => IdsInv
<1> SUFFICES ASSUME Init PROVE IdsInv
  OBVIOUS
<1>1. TypeInv /\ DeleteInv BY TwiceInit DEF TwiceInv
<1>2. \A w \in Workers : worker[w].at = "idle" BY DEF Init, IdleWorker
<1>3. \A u \in Users : DOMAIN mbox[u] = {} BY DEF Init
<1>4. WriteInv BY <1>2 DEF WriteInv, Busy
<1>5. IdsUnique BY <1>3, ReadersAssumption DEF IdsUnique
<1> QED BY <1>1, <1>4, <1>5 DEF IdsInv

(***************************************************************************)
(* No two mails of a reader have the same id, however deliveries and       *)
(* deletions follow each other.  write() keeps the id it took before its   *)
(* first CPUT, so this takes that the threads that work on the mailbox of  *)
(* a reader do so one after the other.                                     *)
(***************************************************************************)
THEOREM IdsIdentify ==
    ASSUME {"overlapWrite", "overlapDelete"} \cap Hazards = {}
    PROVE  Spec => []IdsUnique
<1>1. IdsInv /\ [Next]_vars => IdsInv'
  BY TypeStep, DeleteStep, WriteStep, IdsStep DEF IdsInv
<1>2. IdsInv => IdsUnique BY DEF IdsInv
<1> QED BY <1>1, <1>2, IdsInit, PTL DEF Spec

------------------------------------------------------------------------------
(* No mail is lost.                                                        *)

\* A deletion leaves, a delivery adds to, what there is.
LEMMA PostedKeeps ==
    ASSUME TypeInv, DeleteInv, NEW w \in Workers, Posted(w)
    PROVE  LET u == worker[w].usr IN
           /\ \A n \in DOMAIN mbox[u] :
                 worker[w].op = "write" \/ mbox[u][n].id # worker[w].id =>
                     \E k \in DOMAIN mbox'[u] : mbox'[u][k] = mbox[u][n]
           /\ worker[w].op = "write" =>
                 \E k \in DOMAIN mbox'[u] : mbox'[u][k].body = worker[w].body
<1> DEFINE u == worker[w].usr
           m == [id |-> worker[w].id, body |-> worker[w].body]
<1>1. /\ u \in Users /\ worker[w].op \in {"write", "del"}
      /\ mbox'[u] = PostText(w)
      /\ worker[w].op = "write" => m \in Mail /\ PostText(w) = Append(mbox[u], m)
      /\ worker[w].op = "del" => PostText(w) = Kept(mbox[u], worker[w].id)
  BY PostedBodies
<1>2. mbox[u] \in Seq(Mail) /\ mbox[u] \in Text BY <1>1 DEF TypeInv, TypeOK, Text
<1>3. CASE worker[w].op = "write"
  <2>1. mbox'[u] = Append(mbox[u], m) BY <1>1, <1>3
  <2>2. /\ DOMAIN mbox[u] = 1 .. Len(mbox[u]) /\ Len(mbox[u]) \in Nat
        /\ DOMAIN mbox'[u] = 1 .. Len(mbox[u]) + 1
        /\ mbox'[u][Len(mbox[u]) + 1] = m
        /\ \A n \in DOMAIN mbox[u] : mbox'[u][n] = mbox[u][n]
    BY <1>1, <1>2, <1>3, <2>1
  <2>3. Len(mbox[u]) + 1 \in DOMAIN mbox'[u] /\ DOMAIN mbox[u] \subseteq DOMAIN mbox'[u]
    BY <2>2
  <2>4. m.body = worker[w].body OBVIOUS
  <2> HIDE DEF u, m
  <2> QED BY <2>2, <2>3, <2>4 DEF u
<1>4. CASE worker[w].op = "del"
  <2>1. mbox'[u] = Kept(mbox[u], worker[w].id) BY <1>1, <1>4
  <2> QED BY <1>2, <1>4, <2>1, KeptFacts
<1> QED BY <1>1, <1>3, <1>4

LEMMA LostStep ==
    ASSUME LostInv, [Next]_vars
    PROVE  NoMailLost'
<1>0. TypeInv /\ TypeOK /\ DeleteInv /\ ViewInv /\ NoMailLost
  BY DEF LostInv, IdsInv, TypeInv
\* Nothing is sent, and nothing taken from a mailbox.
<1>1. ASSUME mbox' = mbox, sent' = sent, asked \subseteq asked' PROVE NoMailLost'
  BY <1>0, <1>1 DEF NoMailLost, Holds
<1>2. ASSUME NEW w \in Workers, Posted(w) PROVE NoMailLost'
  <2> DEFINE a == worker[w].usr
  <2>1. /\ a \in Users /\ worker[w].op \in {"write", "del"}
        /\ \A v \in Users \ {a} : mbox'[v] = mbox[v]
    BY <1>0, <1>2, PostedBodies
  <2>2. asked' = asked /\ sent' \subseteq sent \cup
          (IF worker[w].op = "write" THEN {<<a, worker[w].body>>} ELSE {})
    BY <1>2 DEF Posted
  <2>3. ASSUME NEW u \in Users, NEW b \in Bodies, <<u, b>> \in sent', <<u, b>> \notin asked'
        PROVE  Holds(u, b)'
    <3>1. CASE <<u, b>> \in sent
      <4>1. PICK n \in DOMAIN mbox[u] : mbox[u][n].body = b
        BY <1>0, <2>2, <2>3, <3>1 DEF NoMailLost, Holds
      <4>2. CASE u # a BY <2>1, <4>1, <4>2 DEF Holds
      <4>3. CASE u = a
        <5>1. worker[w].op = "write" \/ mbox[u][n].id # worker[w].id
          <6>1. SUFFICES ASSUME worker[w].op = "del" PROVE mbox[u][n].id # worker[w].id
            BY <2>1
          <6>2. w \in Deleting(u) BY <1>2, <4>3, <6>1 DEF Deleting, Busy, Posted
          <6> QED BY <1>0, <2>2, <2>3, <4>1, <6>2 DEF ViewInv
        <5>2. \E k \in DOMAIN mbox'[u] : mbox'[u][k] = mbox[u][n]
          BY <1>0, <1>2, <4>3, <5>1, PostedKeeps
        <5> QED BY <4>1, <5>2 DEF Holds
      <4> QED BY <4>2, <4>3
    <3>2. CASE <<u, b>> \notin sent
      <4>1. worker[w].op = "write" /\ u = a /\ b = worker[w].body BY <2>2, <2>3, <3>2
      <4> QED BY <1>0, <1>2, <4>1, PostedKeeps DEF Holds
    <3> QED BY <3>1, <3>2
  <2> QED BY <2>3 DEF NoMailLost
<1>3. ASSUME NEW w \in Workers, Act(w) PROVE NoMailLost'
  <2>1. CASE Load(w) \/ Reload(w) BY <1>1, <2>1 DEF Load, Reload
  <2>2. CASE Failed(w) BY <1>1, <2>2 DEF Failed
  <2>3. CASE GaveUp(w) BY <1>1, <2>3 DEF GaveUp
  <2> QED BY <1>0, <1>2, <1>3, <2>1, <2>2, <2>3, StepShape
<1>4. ASSUME NEW w \in Workers, NEW u \in Users, NEW body \in Bodies, Deliver(w, u, body)
      PROVE  NoMailLost'
  BY <1>1, <1>4 DEF Deliver
<1>5. ASSUME NEW w \in Workers, NEW u \in Readers, DeleteMail(w, u) PROVE NoMailLost'
  BY <1>1, <1>5 DEF DeleteMail
<1>6. ASSUME NEW u \in Readers, (\E n \in 1 .. MaxLen : Display(u, n)) \/ Leave(u)
      PROVE  NoMailLost'
  BY <1>1, <1>6 DEF Display, Leave
<1>7. CASE UNCHANGED vars BY <1>1, <1>7 DEF vars
<1> QED BY <1>3, <1>4, <1>5, <1>6, <1>7 DEF Next, Act

LEMMA ViewStep ==
    ASSUME TypeInv, DeleteInv, WriteInv, IdsUnique, ViewInv, [Next]_vars,
           {"overlapDelete", "sharedView", "twoPages", "again"} \cap Hazards = {}
    PROVE  ViewInv'
<1>0. TypeOK BY DEF TypeInv
<1> DEFINE Seen(u) == \A m \in open[u] :
                        /\ u \in Readers /\ Deleting(u) = {}
                        /\ m.id = to_be_deleted
                        /\ \E n \in DOMAIN mbox[u] : mbox[u][n] = m
                        /\ open[u] = {m} /\ \A v \in Users \ {u} : open[v] = {}
           Right(u, w) == \A n \in DOMAIN mbox[u] :
                            mbox[u][n].id = worker[w].id => <<u, mbox[u][n].body>> \in asked
<1>a. /\ \A u \in Users : Seen(u)
      /\ \A u \in Users : \A w \in Deleting(u) : Right(u, w)
  BY DEF ViewInv
<1>s. ASSUME \A u \in Users : Seen(u)', \A u \in Users : \A w \in Deleting(u)' : Right(u, w)'
      PROVE  ViewInv'
  BY <1>s DEF ViewInv
<1>b. /\ \A u, w : w \in Deleting(u) <=> /\ w \in Workers /\ worker[w].at \notin {"idle", "hung"}
                                          /\ worker[w].usr = u /\ worker[w].op = "del"
      /\ \A u, w : w \in Deleting(u)' <=> /\ w \in Workers /\ worker'[w].at \notin {"idle", "hung"}
                                           /\ worker'[w].usr = u /\ worker'[w].op = "del"
  BY DEF Deleting, Busy
\* A step of a thread that leaves the mailboxes alone and begins no deletion.
<1>1. ASSUME UNCHANGED <<mbox, open, to_be_deleted, asked>>,
             \A u \in Users : \A v \in Deleting(u)' :
                 v \in Deleting(u) /\ worker'[v].id = worker[v].id
      PROVE  ViewInv'
  <2>1. ASSUME NEW u \in Users PROVE Seen(u)'
    <3>1. Seen(u) BY <1>a
    <3>2. Deleting(u) = {} => Deleting(u)' = {} BY <1>1
    <3> QED BY <1>1, <3>1, <3>2
  <2>2. ASSUME NEW u \in Users, NEW v \in Deleting(u)' PROVE Right(u, v)'
    BY <1>1, <1>a
  <2> HIDE DEF Seen, Right
  <2> QED BY <1>s, <2>1, <2>2
<1>2. ASSUME NEW w \in Workers, Load(w) \/ Reload(w) PROVE ViewInv'
  <2>1. /\ worker[w] \in Job
        /\ \A v \in Workers \ {w} : worker'[v] = worker[v]
        /\ worker'[w].op = worker[w].op /\ worker'[w].usr = worker[w].usr
        /\ worker[w].op = "del" => worker'[w].id = worker[w].id
        /\ UNCHANGED <<mbox, open, to_be_deleted, asked>>
    BY <1>2, ReadShape
  <2>2. worker[w].at \notin {"idle", "hung"} BY <1>2 DEF Load, Reload
  <2> QED BY <1>1, <1>b, <2>1, <2>2
<1>3. ASSUME NEW w \in Workers, Failed(w), worker[w] \in Job PROVE ViewInv'
  <2>1. /\ \A v \in Workers \ {w} : worker'[v] = worker[v]
        /\ worker'[w].op = worker[w].op /\ worker'[w].usr = worker[w].usr
        /\ worker'[w].id = worker[w].id
    BY <1>0, <1>3, FailedShape
  <2>2. UNCHANGED <<mbox, open, to_be_deleted, asked>> /\ worker[w].at \notin {"idle", "hung"}
    BY <1>3 DEF Failed
  <2> QED BY <1>1, <1>b, <2>1, <2>2
<1>4. ASSUME NEW w \in Workers, GaveUp(w) PROVE ViewInv'
  <2>1. worker' = [worker EXCEPT ![w] = IdleWorker]
        /\ UNCHANGED <<mbox, open, to_be_deleted, asked>>
    BY <1>4 DEF GaveUp
  <2>2. worker'[w].at = "idle" /\ \A v \in Workers \ {w} : worker'[v] = worker[v]
    BY <1>0, <2>1, Idled
  <2> QED BY <1>1, <1>b, <2>1, <2>2
<1>5. ASSUME NEW w \in Workers, Posted(w) PROVE ViewInv'
  <2> DEFINE a == worker[w].usr
  <2>1. /\ a \in Users /\ worker[w].op \in {"write", "del"}
        /\ \A v \in Users \ {a} : mbox'[v] = mbox[v]
    BY <1>5, PostedBodies
  <2>2. UNCHANGED <<open, to_be_deleted, asked>> /\ worker[w].at = "cput"
        /\ worker' = [worker EXCEPT ![w] = IdleWorker]
    BY <1>5 DEF Posted
  <2>3. worker'[w].at = "idle" /\ \A v \in Workers \ {w} : worker'[v] = worker[v]
    BY <1>0, <2>2, Idled
  <2>4. \A u \in Users : \A v \in Deleting(u)' :
            v \in Deleting(u) /\ worker'[v] = worker[v] /\ v # w
    BY <1>b, <2>3
  <2>5. ASSUME NEW u \in Users, NEW m \in open[u] PROVE Seen(u)'
    <3>1. /\ u \in Readers /\ m.id = to_be_deleted /\ open[u] = {m}
          /\ \A v \in Users \ {u} : open[v] = {}
          /\ Deleting(u) = {} /\ \E n \in DOMAIN mbox[u] : mbox[u][n] = m
      BY <1>a
    <3>2. Deleting(u) = {} /\ Deleting(u)' = {} BY <2>4, <3>1
    <3>3. PICK n \in DOMAIN mbox[u] : mbox[u][n] = m BY <3>1
    <3>4. \E k \in DOMAIN mbox'[u] : mbox'[u][k] = m
      <4>1. CASE u # a BY <2>1, <3>3, <4>1
      <4>2. CASE u = a
        <5>1. worker[w].op = "write" BY <1>b, <2>1, <2>2, <3>2, <4>2
        <5> QED BY <1>5, <3>3, <4>2, <5>1, PostedKeeps
      <4> QED BY <4>1, <4>2
    <3> QED BY <2>2, <3>1, <3>2, <3>4
  <2>6. ASSUME NEW u \in Users, NEW v \in Deleting(u)' PROVE Right(u, v)'
    <3>1. v \in Deleting(u) /\ worker'[v] = worker[v] /\ v # w BY <2>4
    <3>2. Busy(u) = {v} BY <3>1 DEF DeleteInv
    <3>3. a # u BY <2>2, <3>1, <3>2 DEF Busy
    <3> QED BY <1>a, <2>1, <2>2, <3>1, <3>3
  <2>7. \A u \in Users : Seen(u)'
    <3>1. ASSUME NEW u \in Users, open[u] = {} PROVE Seen(u)' BY <2>2, <3>1
    <3> HIDE DEF Seen
    <3> QED BY <2>5, <3>1
  <2> HIDE DEF Seen, Right
  <2> QED BY <1>s, <2>6, <2>7
<1>6. ASSUME NEW w \in Workers, Act(w) PROVE ViewInv'
  BY <1>2, <1>3, <1>4, <1>5, <1>6, StepShape
<1>7. ASSUME NEW w \in Workers, NEW u \in Users, NEW body \in Bodies, Deliver(w, u, body)
      PROVE  ViewInv'
  <2>1. /\ \A v \in Workers \ {w} : worker'[v] = worker[v]
        /\ worker'[w].op = "write"
        /\ UNCHANGED <<mbox, open, to_be_deleted, asked>>
    BY <1>0, <1>7, DeliverShape
  <2> QED BY <1>1, <1>b, <2>1
<1>8. ASSUME NEW w \in Workers, NEW a \in Readers, DeleteMail(w, a) PROVE ViewInv'
  <2>1. /\ a \in Users
        /\ \A v \in Workers \ {w} : worker'[v] = worker[v]
        /\ worker'[w].usr = a /\ worker'[w].id = to_be_deleted
        /\ UNCHANGED <<mbox, to_be_deleted>>
    BY <1>0, <1>8, DeleteShape
  <2>2. PICK m \in open[a] :
           /\ open' = [open EXCEPT ![a] = @ \ {m}]
           /\ asked' = asked \cup {<<a, m.body>>}
    BY <1>0, <1>8, DeleteShape
  <2>0. /\ m.id = to_be_deleted /\ \E n \in DOMAIN mbox[a] : mbox[a][n] = m
        /\ open[a] = {m} /\ \A v \in Users \ {a} : open[v] = {}
    BY <1>a, <2>1
  <2>3. ASSUME NEW u \in Users PROVE open'[u] = {}
    BY <1>0, <2>0, <2>1, <2>2 DEF TypeOK
  <2>4. ASSUME NEW u \in Users, NEW v \in Deleting(u)' PROVE Right(u, v)'
    <3>1. CASE v = w
      <4>1. u = a BY <1>b, <2>1, <3>1
      <4>2. PICK k \in DOMAIN mbox[a] : mbox[a][k] = m BY <2>0
      <4>3. m.id = to_be_deleted BY <2>0
      <4>4. ASSUME NEW n \in DOMAIN mbox[a], mbox[a][n].id = to_be_deleted
            PROVE  <<a, mbox[a][n].body>> \in asked'
        <5>1. n = k BY <4>2, <4>3, <4>4 DEF IdsUnique
        <5> QED BY <2>2, <4>2, <5>1
      <4> QED BY <2>1, <3>1, <4>1, <4>4
    <3>2. CASE v # w
      <4>1. v \in Deleting(u) /\ worker'[v] = worker[v] BY <1>b, <2>1, <3>2
      <4> QED BY <1>a, <2>1, <2>2, <4>1
    <3> QED BY <3>1, <3>2
  <2>5. \A u \in Users : Seen(u)' BY <2>3
  <2> HIDE DEF Seen, Right
  <2> QED BY <1>s, <2>4, <2>5
<1>9. ASSUME NEW a \in Readers, NEW n \in 1 .. MaxLen, Display(a, n) PROVE ViewInv'
  <2>1. /\ a \in Users /\ n \in DOMAIN mbox[a] /\ Deleting(a) = {}
        /\ \A v \in Users : open[v] = {}
        /\ to_be_deleted' = mbox[a][n].id
        /\ open' = [open EXCEPT ![a] = @ \cup {mbox[a][n]}]
        /\ UNCHANGED <<mbox, worker, asked>>
    BY <1>9, ReadersAssumption DEF Display
  <2>2. open'[a] = {mbox[a][n]} /\ \A v \in Users \ {a} : open'[v] = {}
    BY <1>0, <2>1 DEF TypeOK
  <2>3. \A u : Deleting(u)' = Deleting(u) BY <2>1 DEF Deleting, Busy
  <2>4. ASSUME NEW u \in Users PROVE Seen(u)' BY <2>1, <2>2, <2>3
  <2>5. ASSUME NEW u \in Users, NEW v \in Deleting(u)' PROVE Right(u, v)'
    BY <1>a, <2>1, <2>3
  <2> HIDE DEF Seen, Right
  <2> QED BY <1>s, <2>4, <2>5
<1>10. ASSUME NEW a \in Readers, Leave(a) PROVE ViewInv'
  <2>1. a \in Users /\ UNCHANGED <<mbox, worker, to_be_deleted, asked>>
    BY <1>10, ReadersAssumption DEF Leave
  <2>0. PICK m \in open[a] : open' = [open EXCEPT ![a] = @ \ {m}]
    BY <1>10 DEF Leave
  <2>6. open[a] = {m} /\ \A v \in Users \ {a} : open[v] = {} BY <1>a, <2>1
  <2>2. \A u \in Users : open'[u] = {} BY <1>0, <2>0, <2>1, <2>6 DEF TypeOK
  <2>3. \A u : Deleting(u)' = Deleting(u) BY <2>1 DEF Deleting, Busy
  <2>4. ASSUME NEW u \in Users PROVE Seen(u)' BY <2>2
  <2>5. ASSUME NEW u \in Users, NEW v \in Deleting(u)' PROVE Right(u, v)'
    BY <1>a, <2>1, <2>3
  <2> HIDE DEF Seen, Right
  <2> QED BY <1>s, <2>4, <2>5
<1>11. CASE UNCHANGED vars
  <2>1. UNCHANGED <<mbox, open, to_be_deleted, asked, worker>> BY <1>11 DEF vars
  <2> QED BY <1>1, <1>b, <2>1
<1> HIDE DEF Seen, Right
<1> QED BY <1>6, <1>7, <1>8, <1>9, <1>10, <1>11 DEF Next, Act

(***************************************************************************)
(* No mail is lost: what write() has returned true for is in the mailbox   *)
(* until its recipient asks to delete it.  A deletion goes by an id, taken *)
(* from a variable of the whole frontend that nothing resets               *)
(* (email_reply.h), so this takes that one mail is open at a time, that    *)
(* its page asks once, and that ids identify mails (IdsIdentify).          *)
(* Deliveries to users who delete nothing may overlap; connections may     *)
(* break, and answers may never come.                                      *)
(***************************************************************************)
THEOREM MailsKept ==
    ASSUME {"overlapWrite", "overlapDelete", "sharedView", "twoPages", "again"}
              \cap Hazards = {}
    PROVE  Spec => []NoMailLost
<1>1. Init => LostInv
  <2> SUFFICES ASSUME Init PROVE LostInv
    OBVIOUS
  <2>1. \A w \in Workers : worker[w].at = "idle" BY DEF Init, IdleWorker
  <2>2. \A u \in Users : Deleting(u) = {} /\ open[u] = {}
    BY <2>1 DEF Init, Deleting, Busy
  <2>3. ViewInv BY <2>2 DEF ViewInv
  <2>4. NoMailLost BY DEF Init, NoMailLost
  <2> QED BY <2>3, <2>4, IdsInit DEF LostInv
<1>2. LostInv /\ [Next]_vars => LostInv'
  BY TypeStep, DeleteStep, WriteStep, IdsStep, ViewStep, LostStep DEF LostInv, IdsInv
<1>3. LostInv => NoMailLost BY DEF LostInv
<1> QED BY <1>1, <1>2, <1>3, PTL DEF Spec
==============================================================================
