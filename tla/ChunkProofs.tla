------------------------------ MODULE ChunkProofs ------------------------------
(***************************************************************************)
(* Proofs about Chunk for every finite set of keys, every set of values,   *)
(* every size limit and every bound.                                       *)
(***************************************************************************)
EXTENDS Chunk, Functions, FiniteSetTheorems, TLAPS

------------------------------------------------------------------------------
(* Part of a sequence.                                                     *)

\* Nth enumerates the positions K in their order.
LEMMA NthFacts ==
    ASSUME NEW K \in SUBSET Nat, IsFiniteSet(K)
    PROVE  /\ Cardinality(K) \in Nat
           /\ \A k \in 1 .. Cardinality(K) : Nth(K, k) \in K
           /\ \A j, k \in 1 .. Cardinality(K) : j < k => Nth(K, j) < Nth(K, k)
           /\ \A n \in K : \E k \in 1 .. Cardinality(K) : Nth(K, k) = n
<1> DEFINE c == Cardinality(K)
           L(n) == {m \in K : m <= n}
           rank == [n \in K |-> Cardinality(L(n))]
<1>0. \A n \in K : n \in Nat OBVIOUS
<1>1. IsFiniteSet(K) /\ c \in Nat
  BY FS_CardinalityType
<1>2. \A n \in K : /\ IsFiniteSet(L(n)) /\ Cardinality(L(n)) \in Nat
                   /\ Cardinality(L(n)) <= c
                   /\ Cardinality(L(n)) # 0
  <2> SUFFICES ASSUME NEW n \in K
               PROVE  /\ IsFiniteSet(L(n)) /\ Cardinality(L(n)) \in Nat
                      /\ Cardinality(L(n)) <= c
                      /\ Cardinality(L(n)) # 0
    OBVIOUS
  <2>1. L(n) \in SUBSET K /\ n \in L(n) OBVIOUS
  <2> HIDE DEF L
  <2>2. IsFiniteSet(L(n)) /\ Cardinality(L(n)) <= c BY <1>1, <2>1, FS_Subset
  <2>3. Cardinality(L(n)) \in Nat BY <2>2, FS_CardinalityType
  <2>4. Cardinality(L(n)) # 0 BY <2>1, <2>2, FS_EmptySet
  <2> QED BY <2>2, <2>3, <2>4
<1>3. \A n, m \in K : n < m => rank[n] < rank[m]
  <2> SUFFICES ASSUME NEW n \in K, NEW m \in K, n < m
               PROVE  Cardinality(L(n)) < Cardinality(L(m))
    OBVIOUS
  <2>1. L(n) \in SUBSET L(m) /\ m \in L(m) /\ m \notin L(n)
    <3>1. n \in Nat /\ m \in Nat /\ ~(m <= n) /\ m <= m BY <1>0
    <3>2. \A k \in Nat : k <= n => k <= m BY <3>1
    <3> QED BY <1>0, <3>1, <3>2
  <2>2. /\ Cardinality(L(n)) \in Nat /\ Cardinality(L(m)) \in Nat
        /\ IsFiniteSet(L(m))
    BY <1>2
  <2> HIDE DEF L
  <2>3. Cardinality(L(n)) <= Cardinality(L(m)) /\ Cardinality(L(n)) # Cardinality(L(m))
    BY <2>1, <2>2, FS_Subset
  <2> QED BY <2>2, <2>3
<1>4. rank \in [K -> 1 .. c] BY <1>1, <1>2
<1>5. \A n \in K : rank[n] = Cardinality(L(n)) OBVIOUS
<1> HIDE DEF rank, c
<1>6. rank \in Injection(K, 1 .. c)
  <2>1. \A n, m \in K : rank[n] = rank[m] => n = m BY <1>1, <1>3, <1>4
  <2> QED BY <1>4, <2>1 DEF Injection, IsInjective
<1>7. rank \in Surjection(K, 1 .. c)
  <2>1. IsFiniteSet(1 .. c) /\ Cardinality(1 .. c) = c BY <1>1, FS_Interval
  <2> QED BY <1>6, <2>1, FS_Injection DEF c
<1>8. \A k \in 1 .. c : \E n \in K : rank[n] = k BY <1>7 DEF Surjection
<1>9. \A k \in 1 .. c : Nth(K, k) \in K /\ rank[Nth(K, k)] = k
  <2> SUFFICES ASSUME NEW k \in 1 .. c PROVE Nth(K, k) \in K /\ rank[Nth(K, k)] = k
    OBVIOUS
  <2>1. PICK n \in K : Cardinality({m \in K : m <= n}) = k BY <1>5, <1>8
  <2>2. Nth(K, k) \in K /\ Cardinality({m \in K : m <= Nth(K, k)}) = k
    BY <2>1 DEF Nth
  <2> QED BY <1>5, <2>2
<1>10. \A j, k \in 1 .. c : j < k => Nth(K, j) < Nth(K, k)
  <2> SUFFICES ASSUME NEW j \in 1 .. c, NEW k \in 1 .. c, j < k
               PROVE  Nth(K, j) < Nth(K, k)
    OBVIOUS
  <2> DEFINE n == Nth(K, j)
             m == Nth(K, k)
  <2>1. n \in K /\ m \in K /\ rank[n] = j /\ rank[m] = k BY <1>9
  <2>a. j \in Nat /\ k \in Nat OBVIOUS
  <2> HIDE DEF n, m
  <2>b. n \in Nat /\ m \in Nat BY <1>0, <2>1
  <2>2. n \in Nat /\ m \in Nat /\ j \in Nat /\ k \in Nat BY <2>a, <2>b
  <2>3. ~(m < n) /\ m # n BY <1>3, <2>1, <2>2
  <2> QED BY <2>2, <2>3 DEF n, m
<1>11. \A n \in K : \E k \in 1 .. c : Nth(K, k) = n
  <2> SUFFICES ASSUME NEW n \in K PROVE \E k \in 1 .. c : Nth(K, k) = n
    OBVIOUS
  <2>1. rank[n] \in 1 .. c BY <1>4
  <2>2. Nth(K, rank[n]) = n BY <1>6, <1>9, <2>1 DEF Injection, IsInjective
  <2> QED BY <2>1, <2>2
<1> QED BY <1>1, <1>9, <1>10, <1>11 DEF c

\* Positions of a sequence are a finite set.
LEMMA Positions ==
    ASSUME NEW len \in Nat, NEW K \in SUBSET (1 .. len)
    PROVE  K \in SUBSET Nat /\ IsFiniteSet(K)
<1>1. IsFiniteSet(1 .. len) BY FS_Interval
<1>2. IsFiniteSet(K) BY <1>1, FS_Subset
<1> QED BY <1>2

\* Pick takes the elements at K, all of them, once and in their order.
LEMMA PickFacts ==
    ASSUME NEW S, NEW s \in Seq(S), NEW K \in SUBSET (1 .. Len(s))
    PROVE  /\ Pick(s, K) \in Seq(S)
           /\ DOMAIN Pick(s, K) = 1 .. Cardinality(K)
           /\ \E f \in [DOMAIN Pick(s, K) -> K] :
                 /\ \A k \in DOMAIN Pick(s, K) : Pick(s, K)[k] = s[f[k]]
                 /\ \A j, k \in DOMAIN Pick(s, K) : j < k => f[j] < f[k]
                 /\ \A n \in K : \E k \in DOMAIN Pick(s, K) : f[k] = n
<1> DEFINE c == Cardinality(K)
           p == Pick(s, K)
           f == [k \in 1 .. c |-> Nth(K, k)]
<1>n. /\ c \in Nat
      /\ \A k \in 1 .. c : Nth(K, k) \in K
      /\ \A j, k \in 1 .. c : j < k => Nth(K, j) < Nth(K, k)
      /\ \A n \in K : \E k \in 1 .. c : Nth(K, k) = n
  <2>1. Len(s) \in Nat OBVIOUS
  <2>2. K \in SUBSET Nat /\ IsFiniteSet(K) BY <2>1, Positions
  <2> QED BY <2>2, NthFacts
<1> HIDE DEF c
<1>0. f \in [1 .. c -> K] BY <1>n
<1>1. p = [k \in 1 .. c |-> s[Nth(K, k)]] BY DEF Pick, c
<1>2. \A k \in 1 .. c : s[Nth(K, k)] \in S
  <2>1. \A n \in K : s[n] \in S OBVIOUS
  <2> QED BY <1>n, <2>1
<1>3. p \in Seq(S) /\ DOMAIN p = 1 .. c BY <1>n, <1>1, <1>2
<1>4. /\ \A k \in DOMAIN p : p[k] = s[f[k]]
      /\ \A j, k \in DOMAIN p : j < k => f[j] < f[k]
      /\ \A n \in K : \E k \in DOMAIN p : f[k] = n
  BY <1>n, <1>1, <1>3
<1> HIDE DEF f, p
<1> QED BY <1>0, <1>3, <1>4 DEF p, c


------------------------------------------------------------------------------
(* Types.                                                                  *)

\* append_kvs closes at most one file for each update that it moves.
Bounded ==
    pc = "append" => chunk.index + Cardinality(chunk.todo) < MaxChunk + Cardinality(Keys)

ChunkType ==
    [index : Ids, metadata : [Keys -> Ids \cup {NoChunk}],
     del : [Keys \X Ids -> Nat], todo : SUBSET Keys,
     rewrite : SUBSET Ids, target : Ids, out : Seq(Record)]

\* Finitely many keys, and therefore chunk files.
LEMMA KeysFinite ==
    /\ Cardinality(Keys) \in Nat /\ MaxChunk \in Nat
    /\ Ids \subseteq Nat /\ 0 \in Ids /\ Torn \notin Ids /\ NoChunk \notin Ids
    /\ \A S \in SUBSET Keys : IsFiniteSet(S) /\ Cardinality(S) \in Nat
                              /\ Cardinality(S) <= Cardinality(Keys)
    /\ \A S \in SUBSET Keys : \A k \in S : Cardinality(S \ {k}) = Cardinality(S) - 1
<1>1. Cardinality(Keys) \in Nat /\ MaxChunk \in Nat
  BY ChunkKeys, ChunkBounds, FS_CardinalityType
<1>2. \A S \in SUBSET Keys : IsFiniteSet(S) /\ Cardinality(S) \in Nat
                             /\ Cardinality(S) <= Cardinality(Keys)
  BY ChunkKeys, FS_Subset, FS_CardinalityType
<1>3. \A S \in SUBSET Keys : \A k \in S : Cardinality(S \ {k}) = Cardinality(S) - 1
  BY <1>2, FS_RemoveElement
<1> QED BY <1>1, <1>2, <1>3 DEF Ids, Torn, NoChunk

\* The chunk object between checkpoints is one.
LEMMA NoObjectType == NoObject \in ChunkType
<1>1. NoMetadata \in [Keys -> Ids \cup {NoChunk}]
  BY DEF NoMetadata
<1>2. NoDeletes \in [Keys \X Ids -> Nat]
  BY DEF NoDeletes
<1> QED BY <1>1, <1>2, KeysFinite DEF NoObject, ChunkType

\* The fields of the chunk object.
LEMMA ChunkFields ==
    ASSUME chunk \in ChunkType
    PROVE  /\ chunk.index \in Ids /\ chunk.metadata \in [Keys -> Ids \cup {NoChunk}]
           /\ chunk.del \in [Keys \X Ids -> Nat] /\ chunk.todo \in SUBSET Keys
           /\ chunk.rewrite \in SUBSET Ids /\ chunk.target \in Ids /\ chunk.out \in Seq(Record)
BY DEF ChunkType

\* lazy_delete makes a file of records.
LEMMA PrunedType ==
    ASSUME NEW c \in Ids, chunks[c] \in Seq(Record)
    PROVE  /\ Stays(c) \in SUBSET (1 .. Len(chunks[c]))
           /\ Pruned(c) \in Seq(Record)
<1>1. Stays(c) \in SUBSET (1 .. Len(chunks[c]))
  BY DEF Stays
<1> QED BY <1>1, PickFacts DEF Pruned

\* What one round of append_kvs leaves.
Round(k) ==
    /\ pc' = "append" /\ chunk.todo' = chunk.todo \ {k}
    /\ chunk.del' = Marked(k)
    /\ \/ /\ updates[k] = Empty
          /\ chunks' = chunks /\ chunk.index' = chunk.index
          /\ chunk.metadata' = [chunk.metadata EXCEPT ![k] = NoChunk]
       \/ /\ updates[k] # Empty
          /\ chunks' = [chunks EXCEPT ![chunk.index] =
                           Append(chunks[chunk.index], [key |-> k, val |-> updates[k]])]
          /\ chunk.metadata' = [chunk.metadata EXCEPT ![k] = chunk.index]
          /\ chunk.index' \in {chunk.index, chunk.index + 1}

\* del_list after a round: k is marked once more, where it was listed.
LEMMA MarkedIs ==
    ASSUME chunk \in ChunkType, NEW k \in Keys
    PROVE  /\ Marked(k) \in [Keys \X Ids -> Nat]
           /\ \A j \in Keys, c \in Ids :
                Marked(k)[<<j, c>>] =
                    IF /\ j = k
                       /\ \/ c = chunk.metadata[k]
                          \/ c = 0 /\ chunk.metadata[k] = NoChunk /\ updates[k] = Empty
                    THEN chunk.del[<<j, c>>] + 1 ELSE chunk.del[<<j, c>>]
<1>1. /\ chunk.metadata[k] \in Ids \cup {NoChunk}
      /\ chunk.del \in [Keys \X Ids -> Nat]
  BY ChunkFields
<1> DEFINE up(i) == [chunk.del EXCEPT ![<<k, i>>] = @ + 1]
<1>2. ASSUME NEW i \in Ids
      PROVE  /\ up(i) \in [Keys \X Ids -> Nat]
             /\ \A j \in Keys, c \in Ids :
                  up(i)[<<j, c>>] = IF j = k /\ c = i THEN chunk.del[<<j, c>>] + 1
                                    ELSE chunk.del[<<j, c>>]
  BY <1>1
<1> HIDE DEF up
<1>3. CASE chunk.metadata[k] # NoChunk
  <2>1. Marked(k) = up(chunk.metadata[k])
    BY <1>3 DEF Marked, up
  <2> QED BY <1>1, <1>2, <1>3, <2>1
<1>4. CASE chunk.metadata[k] = NoChunk /\ updates[k] = Empty
  <2>1. Marked(k) = up(0)
    BY <1>4 DEF Marked, up, IsDeletion
  <2> QED BY <1>1, <1>2, <1>4, <2>1, KeysFinite
<1>5. CASE chunk.metadata[k] = NoChunk /\ updates[k] # Empty
  <2>1. Marked(k) = chunk.del
    BY <1>5 DEF Marked, IsDeletion
  <2> QED BY <1>1, <1>5, <2>1, KeysFinite
<1> QED BY <1>3, <1>4, <1>5

\* AppendKv in these terms.
LEMMA AppendKvIs ==
    ASSUME TypeOK, NEW k \in Keys, AppendKv(k)
    PROVE  /\ Round(k) /\ k \in chunk.todo /\ pc = "append"
           /\ chunk'.rewrite = chunk.rewrite /\ chunk'.target = chunk.target
           /\ chunk'.out = chunk.out
           /\ UNCHANGED <<updates, log, append_index, metadata, delete_list, written, interrupted>>
<1>1. chunk \in ChunkType /\ chunks \in [Ids -> Seq(Record)]
  BY DEF TypeOK, ChunkType
<1>2. CASE updates[k] = Empty
  <2>1. chunk' = [chunk EXCEPT !.del = Marked(k), !.metadata[k] = NoChunk, !.todo = @ \ {k}]
    BY <1>2 DEF AppendKv, IsDeletion
  <2> QED BY <1>1, <1>2, <2>1, ChunkFields DEF AppendKv, IsDeletion, Round, ChunkType
<1>3. CASE updates[k] # Empty
  <2>1. /\ chunks' = [chunks EXCEPT ![chunk.index] = Append(@, [key |-> k, val |-> updates[k]])]
        /\ chunk' = [chunk EXCEPT
                          !.del = Marked(k), !.metadata[k] = chunk.index,
                          !.index = IF Len(chunks'[chunk.index]) > Limit
                                    THEN @ + 1 ELSE @,
                          !.todo = @ \ {k}]
    BY <1>3 DEF AppendKv, IsDeletion
  <2> QED BY <1>1, <1>3, <2>1, ChunkFields DEF AppendKv, IsDeletion, Round, ChunkType
<1> QED BY <1>2, <1>3

\* What append_kvs has still to move are updates.
ToWrite == pc = "append" => \A k \in chunk.todo : updates[k] # NoVal

TypeInv == TypeOK /\ Bounded /\ ToWrite

\* Initially all files are empty.
LEMMA TypeInit == Init => TypeInv
<1> SUFFICES ASSUME Init PROVE TypeInv
  OBVIOUS
<1>1. chunk \in ChunkType /\ pc = "idle"
  BY NoObjectType DEF Init
<1>2. /\ NoUpdates \in [Keys -> Values \cup {Empty, NoVal}]
      /\ NoMetadata \in [Keys -> Ids \cup {NoChunk}]
      /\ NoDeletes \in [Keys \X Ids -> Nat]
      /\ [c \in Ids |-> <<>>] \in [Ids -> Seq(Record)]
      /\ [k \in Keys |-> Empty] \in [Keys -> Values \cup {Empty}]
  BY DEF NoUpdates, NoMetadata, NoDeletes
<1> QED BY <1>1, <1>2, KeysFinite DEF Init, TypeInv, TypeOK, Bounded, ToWrite, ChunkType, Steps

\* Each round of append_kvs closes at most one file.
LEMMA RoundType ==
    ASSUME TypeInv, NEW k \in Keys, AppendKv(k)
    PROVE  TypeInv'
<1>0. chunk \in ChunkType /\ chunks \in [Ids -> Seq(Record)] /\ TypeOK /\ Bounded /\ ToWrite
  BY DEF TypeInv, TypeOK, ChunkType
<1>1. /\ Round(k) /\ k \in chunk.todo /\ pc = "append"
      /\ chunk'.rewrite = chunk.rewrite /\ chunk'.target = chunk.target
      /\ chunk'.out = chunk.out
      /\ UNCHANGED <<updates, log, append_index, metadata, delete_list, written, interrupted>>
  BY <1>0, AppendKvIs
<1>f. /\ chunk.index \in Ids /\ chunk.metadata \in [Keys -> Ids \cup {NoChunk}]
      /\ chunk.todo \in SUBSET Keys
  BY <1>0, ChunkFields
<1>2. chunk'.index \in {chunk.index, chunk.index + 1}
  BY <1>1 DEF Round
<1>3. /\ chunk'.todo = chunk.todo \ {k}
      /\ Cardinality(chunk'.todo) = Cardinality(chunk.todo) - 1
      /\ Cardinality(chunk.todo) \in Nat /\ Cardinality(chunk'.todo) \in Nat
  <2>1. chunk'.todo = chunk.todo \ {k}
    BY <1>1 DEF Round
  <2> QED BY <2>1, <1>1, <1>f, KeysFinite
<1>4. chunk.index + Cardinality(chunk.todo) < MaxChunk + Cardinality(Keys)
  BY <1>0, <1>1 DEF Bounded
<1>5. chunk'.index \in Ids /\ Bounded'
  <2>0. chunk.index \in Nat
    BY <1>f, KeysFinite
  <2>1. chunk.index \in Nat /\ chunk'.index \in Nat
    BY <2>0, <1>2
  <2>2. chunk'.index + Cardinality(chunk'.todo) < MaxChunk + Cardinality(Keys)
    BY <2>1, <1>2, <1>3, <1>4, KeysFinite
  <2>3. chunk'.index \in 0 .. MaxChunk + Cardinality(Keys)
    BY <2>1, <2>2, <1>3, KeysFinite
  <2> QED BY <2>2, <2>3 DEF Ids, Bounded
<1>6. chunk'.del \in [Keys \X Ids -> Nat]
  <2>1. Marked(k) \in [Keys \X Ids -> Nat]
    BY ONLY <1>0, k \in Keys, MarkedIs
  <2> QED BY <2>1, <1>1 DEF Round
<1>7. chunk'.metadata \in [Keys -> Ids \cup {NoChunk}]
  BY <1>1, <1>f DEF Round
<1>8. chunks' \in [Ids -> Seq(Record)]
  <2>1. CASE updates[k] = Empty
    BY <1>0, <1>1, <2>1 DEF Round
  <2>2. CASE updates[k] # Empty
    <3>1. updates[k] \in Values
      <4>1. updates[k] # NoVal
        BY <1>0, <1>1 DEF ToWrite
      <4> QED BY <4>1, <1>0, <2>2 DEF TypeOK
    <3>2. [key |-> k, val |-> updates[k]] \in Record
      BY <3>1 DEF Record
    <3>3. Append(chunks[chunk.index], [key |-> k, val |-> updates[k]]) \in Seq(Record)
      BY <3>2, <1>0, <1>f
    <3> QED BY <3>3, <2>2, <1>0, <1>1 DEF Round
  <2> QED BY <2>1, <2>2
<1>9. chunk' \in ChunkType
  <2>1. DOMAIN chunk' = DOMAIN chunk
    BY <1>0 DEF AppendKv, ChunkType
  <2> QED BY <1>0, <1>1, <1>3, <1>5, <1>6, <1>7, <1>f DEF AppendKv, ChunkType
<1>10. ToWrite'
  BY <1>0, <1>1, <1>3 DEF ToWrite
<1>11. pc' \in Steps
  BY <1>1 DEF Round, Steps
<1> QED BY <1>0, <1>1, <1>5, <1>8, <1>9, <1>10, <1>11 DEF TypeInv, TypeOK, ChunkType

\* Every step of a checkpoint, of the commands, and of a crash.
LEMMA TypeStep == TypeInv /\ [Next]_vars => TypeInv'
<1> SUFFICES ASSUME TypeInv, [Next]_vars PROVE TypeInv'
  OBVIOUS
<1>0. chunk \in ChunkType /\ TypeOK /\ Bounded /\ ToWrite
  BY DEF TypeInv, TypeOK, ChunkType
<1>f. /\ chunk.index \in Ids /\ chunk.metadata \in [Keys -> Ids \cup {NoChunk}]
      /\ chunk.del \in [Keys \X Ids -> Nat] /\ chunk.todo \in SUBSET Keys
      /\ chunk.rewrite \in SUBSET Ids /\ chunk.target \in Ids /\ chunk.out \in Seq(Record)
  BY <1>0, ChunkFields
<1> USE DEF Steps, TypeInv, Bounded, ToWrite
<1>n. /\ NoUpdates \in [Keys -> Values \cup {Empty, NoVal}]
      /\ NoMetadata \in [Keys -> Ids \cup {NoChunk}]
      /\ NoDeletes \in [Keys \X Ids -> Nat]
  BY DEF NoUpdates, NoMetadata, NoDeletes
<1>1. ASSUME NEW k \in Keys, NEW v \in Values \cup {Empty}, Puts(k, v) PROVE TypeInv'
  BY <1>0, <1>1 DEF Puts, TypeOK
<1>2. CASE InitChunk
  <2> DEFINE todo == {k \in Keys : updates[k] # NoVal}
  <2>1. append_index \in Ids /\ append_index < MaxChunk
    BY <1>0, <1>2 DEF InitChunk, Room, TypeOK
  <2>2. chunk' = [NoObject EXCEPT !.index = append_index, !.metadata = metadata, !.todo = todo]
    BY <1>2 DEF InitChunk
  <2>3. chunk' \in ChunkType /\ chunk'.index = append_index /\ chunk'.todo = todo
    BY <2>1, <2>2, <1>0, NoObjectType DEF ChunkType, TypeOK
  <2>4. Bounded'
    <3>1. append_index \in Nat /\ todo \in SUBSET Keys
      BY <2>1, KeysFinite
    <3>2. Cardinality(todo) \in Nat /\ Cardinality(todo) <= Cardinality(Keys)
      BY <3>1, KeysFinite
    <3> HIDE DEF todo
    <3>3. append_index + Cardinality(todo) < MaxChunk + Cardinality(Keys)
      BY <3>1, <3>2, <2>1, KeysFinite
    <3> QED BY <3>3, <2>3
  <2>5. ToWrite'
    BY <2>3, <1>2 DEF InitChunk
  <2> QED BY <1>0, <1>2, <2>3, <2>4, <2>5 DEF InitChunk, TypeOK, ChunkType
<1>3. ASSUME NEW k \in Keys, AppendKv(k) PROVE TypeInv'
  BY <1>3, RoundType
<1>4. CASE OpenIndex
  BY <1>0, <1>4 DEF OpenIndex, TypeOK
<1>5. CASE WriteIndex
  BY <1>0, <1>5, <1>f DEF WriteIndex, TypeOK
<1>6. CASE OpenMetadata
  BY <1>0, <1>6, <1>n DEF OpenMetadata, TypeOK
<1>7. CASE WriteMetadata
  BY <1>0, <1>7, <1>f DEF WriteMetadata, TypeOK
<1>8. CASE AppendDeleteList
  <2>1. delete_list' \in [Keys \X Ids -> Nat]
    <3>1. \A d \in Keys \X Ids : delete_list[d] + chunk.del[d] \in Nat
      BY <1>0, <1>f DEF TypeOK
    <3> QED BY <3>1, <1>8 DEF AppendDeleteList
  <2>2. chunk' \in ChunkType
    BY <1>0, <1>8 DEF AppendDeleteList, ChunkType
  <2> QED BY <1>0, <1>8, <2>1, <2>2 DEF AppendDeleteList, TypeOK, ChunkType
<1>9. ASSUME NEW c \in Ids, OpenChunk(c) PROVE TypeInv'
  <2>1. Pruned(c) \in Seq(Record)
    BY <1>0, PrunedType DEF TypeOK
  <2>2. chunk' \in ChunkType
    BY <1>0, <1>9, <2>1 DEF OpenChunk, ChunkType
  <2> QED BY <1>0, <1>9, <2>2 DEF OpenChunk, TypeOK, ChunkType
<1>10. CASE WriteChunk
  BY <1>0, <1>10, <1>f DEF WriteChunk, TypeOK
<1>11. CASE RemoveDeleteList
  BY <1>0, <1>11, <1>n, NoObjectType DEF RemoveDeleteList, TypeOK, ChunkType
<1>12. CASE TruncateLog
  BY <1>0, <1>12, <1>n DEF TruncateLog, TypeOK
<1>13. CASE Crash
  BY <1>0, <1>13, NoObjectType DEF Crash, TypeOK, ChunkType
<1>14. CASE UNCHANGED vars
  BY <1>0, <1>14 DEF vars, TypeOK
<1> QED BY <1>1, <1>2, <1>3, <1>4, <1>5, <1>6, <1>7, <1>8, <1>9, <1>10, <1>11, <1>12,
           <1>13, <1>14 DEF Next

(***************************************************************************)
(* TypeOK: append_kvs opens no chunk file beyond the bound, stores no empty*)
(* value, and lazy_delete counts and keeps records, whatever crashes occur.*)
(***************************************************************************)
THEOREM ChunkTypeCorrect == Spec => []TypeOK
<1>1. TypeInv => TypeOK
  BY DEF TypeInv
<1> QED BY TypeInit, TypeStep, <1>1, PTL DEF Spec

------------------------------------------------------------------------------
(* Files, and what lazy_delete leaves of them.                             *)

\* Key k has a record in the file s; it has two; it has its last with value v.
Has(s, k) == \E n \in 1 .. Len(s) : s[n].key = k
Twice(s, k) == \E m, n \in 1 .. Len(s) : m < n /\ s[m].key = k /\ s[n].key = k
EndsWith(s, k, v) ==
    \E n \in 1 .. Len(s) :
        /\ s[n].key = k /\ s[n].val = v
        /\ \A m \in 1 .. Len(s) : s[m].key = k => m <= n

\* lazy_delete marks a key at most once in a chunk.
OnceMarked(d) == \A k \in Keys, c \in Ids : d[<<k, c>>] \in {0, 1}

LEMMA StaysIs ==
    ASSUME NEW c \in Ids, chunks[c] \in Seq(Record), OnceMarked(delete_list),
           NEW n \in 1 .. Len(chunks[c])
    PROVE  n \in Stays(c) <=>
              \/ delete_list[<<chunks[c][n].key, c>>] = 0
              \/ \E m \in 1 .. Len(chunks[c]) : m < n /\ chunks[c][m].key = chunks[c][n].key
<1> DEFINE s == chunks[c]
           k == s[n].key
           A == {m \in Copies(c, k) : m <= n}
           d == delete_list[<<k, c>>]
<1>1. Len(s) \in Nat /\ s[n] \in Record
  OBVIOUS
<1>2. k \in Keys /\ d \in {0, 1}
  BY <1>1 DEF Record, OnceMarked
<1>3. A \in SUBSET (1 .. n) /\ n \in A /\ IsFiniteSet(A) /\ n \in Nat
  <2>1. A \in SUBSET (1 .. n) /\ n \in A
    BY <1>1 DEF Copies
  <2>2. n \in Nat /\ IsFiniteSet(1 .. n)
    BY <1>1, FS_Interval
  <2> HIDE DEF A
  <2>3. IsFiniteSet(A)
    BY <2>1, <2>2, FS_Subset
  <2> QED BY <2>1, <2>2, <2>3
<1>4. Cardinality(A) \in Nat /\ Cardinality(A) >= 1
  <2> HIDE DEF A
  <2>1. Cardinality(A) \in Nat
    BY <1>3, FS_CardinalityType
  <2>2. Cardinality(A) # 0
    BY <1>3, FS_EmptySet
  <2> QED BY <2>1, <2>2
<1>5. ASSUME NEW m \in A, m # n PROVE Cardinality(A) > 1
  <2>1. n \in A \ {m} /\ IsFiniteSet(A \ {m})
    BY <1>3, <1>5, FS_Subset
  <2>2. Cardinality(A \ {m}) \in Nat /\ Cardinality(A \ {m}) # 0
    BY <2>1, FS_CardinalityType, FS_EmptySet
  <2>3. Cardinality(A \ {m}) = Cardinality(A) - 1
    BY <1>3, FS_RemoveElement
  <2> QED BY <2>2, <2>3, <1>4
<1>6. ASSUME \A m \in A : m = n PROVE Cardinality(A) = 1
  <2>1. A = {n}
    BY <1>6, <1>3
  <2> QED BY <2>1, FS_Singleton
<1>7. n \in Stays(c) <=> Cardinality(A) > d
  BY DEF Stays
<1>8. \A m \in 1 .. Len(s) : m < n /\ s[m].key = k <=> m \in A /\ m # n
  BY <1>1 DEF Copies
<1> HIDE DEF A, d
<1>9. CASE d = 0
  BY <1>9, <1>7, <1>4 DEF d
<1>10. CASE d = 1
  <2>1. CASE \E m \in A : m # n
    <3>1. Cardinality(A) > 1
      BY <2>1, <1>5
    <3>2. \E m \in 1 .. Len(s) : m < n /\ s[m].key = k
      <4>1. A \subseteq 1 .. Len(s)
        BY <1>1 DEF A, Copies
      <4> QED BY <4>1, <2>1, <1>8
    <3> QED BY <3>1, <3>2, <1>7, <1>10
  <2>2. CASE \A m \in A : m = n
    BY <2>2, <1>6, <1>7, <1>8, <1>10 DEF d
  <2> QED BY <2>1, <2>2
<1> QED BY <1>2, <1>9, <1>10

\* What the loop of lazy_delete makes of a file: f names the positions that stay.
LEMMA PrunedIs ==
    ASSUME NEW c \in Ids, chunks[c] \in Seq(Record), OnceMarked(delete_list)
    PROVE  /\ Pruned(c) \in Seq(Record)
           /\ \E f \in [1 .. Len(Pruned(c)) -> 1 .. Len(chunks[c])] :
                /\ \A j \in 1 .. Len(Pruned(c)) : Pruned(c)[j] = chunks[c][f[j]]
                /\ \A i, j \in 1 .. Len(Pruned(c)) : i < j => f[i] < f[j]
                /\ \A n \in 1 .. Len(chunks[c]) :
                     (\E j \in 1 .. Len(Pruned(c)) : f[j] = n) <=>
                        \/ delete_list[<<chunks[c][n].key, c>>] = 0
                        \/ \E m \in 1 .. Len(chunks[c]) :
                              m < n /\ chunks[c][m].key = chunks[c][n].key
<1> DEFINE s == chunks[c]
           p == Pruned(c)
           K == Stays(c)
<1>0. s \in Seq(Record) /\ K \in SUBSET (1 .. Len(s)) /\ p = Pick(s, K) /\ p \in Seq(Record)
  BY PrunedType DEF Pruned
<1>6. \A n \in 1 .. Len(s) : n \in K <=>
         \/ delete_list[<<s[n].key, c>>] = 0
         \/ \E m \in 1 .. Len(s) : m < n /\ s[m].key = s[n].key
  BY StaysIs
<1> HIDE DEF p, s, K
<1>2. DOMAIN p = 1 .. Len(p)
  BY <1>0
<1>3. PICK f \in [DOMAIN p -> K] :
         /\ \A k \in DOMAIN p : p[k] = s[f[k]]
         /\ \A j, k \in DOMAIN p : j < k => f[j] < f[k]
         /\ \A n \in K : \E k \in DOMAIN p : f[k] = n
  BY SMTT(40), <1>0, PickFacts
<1>4. f \in [1 .. Len(p) -> 1 .. Len(s)]
  BY <1>0, <1>2, <1>3
<1>5. \A n \in 1 .. Len(s) : (\E j \in 1 .. Len(p) : f[j] = n) <=> n \in K
  BY <1>2, <1>3
<1>7. /\ \A j \in 1 .. Len(p) : p[j] = s[f[j]]
      /\ \A i, j \in 1 .. Len(p) : i < j => f[i] < f[j]
      /\ \A n \in 1 .. Len(s) : (\E j \in 1 .. Len(p) : f[j] = n) <=>
            \/ delete_list[<<s[n].key, c>>] = 0
            \/ \E m \in 1 .. Len(s) : m < n /\ s[m].key = s[n].key
  BY <1>2, <1>3, <1>5, <1>6
<1> QED BY <1>0, <1>4, <1>7 DEF p, s

\* A key that is not marked, or has two records, keeps its last one.
LEMMA PrunedKeeps ==
    ASSUME NEW c \in Ids, chunks[c] \in Seq(Record), OnceMarked(delete_list),
           NEW k \in Keys, delete_list[<<k, c>>] = 0 \/ Twice(chunks[c], k)
    PROVE  /\ Has(chunks[c], k) => Has(Pruned(c), k)
           /\ \A v : EndsWith(chunks[c], k, v) => EndsWith(Pruned(c), k, v)
<1> DEFINE s == chunks[c]
           p == Pruned(c)
<1>1. PICK f \in [1 .. Len(p) -> 1 .. Len(s)] :
         /\ \A j \in 1 .. Len(p) : p[j] = s[f[j]]
         /\ \A i, j \in 1 .. Len(p) : i < j => f[i] < f[j]
         /\ \A n \in 1 .. Len(s) : (\E j \in 1 .. Len(p) : f[j] = n) <=>
               \/ delete_list[<<s[n].key, c>>] = 0
               \/ \E m \in 1 .. Len(s) : m < n /\ s[m].key = s[n].key
  BY PrunedIs
<1>2. Len(s) \in Nat /\ Len(p) \in Nat
  BY PrunedIs
<1> HIDE DEF s, p
<1>3. ASSUME Has(s, k) PROVE Has(p, k)
  <2>1. PICK n \in 1 .. Len(s) : s[n].key = k
    BY <1>3 DEF Has
  <2>0. ASSUME NEW m \in 1 .. Len(s), s[m].key = k, NEW j \in 1 .. Len(p), f[j] = m
        PROVE  Has(p, k)
    <3>1. p[j].key = k
      BY <2>0, <1>1
    <3> QED BY <3>1 DEF Has
  <2>2. CASE delete_list[<<k, c>>] = 0
    <3>1. \E j \in 1 .. Len(p) : f[j] = n
      BY <2>1, <2>2, <1>1
    <3> QED BY <3>1, <2>0, <2>1
  <2>3. CASE Twice(s, k)
    <3>1. PICK a, b \in 1 .. Len(s) : a < b /\ s[a].key = k /\ s[b].key = k
      BY <2>3 DEF Twice
    <3>2. \E j \in 1 .. Len(p) : f[j] = b
      BY <3>1, <1>1
    <3> QED BY <3>1, <3>2, <2>0
  <2> QED BY <2>2, <2>3 DEF s
<1>4. ASSUME NEW v, EndsWith(s, k, v) PROVE EndsWith(p, k, v)
  <2>1. PICK n \in 1 .. Len(s) :
           /\ s[n].key = k /\ s[n].val = v
           /\ \A m \in 1 .. Len(s) : s[m].key = k => m <= n
    BY <1>4 DEF EndsWith
  <2>2. \E j \in 1 .. Len(p) : f[j] = n
    <3>1. CASE delete_list[<<k, c>>] = 0
      BY <2>1, <3>1, <1>1
    <3>2. CASE Twice(s, k)
      <4>1. PICK a, b \in 1 .. Len(s) : a < b /\ s[a].key = k /\ s[b].key = k
        BY <3>2 DEF Twice
      <4>2. a < n
        BY <4>1, <2>1, <1>2
      <4> QED BY <4>1, <4>2, <2>1, <1>1
    <3> QED BY <3>1, <3>2 DEF s
  <2>3. PICK j \in 1 .. Len(p) : f[j] = n
    BY <2>2
  <2>4. p[j].key = k /\ p[j].val = v
    BY <2>1, <2>3, <1>1
  <2>5. ASSUME NEW i \in 1 .. Len(p), p[i].key = k PROVE i <= j
    <3>1. f[i] <= n
      BY <2>1, <2>5, <1>1
    <3>2. ~(j < i)
      <4> SUFFICES ASSUME j < i PROVE FALSE
        OBVIOUS
      <4>1. f[j] < f[i]
        BY <1>1
      <4>2. f[i] \in 1 .. Len(s) /\ f[j] \in 1 .. Len(s)
        OBVIOUS
      <4>3. f[i] \in Int /\ f[j] \in Int /\ n \in Int
        BY ONLY <4>2, n \in 1 .. Len(s), <1>2
      <4> QED BY ONLY <4>1, <4>3, <3>1, <2>3
    <3> QED BY <3>2, <1>2
  <2> QED BY <2>4, <2>5 DEF EndsWith
<1> QED BY <1>3, <1>4 DEF s, p

\* append_kv writes at the end of a file.
LEMMA AppendHas ==
    ASSUME NEW s \in Seq(Record), NEW r \in Record, NEW k \in Keys
    PROVE  /\ Append(s, r) \in Seq(Record)
           /\ r.key = k => EndsWith(Append(s, r), k, r.val)
           /\ Has(Append(s, r), k) <=> r.key = k \/ Has(s, k)
           /\ Twice(s, k) => Twice(Append(s, r), k)
           /\ r.key = k /\ Has(s, k) => Twice(Append(s, r), k)
           /\ r.key # k => \A v : EndsWith(s, k, v) => EndsWith(Append(s, r), k, v)
<1> DEFINE t == Append(s, r)
<1>1. /\ t \in Seq(Record) /\ Len(s) \in Nat /\ Len(t) = Len(s) + 1
      /\ \A n \in 1 .. Len(s) : t[n] = s[n]
      /\ t[Len(s) + 1] = r
  OBVIOUS
<1> HIDE DEF t
<1>2. Len(s) + 1 \in 1 .. Len(t) /\ 1 .. Len(s) \subseteq 1 .. Len(t)
      /\ \A n \in 1 .. Len(t) : n \in 1 .. Len(s) \/ n = Len(s) + 1
  BY <1>1
<1>3. r.key = k => EndsWith(t, k, r.val)
  BY <1>1, <1>2 DEF EndsWith
<1>4. Has(t, k) <=> r.key = k \/ Has(s, k)
  BY <1>1, <1>2 DEF Has
<1>5. Twice(s, k) => Twice(t, k)
  BY <1>1, <1>2 DEF Twice
<1>6. r.key = k /\ Has(s, k) => Twice(t, k)
  BY <1>1, <1>2 DEF Twice, Has
<1>7. ASSUME NEW v, r.key # k, EndsWith(s, k, v) PROVE EndsWith(t, k, v)
  BY <1>1, <1>2, <1>7 DEF EndsWith
<1> QED BY <1>1, <1>3, <1>4, <1>5, <1>6, <1>7 DEF t

------------------------------------------------------------------------------
(* The last value of every key is kept.                                    *)

\* A file as it will be when the write under way is done.
File(c) == IF pc = "rewriting" /\ c = chunk.target THEN chunk.out ELSE chunks[c]

\* The chunk files give back what was last written to k, found through md.
Gives(md, k) ==
    IF md[k] = NoChunk THEN written[k] = Empty ELSE EndsWith(File(md[k]), k, written[k])

Updating == pc \in {"append", "index", "indexed", "meta", "listing"}
Listed   == pc \in {"listing", "deleting", "rewriting", "truncate"}
Deleting == pc \in {"deleting", "rewriting"}

\* The log holds updates, and updates hold what was last written.
MemoryInv ==
    \A k \in Keys : log[k] \in {NoVal, updates[k]} /\ updates[k] \in {NoVal, written[k]}

\* A key that is listed in a chunk has a record there.
PlaceInv ==
    /\ \A k \in Keys : metadata[k] # NoChunk => Has(File(metadata[k]), k)
    /\ Updating => \A k \in Keys :
          chunk.metadata[k] # NoChunk => Has(File(chunk.metadata[k]), k)

\* The disk gives back what the log does not hold, and the new metadata also
\* what this checkpoint has moved.
DiskInv ==
    /\ pc # "index" => append_index # Torn
    /\ pc # "meta" => \A k \in Keys : (log[k] = NoVal \/ Listed) => Gives(metadata, k)
    /\ Updating => \A k \in Keys :
          (log[k] = NoVal \/ k \notin chunk.todo) => Gives(chunk.metadata, k)
    /\ Updating /\ pc # "append" => chunk.todo = {}
    /\ pc = "listing" => chunk.metadata = metadata

\* A record marked for deletion is followed by another if its key is listed there.
MarkInv ==
    /\ Updating =>
        /\ OnceMarked(chunk.del)
        /\ \A k \in Keys, c \in Ids :
              /\ k \in chunk.todo => chunk.del[<<k, c>>] = 0
              /\ chunk.metadata[k] = c /\ chunk.del[<<k, c>>] = 1 => Twice(chunks[c], k)
    /\ Deleting =>
        /\ OnceMarked(delete_list)
        /\ \A k \in Keys, c \in chunk.rewrite :
              metadata[k] = c /\ delete_list[<<k, c>>] = 1 => Twice(chunks[c], k)
    /\ pc = "rewriting" => chunk.target \notin chunk.rewrite
    /\ ~Deleting => delete_list = NoDeletes

DurableInv == TypeInv /\ MemoryInv /\ PlaceInv /\ DiskInv /\ MarkInv

\* Crashes where no file is empty, nor half of the marked records erased.
Untorn == CrashAt \cap {"index", "meta", "deleting", "rewriting"} = {}

\* Initially nothing is written.
LEMMA DurableInit == Init => DurableInv
<1> SUFFICES ASSUME Init PROVE DurableInv
  OBVIOUS
<1>1. TypeInv
  BY TypeInit
<1>2. MemoryInv
  BY DEF Init, MemoryInv, NoUpdates
<1>3. PlaceInv
  BY DEF Init, PlaceInv, NoMetadata, Updating
<1>4. DiskInv
  <2>1. append_index # Torn
    BY DEF Init, Torn
  <2> QED BY <2>1 DEF Init, DiskInv, NoMetadata, Gives, Updating, Listed
<1>5. MarkInv
  BY DEF Init, MarkInv, Updating, Deleting
<1> QED BY <1>1, <1>2, <1>3, <1>4, <1>5 DEF DurableInv

\* The parts of the types that the steps below need.
LEMMA DurableTypes ==
    ASSUME DurableInv
    PROVE  /\ TypeOK /\ chunk \in ChunkType
           /\ chunk.index \in Ids /\ chunk.metadata \in [Keys -> Ids \cup {NoChunk}]
           /\ chunk.del \in [Keys \X Ids -> Nat] /\ chunk.todo \in SUBSET Keys
           /\ chunk.rewrite \in SUBSET Ids /\ chunk.target \in Ids /\ chunk.out \in Seq(Record)
           /\ metadata \in [Keys -> Ids \cup {NoChunk}] /\ chunks \in [Ids -> Seq(Record)]
           /\ delete_list \in [Keys \X Ids -> Nat]
           /\ updates \in [Keys -> Values \cup {Empty, NoVal}]
           /\ log \in [Keys -> Values \cup {Empty, NoVal}]
           /\ written \in [Keys -> Values \cup {Empty}]
           /\ NoVal \notin Values \cup {Empty} /\ Empty \notin Values
           /\ NoChunk \notin Ids
<1>1. TypeOK /\ chunk \in ChunkType
  BY DEF DurableInv, TypeInv, TypeOK, ChunkType
<1> QED BY <1>1, ChunkFields, ChunkValues, KeysFinite DEF TypeOK

\* The empty list of deletions.
LEMMA NothingMarked ==
    OnceMarked(NoDeletes) /\ \A k \in Keys, c \in Ids : NoDeletes[<<k, c>>] = 0
BY DEF OnceMarked, NoDeletes

\* Commands change memory and the log alike.
LEMMA DurablePuts ==
    ASSUME DurableInv, NEW k \in Keys, NEW v \in Values \cup {Empty}, Puts(k, v)
    PROVE  (MemoryInv /\ PlaceInv /\ DiskInv /\ MarkInv)'
<1>0. MemoryInv /\ PlaceInv /\ DiskInv /\ MarkInv
  BY DEF DurableInv
<1>t. DurableInv
  OBVIOUS
<1>1. /\ pc = "idle" /\ pc' = "idle"
      /\ updates' = [updates EXCEPT ![k] = v]
      /\ log' = [log EXCEPT ![k] = v]
      /\ written' = [written EXCEPT ![k] = v]
      /\ UNCHANGED <<pc, chunk, append_index, metadata, chunks, delete_list, interrupted>>
  BY DEF Puts
<1>2. MemoryInv'
  BY <1>0, <1>1, <1>t, DurableTypes DEF MemoryInv
<1>3. \A c : File(c)' = File(c)
  BY <1>1 DEF File
<1>4. PlaceInv'
  BY <1>0, <1>1, <1>3 DEF PlaceInv, Updating, File
<1>5. \A j \in Keys : log'[j] = NoVal => j # k /\ log[j] = NoVal /\ written'[j] = written[j]
  BY <1>1, <1>t, DurableTypes
<1>6. DiskInv'
  BY <1>0, <1>1, <1>3, <1>5 DEF DiskInv, Gives, Updating, Listed, File
<1>7. MarkInv'
  BY <1>0, <1>1 DEF MarkInv, Updating, Deleting
<1> QED BY <1>2, <1>4, <1>6, <1>7

\* Chunk::init: nothing is marked, and what has no update is not in the log.
LEMMA DurableInitChunk ==
    ASSUME DurableInv, InitChunk
    PROVE  (MemoryInv /\ PlaceInv /\ DiskInv /\ MarkInv)'
<1>0. MemoryInv /\ PlaceInv /\ DiskInv /\ MarkInv
  BY DEF DurableInv
<1>t. DurableInv
  OBVIOUS
<1> DEFINE todo == {k \in Keys : updates[k] # NoVal}
<1>1. /\ pc = "idle" /\ pc' = "append" /\ append_index # Torn
      /\ chunk'.metadata = metadata /\ chunk'.todo = todo /\ chunk'.del = NoDeletes
      /\ UNCHANGED <<updates, log, append_index, metadata, chunks, delete_list, written, interrupted>>
  BY DEF InitChunk, NoObject
<1>3. \A c : File(c)' = File(c)
  BY <1>1 DEF File
<1>4. PlaceInv'
  BY <1>0, <1>1, <1>3 DEF PlaceInv, Updating, File
<1>5. \A j \in Keys : j \notin todo => log[j] = NoVal
  BY <1>0 DEF MemoryInv
<1> HIDE DEF todo
<1>6. DiskInv'
  BY <1>0, <1>1, <1>3, <1>5 DEF DiskInv, Gives, Updating, Listed, File
<1>7. MarkInv'
  BY <1>0, <1>1, NothingMarked DEF MarkInv, Updating, Deleting
<1>2. MemoryInv'
  BY <1>0, <1>1 DEF MemoryInv
<1> QED BY <1>2, <1>4, <1>6, <1>7

\* A round of append_kvs: the record of k is the last of its chunk; if k had
\* one in the same chunk, it has two now, of which one is marked.
LEMMA DurableRound ==
    ASSUME DurableInv, NEW k \in Keys, AppendKv(k)
    PROVE  (MemoryInv /\ PlaceInv /\ DiskInv /\ MarkInv)'
<1>0. MemoryInv /\ PlaceInv /\ DiskInv /\ MarkInv /\ ToWrite
  BY DEF DurableInv, TypeInv
<1>t. /\ TypeOK /\ chunk \in ChunkType
      /\ chunk.index \in Ids /\ chunk.metadata \in [Keys -> Ids \cup {NoChunk}]
      /\ chunk.del \in [Keys \X Ids -> Nat] /\ chunk.todo \in SUBSET Keys
      /\ metadata \in [Keys -> Ids \cup {NoChunk}] /\ chunks \in [Ids -> Seq(Record)]
      /\ updates \in [Keys -> Values \cup {Empty, NoVal}]
      /\ NoChunk \notin Ids
  BY DurableTypes
<1>1. /\ Round(k) /\ k \in chunk.todo /\ pc = "append" /\ pc' = "append"
      /\ UNCHANGED <<updates, log, append_index, metadata, delete_list, written, interrupted>>
  BY <1>t, AppendKvIs DEF Round
<1>2. MemoryInv'
  BY <1>0, <1>1 DEF MemoryInv
<1>3. updates[k] = written[k] /\ updates[k] # NoVal
  BY <1>0, <1>1 DEF MemoryInv, ToWrite
<1>4. chunk'.todo = chunk.todo \ {k} /\ chunk'.del = Marked(k)
  BY <1>1 DEF Round
<1>m. \A j \in Keys, c \in Ids :
         Marked(k)[<<j, c>>] =
                    IF /\ j = k
                       /\ \/ c = chunk.metadata[k]
                          \/ c = 0 /\ chunk.metadata[k] = NoChunk /\ updates[k] = Empty
                    THEN chunk.del[<<j, c>>] + 1 ELSE chunk.del[<<j, c>>]
  BY <1>t, MarkedIs
<1>d. /\ OnceMarked(chunk.del)
      /\ \A j \in Keys, c \in Ids :
            /\ j \in chunk.todo => chunk.del[<<j, c>>] = 0
            /\ chunk.metadata[j] = c /\ chunk.del[<<j, c>>] = 1 => Twice(chunks[c], j)
  BY <1>0, <1>1 DEF MarkInv, Updating
<1>o. OnceMarked(Marked(k))
  <2> SUFFICES ASSUME NEW j \in Keys, NEW c \in Ids PROVE Marked(k)[<<j, c>>] \in {0, 1}
    BY DEF OnceMarked
  <2>1. chunk.del[<<j, c>>] \in {0, 1} /\ (j = k => chunk.del[<<j, c>>] = 0)
    BY <1>d, <1>1 DEF OnceMarked
  <2> QED BY <2>1, <1>m
<1>p. \A j \in Keys : /\ metadata[j] # NoChunk => Has(chunks[metadata[j]], j)
                      /\ chunk.metadata[j] # NoChunk => Has(chunks[chunk.metadata[j]], j)
  BY <1>0, <1>1 DEF PlaceInv, Updating, File
<1>g. \A j \in Keys :
         /\ log[j] = NoVal /\ metadata[j] # NoChunk => EndsWith(chunks[metadata[j]], j, written[j])
         /\ log[j] = NoVal /\ metadata[j] = NoChunk => written[j] = Empty
         /\ (log[j] = NoVal \/ j \notin chunk.todo) =>
               /\ chunk.metadata[j] # NoChunk => EndsWith(chunks[chunk.metadata[j]], j, written[j])
               /\ chunk.metadata[j] = NoChunk => written[j] = Empty
  BY <1>0, <1>1 DEF DiskInv, Updating, Gives, File, Listed
<1>5. CASE updates[k] = Empty
  <2>1. /\ chunks' = chunks /\ chunk'.metadata = [chunk.metadata EXCEPT ![k] = NoChunk]
    BY <1>1, <1>5, <1>3 DEF Round
  <2>2. /\ chunk'.metadata[k] = NoChunk
        /\ \A j \in Keys : j # k => chunk'.metadata[j] = chunk.metadata[j]
    BY <2>1, <1>t
  <2>3. PlaceInv'
    BY <1>p, <2>1, <2>2, <1>1 DEF PlaceInv, File
  <2>4. DiskInv'
    <3>1. \A j \in Keys : log[j] = NoVal => Gives(metadata, j)'
      BY <1>g, <2>1, <1>1 DEF Gives, File
    <3>2. \A j \in Keys : (log[j] = NoVal \/ j \notin chunk'.todo) => Gives(chunk.metadata, j)'
      <4> SUFFICES ASSUME NEW j \in Keys, log[j] = NoVal \/ j \notin chunk'.todo
                   PROVE  Gives(chunk.metadata, j)'
        OBVIOUS
      <4>1. CASE j = k
        BY <4>1, <2>2, <1>1, <1>3, <1>5 DEF Gives
      <4>2. CASE j # k
        BY <4>2, <2>1, <2>2, <1>g, <1>1, <1>4 DEF Gives, File
      <4> QED BY <4>1, <4>2
    <3> QED BY <3>1, <3>2, <1>0, <1>1 DEF DiskInv, Listed, Updating
  <2>5. MarkInv'
    <3>1. ASSUME NEW j \in Keys, NEW c \in Ids, j \in chunk'.todo
          PROVE  chunk'.del[<<j, c>>] = 0
      BY <3>1, <1>d, <1>m, <1>4
    <3>2. ASSUME NEW j \in Keys, NEW c \in Ids,
                 chunk'.metadata[j] = c, chunk'.del[<<j, c>>] = 1
          PROVE  Twice(chunks'[c], j)
      <4>1. j # k
        BY <3>2, <2>2, <1>t
      <4>2. chunk.metadata[j] = c /\ chunk.del[<<j, c>>] = 1
        BY <4>1, <3>2, <2>2, <1>m, <1>4
      <4> QED BY <4>2, <1>d, <2>1
    <3> QED BY <3>1, <3>2, <1>o, <1>4, <1>0, <1>1 DEF MarkInv, Updating, Deleting
  <2> QED BY <1>2, <2>3, <2>4, <2>5
<1>6. CASE updates[k] # Empty
  <2> DEFINE i == chunk.index
             r == [key |-> k, val |-> updates[k]]
  <2>r. r \in Record /\ r.key = k /\ r.val = written[k] /\ i \in Ids
    BY <1>6, <1>3, <1>t DEF Record
  <2>1. /\ chunks' = [chunks EXCEPT ![i] = Append(chunks[i], r)]
        /\ chunk'.metadata = [chunk.metadata EXCEPT ![k] = i]
    BY <1>1, <1>6 DEF Round
  <2> HIDE DEF i, r
  <2>2. /\ chunk'.metadata[k] = i /\ chunks'[i] = Append(chunks[i], r)
        /\ \A j \in Keys : j # k => chunk'.metadata[j] = chunk.metadata[j]
        /\ \A c \in Ids : c # i => chunks'[c] = chunks[c]
    BY <2>1, <2>r, <1>t
  <2>3. ASSUME NEW j \in Keys
        PROVE  /\ j = k => EndsWith(chunks'[i], k, written[k])
               /\ \A c \in Ids : Has(chunks[c], j) => Has(chunks'[c], j)
               /\ \A c \in Ids : Twice(chunks[c], j) => Twice(chunks'[c], j)
               /\ j # k => \A v : \A c \in Ids : EndsWith(chunks[c], j, v) => EndsWith(chunks'[c], j, v)
               /\ Has(chunks[i], k) => Twice(chunks'[i], k)
               /\ Has(chunks'[i], k)
    <3>1. chunks[i] \in Seq(Record)
      BY <1>t, <2>r
    <3>2. /\ r.key = k => EndsWith(Append(chunks[i], r), k, r.val)
          /\ Has(Append(chunks[i], r), k) <=> r.key = k \/ Has(chunks[i], k)
          /\ r.key = k /\ Has(chunks[i], k) => Twice(Append(chunks[i], r), k)
          /\ Has(Append(chunks[i], r), j) <=> r.key = j \/ Has(chunks[i], j)
          /\ Twice(chunks[i], j) => Twice(Append(chunks[i], r), j)
          /\ r.key # j => \A v : EndsWith(chunks[i], j, v) => EndsWith(Append(chunks[i], r), j, v)
      BY <3>1, <2>r, AppendHas
    <3> QED BY <3>2, <2>2, <2>r
  <2>4. PlaceInv'
    <3>1. \A j \in Keys : chunk'.metadata[j] # NoChunk => Has(chunks'[chunk'.metadata[j]], j)
      BY <1>p, <2>2, <2>3, <1>t
    <3>2. \A j \in Keys : metadata[j] # NoChunk => Has(chunks'[metadata[j]], j)
      BY <1>p, <2>3, <1>t
    <3> QED BY <3>1, <3>2, <1>1 DEF PlaceInv, File
  <2>5. DiskInv'
    <3>1. ASSUME NEW j \in Keys, log[j] = NoVal PROVE Gives(metadata, j)'
      <4>1. metadata[j] # NoChunk => EndsWith(chunks'[metadata[j]], j, written[j])
        <5>1. CASE j = k
          <6>1. CASE metadata[j] = i
            BY <5>1, <6>1, <2>3
          <6>2. CASE metadata[j] # i /\ metadata[j] # NoChunk
            <7>1. metadata[j] \in Ids
              BY <6>2, <1>t
            <7> QED BY <7>1, <6>2, <2>2, <1>g, <3>1
          <6> QED BY <6>1, <6>2
        <5>2. CASE j # k
          BY <5>2, <2>3, <1>g, <3>1, <1>t
        <5> QED BY <5>1, <5>2
      <4> QED BY <4>1, <3>1, <1>g, <1>1 DEF Gives, File
    <3>2. ASSUME NEW j \in Keys, log[j] = NoVal \/ j \notin chunk'.todo
          PROVE  Gives(chunk.metadata, j)'
      <4>1. CASE j = k
        BY <4>1, <2>2, <2>3, <2>r, <1>1, <1>t DEF Gives, File
      <4>2. CASE j # k
        <5>1. log[j] = NoVal \/ j \notin chunk.todo
          BY <3>2, <4>2, <1>4
        <5>2. chunk.metadata[j] # NoChunk => EndsWith(chunks'[chunk.metadata[j]], j, written[j])
          BY <5>1, <4>2, <2>3, <1>g, <1>t
        <5> QED BY <5>1, <5>2, <4>2, <2>2, <1>g, <1>1 DEF Gives, File
      <4> QED BY <4>1, <4>2
    <3> QED BY <3>1, <3>2, <1>0, <1>1 DEF DiskInv, Listed, Updating
  <2>6. MarkInv'
    <3>1. ASSUME NEW j \in Keys, NEW c \in Ids, j \in chunk'.todo
          PROVE  chunk'.del[<<j, c>>] = 0
      BY <3>1, <1>d, <1>m, <1>4
    <3>2. ASSUME NEW j \in Keys, NEW c \in Ids,
                 chunk'.metadata[j] = c, chunk'.del[<<j, c>>] = 1
          PROVE  Twice(chunks'[c], j)
      <4>1. CASE j = k
        <5>1. c = i /\ chunk.del[<<k, c>>] = 0
          BY <4>1, <3>2, <2>2, <1>1, <1>d
        <5>2. chunk.metadata[k] = c
          BY <4>1, <3>2, <5>1, <1>m, <1>4, <1>6
        <5>3. Has(chunks[i], k)
          BY <5>1, <5>2, <1>p, <1>t
        <5> QED BY <5>1, <5>3, <4>1, <2>3
      <4>2. CASE j # k
        <5>1. chunk.metadata[j] = c /\ chunk.del[<<j, c>>] = 1
          BY <4>2, <3>2, <2>2, <1>m, <1>4
        <5> QED BY <5>1, <1>d, <2>3
      <4> QED BY <4>1, <4>2
    <3> QED BY <3>1, <3>2, <1>o, <1>4, <1>0, <1>1 DEF MarkInv, Updating, Deleting
  <2> QED BY <1>2, <2>4, <2>5, <2>6
<1> QED BY <1>5, <1>6

\* write_meta_back: the new metadata take the place of the old.
LEMMA DurableFiles ==
    ASSUME DurableInv, OpenIndex \/ WriteIndex \/ OpenMetadata \/ WriteMetadata
    PROVE  (MemoryInv /\ PlaceInv /\ DiskInv /\ MarkInv)'
<1>0. MemoryInv /\ PlaceInv /\ DiskInv /\ MarkInv
  BY DEF DurableInv
<1>t. /\ chunk.index \in Ids /\ Torn \notin Ids
      /\ metadata \in [Keys -> Ids \cup {NoChunk}]
  BY DurableTypes, KeysFinite
<1>1. /\ UNCHANGED <<updates, chunk, log, chunks, delete_list, written, interrupted>>
      /\ pc # "rewriting" /\ pc' # "rewriting" /\ Updating /\ Updating'
  BY DEF OpenIndex, WriteIndex, OpenMetadata, WriteMetadata, Updating
<1>2. MemoryInv'
  BY <1>0, <1>1 DEF MemoryInv
<1>3. \A c : File(c)' = File(c) /\ File(c) = chunks[c]
  BY <1>1 DEF File
<1>4. MarkInv'
  BY <1>0, <1>1 DEF MarkInv, Updating, Deleting
<1>5. CASE OpenIndex
  <2>1. pc = "append" /\ pc' = "index" /\ chunk.todo = {} /\ metadata' = metadata
    BY <1>5 DEF OpenIndex
  <2>2. PlaceInv'
    BY <1>0, <1>1, <1>3, <2>1 DEF PlaceInv
  <2>3. DiskInv'
    BY <1>0, <1>1, <1>3, <2>1 DEF DiskInv, Gives, Updating, Listed
  <2> QED BY <1>2, <1>4, <2>2, <2>3
<1>6. CASE WriteIndex
  <2>1. pc = "index" /\ pc' = "indexed" /\ append_index' = chunk.index /\ metadata' = metadata
    BY <1>6 DEF WriteIndex
  <2>2. PlaceInv'
    BY <1>0, <1>1, <1>3, <2>1 DEF PlaceInv
  <2>3. DiskInv'
    BY <1>0, <1>1, <1>3, <2>1, <1>t DEF DiskInv, Gives, Updating, Listed
  <2> QED BY <1>2, <1>4, <2>2, <2>3
<1>7. CASE OpenMetadata
  <2>1. /\ pc = "indexed" /\ pc' = "meta" /\ metadata' = NoMetadata
        /\ append_index' = append_index
    BY <1>7 DEF OpenMetadata
  <2>2. PlaceInv'
    BY <1>0, <1>1, <1>3, <2>1 DEF PlaceInv, NoMetadata
  <2>3. DiskInv'
    BY <1>0, <1>1, <1>3, <2>1 DEF DiskInv, Gives, Updating, Listed
  <2> QED BY <1>2, <1>4, <2>2, <2>3
<1>8. CASE WriteMetadata
  <2>1. /\ pc = "meta" /\ pc' = "listing" /\ metadata' = chunk.metadata
        /\ append_index' = append_index
    BY <1>8 DEF WriteMetadata
  <2>2. PlaceInv'
    BY <1>0, <1>1, <1>3, <2>1 DEF PlaceInv
  <2>3. DiskInv'
    <3>1. chunk.todo = {}
      BY <1>0, <1>1, <2>1 DEF DiskInv
    <3>2. \A k \in Keys : Gives(chunk.metadata, k)
      BY <3>1, <1>0, <1>1 DEF DiskInv
    <3>3. \A k \in Keys : Gives(metadata, k)' /\ Gives(chunk.metadata, k)'
      BY <3>2, <2>1, <1>1, <1>3 DEF Gives
    <3> QED BY <1>0, <1>1, <2>1, <3>1, <3>3 DEF DiskInv, Listed
  <2> QED BY <1>2, <1>4, <2>2, <2>3
<1> QED BY <1>5, <1>6, <1>7, <1>8

\* lazy_delete reads the list that write_meta_back has written.
LEMMA DurableListing ==
    ASSUME DurableInv, AppendDeleteList
    PROVE  (MemoryInv /\ PlaceInv /\ DiskInv /\ MarkInv)'
<1>0. MemoryInv /\ PlaceInv /\ DiskInv /\ MarkInv
  BY DEF DurableInv
<1>t. /\ chunk.del \in [Keys \X Ids -> Nat] /\ chunk \in ChunkType
      /\ delete_list \in [Keys \X Ids -> Nat]
  BY DurableTypes
<1>1. /\ pc = "listing" /\ pc' = "deleting"
      /\ delete_list' = [d \in Keys \X Ids |-> delete_list[d] + chunk.del[d]]
      /\ UNCHANGED <<updates, log, append_index, metadata, chunks, written, interrupted>>
  BY DEF AppendDeleteList
<1>2. \A k \in Keys, c \in Ids : delete_list'[<<k, c>>] = chunk.del[<<k, c>>]
  <2> SUFFICES ASSUME NEW k \in Keys, NEW c \in Ids
               PROVE  delete_list'[<<k, c>>] = chunk.del[<<k, c>>]
    OBVIOUS
  <2>1. delete_list[<<k, c>>] = 0
    BY <1>0, <1>1, NothingMarked DEF MarkInv, Deleting
  <2> QED BY <2>1, <1>1, <1>t
<1>3. chunk'.rewrite \in SUBSET Ids
  BY <1>t DEF AppendDeleteList, ChunkType
<1>4. \A c : File(c)' = File(c)
  BY <1>1 DEF File
<1>5. MemoryInv'
  BY <1>0, <1>1 DEF MemoryInv
<1>6. PlaceInv'
  BY <1>0, <1>1, <1>4 DEF PlaceInv, Updating
<1>7. DiskInv'
  BY <1>0, <1>1, <1>4 DEF DiskInv, Gives, Updating, Listed
<1>8. MarkInv'
  <2>1. /\ OnceMarked(chunk.del) /\ chunk.metadata = metadata
        /\ \A k \in Keys, c \in Ids :
              chunk.metadata[k] = c /\ chunk.del[<<k, c>>] = 1 => Twice(chunks[c], k)
    BY <1>0, <1>1 DEF MarkInv, DiskInv, Updating
  <2>2. OnceMarked(delete_list')
    BY <2>1, <1>2 DEF OnceMarked
  <2>3. \A k \in Keys, c \in chunk'.rewrite :
              metadata'[k] = c /\ delete_list'[<<k, c>>] = 1 => Twice(chunks'[c], k)
    BY <2>1, <1>1, <1>2, <1>3
  <2> QED BY <1>1, <2>2, <2>3 DEF MarkInv, Updating, Deleting
<1> QED BY <1>5, <1>6, <1>7, <1>8

\* One file of lazy_delete: each key keeps its last record.
LEMMA DurableOpenChunk ==
    ASSUME DurableInv, NEW c \in Ids, OpenChunk(c)
    PROVE  (MemoryInv /\ PlaceInv /\ DiskInv /\ MarkInv)'
<1>0. MemoryInv /\ PlaceInv /\ DiskInv /\ MarkInv
  BY DEF DurableInv
<1>t. /\ chunk \in ChunkType /\ chunk.rewrite \in SUBSET Ids /\ NoChunk \notin Ids
      /\ metadata \in [Keys -> Ids \cup {NoChunk}] /\ chunks \in [Ids -> Seq(Record)]
  BY DurableTypes
<1>1. /\ pc = "deleting" /\ pc' = "rewriting" /\ c \in chunk.rewrite
      /\ chunk'.out = Pruned(c) /\ chunk'.target = c /\ chunk'.rewrite = chunk.rewrite \ {c}
      /\ chunks' = [chunks EXCEPT ![c] = <<>>]
      /\ UNCHANGED <<updates, log, append_index, metadata, delete_list, written, interrupted>>
  BY <1>t DEF OpenChunk, ChunkType
<1>2. /\ OnceMarked(delete_list)
      /\ \A k \in Keys, d \in chunk.rewrite :
            metadata[k] = d /\ delete_list[<<k, d>>] = 1 => Twice(chunks[d], k)
  BY <1>0, <1>1 DEF MarkInv, Deleting
<1>3. /\ File(c)' = Pruned(c) /\ File(c) = chunks[c]
      /\ \A d \in Ids : d # c => File(d)' = File(d) /\ chunks'[d] = chunks[d]
  BY <1>1, <1>t DEF File
<1>4. ASSUME NEW k \in Keys, metadata[k] = c
      PROVE  /\ Has(chunks[c], k) => Has(Pruned(c), k)
             /\ \A v : EndsWith(chunks[c], k, v) => EndsWith(Pruned(c), k, v)
  <2>1. delete_list[<<k, c>>] = 0 \/ Twice(chunks[c], k)
    BY <1>1, <1>2, <1>4 DEF OnceMarked
  <2>2. chunks[c] \in Seq(Record)
    BY <1>t
  <2> QED BY ONLY <1>2, <2>1, <2>2, k \in Keys, c \in Ids, PrunedKeeps
<1>5. MemoryInv'
  BY <1>0, <1>1 DEF MemoryInv
<1>6. PlaceInv'
  <2>1. ASSUME NEW k \in Keys, NEW d \in Ids, metadata[k] = d PROVE Has(File(d)', k)
    <3>1. Has(File(d), k)
      BY <2>1, <1>0, <1>t DEF PlaceInv
    <3>2. CASE d = c
      BY <3>1, <3>2, <2>1, <1>3, <1>4
    <3>3. CASE d # c
      BY <3>1, <3>3, <1>3
    <3> QED BY <3>2, <3>3
  <2> QED BY <2>1, <1>1, <1>t DEF PlaceInv, Updating
<1>7. DiskInv'
  <2>1. ASSUME NEW k \in Keys PROVE Gives(metadata, k)'
    <3>1. Gives(metadata, k) /\ metadata[k] \in Ids \cup {NoChunk}
      BY <1>0, <1>1, <1>t DEF DiskInv, Listed
    <3>2. CASE metadata[k] = c
      BY <3>1, <3>2, <1>1, <1>3, <1>4, <1>t DEF Gives
    <3>3. CASE metadata[k] # c
      BY <3>1, <3>3, <1>1, <1>3 DEF Gives
    <3> QED BY <3>2, <3>3
  <2> QED BY <2>1, <1>0, <1>1 DEF DiskInv, Updating
<1>8. MarkInv'
  <2>1. \A k \in Keys, d \in chunk'.rewrite :
              metadata'[k] = d /\ delete_list'[<<k, d>>] = 1 => Twice(chunks'[d], k)
    BY <1>1, <1>2, <1>3, <1>t
  <2> QED BY <2>1, <1>1, <1>2 DEF MarkInv, Updating, Deleting
<1> QED BY <1>5, <1>6, <1>7, <1>8

\* The file is written; meanwhile it was in memory.
LEMMA DurableWriteChunk ==
    ASSUME DurableInv, WriteChunk
    PROVE  (MemoryInv /\ PlaceInv /\ DiskInv /\ MarkInv)'
<1>0. MemoryInv /\ PlaceInv /\ DiskInv /\ MarkInv
  BY DEF DurableInv
<1>t. /\ chunk.target \in Ids /\ chunk.rewrite \in SUBSET Ids /\ NoChunk \notin Ids
      /\ metadata \in [Keys -> Ids \cup {NoChunk}] /\ chunks \in [Ids -> Seq(Record)]
  BY DurableTypes
<1>1. /\ pc = "rewriting" /\ pc' = "deleting"
      /\ chunks' = [chunks EXCEPT ![chunk.target] = chunk.out]
      /\ UNCHANGED <<updates, chunk, log, append_index, metadata, delete_list, written, interrupted>>
  BY DEF WriteChunk
<1>2. \A d \in Ids : File(d)' = File(d) /\ (d # chunk.target => chunks'[d] = chunks[d])
  BY <1>1, <1>t DEF File
<1>5. MemoryInv'
  BY <1>0, <1>1 DEF MemoryInv
<1>6. PlaceInv'
  BY <1>0, <1>1, <1>2, <1>t DEF PlaceInv, Updating
<1>7. DiskInv'
  BY <1>0, <1>1, <1>2, <1>t DEF DiskInv, Gives, Updating, Listed
<1>8. MarkInv'
  <2>1. /\ OnceMarked(delete_list) /\ chunk.target \notin chunk.rewrite
        /\ \A k \in Keys, d \in chunk.rewrite :
              metadata[k] = d /\ delete_list[<<k, d>>] = 1 => Twice(chunks[d], k)
    BY <1>0, <1>1 DEF MarkInv, Deleting
  <2>2. \A k \in Keys, d \in chunk.rewrite :
              metadata[k] = d /\ delete_list[<<k, d>>] = 1 => Twice(chunks'[d], k)
    BY <2>1, <1>2, <1>t
  <2> QED BY <2>1, <2>2, <1>1 DEF MarkInv, Updating, Deleting
<1> QED BY <1>5, <1>6, <1>7, <1>8

\* The end of a checkpoint, and a crash where no file is half written.
LEMMA DurableEnds ==
    ASSUME DurableInv, Untorn, RemoveDeleteList \/ TruncateLog \/ Crash
    PROVE  (MemoryInv /\ PlaceInv /\ DiskInv /\ MarkInv)'
<1>0. MemoryInv /\ PlaceInv /\ DiskInv /\ MarkInv
  BY DEF DurableInv
<1>1. /\ UNCHANGED <<append_index, metadata, chunks, written>>
      /\ pc \notin {"index", "meta", "rewriting"}
      /\ pc' \in {"truncate", "idle"}
  BY DEF RemoveDeleteList, TruncateLog, Crash, Untorn
<1>2. \A c : File(c)' = File(c)
  BY <1>1 DEF File
<1>3. MemoryInv'
  <2>1. CASE RemoveDeleteList
    BY <1>0, <1>1, <2>1 DEF MemoryInv, RemoveDeleteList
  <2>2. CASE TruncateLog
    BY <1>0, <1>1, <2>2 DEF MemoryInv, TruncateLog, NoUpdates
  <2>3. CASE Crash
    BY <1>0, <1>1, <2>3 DEF MemoryInv, Crash
  <2> QED BY <2>1, <2>2, <2>3
<1>4. PlaceInv'
  BY <1>0, <1>1, <1>2 DEF PlaceInv, Updating
<1>5. DiskInv'
  <2>1. \A k \in Keys : log[k] = NoVal \/ Listed => Gives(metadata, k)
    BY <1>0, <1>1 DEF DiskInv
  <2>2. \A k \in Keys : Gives(metadata, k)' <=> Gives(metadata, k)
    BY <1>1, <1>2 DEF Gives
  <2>3. \A k \in Keys : (log[k] = NoVal \/ Listed)' => log[k] = NoVal \/ Listed
    <3>1. CASE RemoveDeleteList
      BY <3>1 DEF RemoveDeleteList, Listed
    <3>2. CASE TruncateLog
      BY <3>2 DEF TruncateLog, Listed
    <3>3. CASE Crash
      BY <3>3 DEF Crash, Listed
    <3> QED BY <3>1, <3>2, <3>3
  <2> QED BY <2>1, <2>2, <2>3, <1>0, <1>1 DEF DiskInv, Updating
<1>6. MarkInv'
  <2>1. delete_list' = NoDeletes
    <3>1. CASE RemoveDeleteList
      BY <3>1 DEF RemoveDeleteList
    <3>2. CASE TruncateLog
      BY <3>2, <1>0 DEF TruncateLog, MarkInv, Deleting
    <3>3. CASE Crash
      BY <3>3, <1>0 DEF Crash, Untorn, MarkInv, Deleting
    <3> QED BY <3>1, <3>2, <3>3
  <2> QED BY <2>1, <1>1 DEF MarkInv, Updating, Deleting
<1> QED BY <1>3, <1>4, <1>5, <1>6

\* Every step keeps the last value of every key.
LEMMA DurableStep == Untorn /\ DurableInv /\ [Next]_vars => DurableInv'
<1> SUFFICES ASSUME Untorn, DurableInv, [Next]_vars PROVE DurableInv'
  OBVIOUS
<1>1. TypeInv'
  BY TypeStep DEF DurableInv
<1>2. (MemoryInv /\ PlaceInv /\ DiskInv /\ MarkInv)'
  <2>1. ASSUME NEW k \in Keys, NEW v \in Values \cup {Empty}, Puts(k, v)
        PROVE  (MemoryInv /\ PlaceInv /\ DiskInv /\ MarkInv)'
    BY <2>1, DurablePuts
  <2>2. ASSUME NEW k \in Keys, AppendKv(k)
        PROVE  (MemoryInv /\ PlaceInv /\ DiskInv /\ MarkInv)'
    BY <2>2, DurableRound
  <2>3. ASSUME NEW c \in Ids, OpenChunk(c)
        PROVE  (MemoryInv /\ PlaceInv /\ DiskInv /\ MarkInv)'
    BY <2>3, DurableOpenChunk
  <2>4. CASE UNCHANGED vars
    BY <2>4 DEF vars, DurableInv, MemoryInv, PlaceInv, DiskInv, MarkInv, Gives, File,
                Updating, Listed, Deleting
  <2> QED BY <2>1, <2>2, <2>3, <2>4, DurableInitChunk, DurableFiles, DurableListing,
             DurableWriteChunk, DurableEnds DEF Next
<1> QED BY <1>1, <1>2 DEF DurableInv

\* get_value ends with the last record of the key.
LEMMA DurableHolds == DurableInv => ChunksDurable
<1> SUFFICES ASSUME DurableInv, ~Tearing, NEW k \in Keys PROVE Recoverable(k) = written[k]
  BY DEF ChunksDurable
<1>0. MemoryInv /\ DiskInv
  BY DEF DurableInv
<1>t. /\ metadata \in [Keys -> Ids \cup {NoChunk}] /\ chunks \in [Ids -> Seq(Record)]
      /\ NoVal \notin Values \cup {Empty} /\ NoChunk \notin Ids
  BY DurableTypes
<1>1. CASE log[k] # NoVal
  BY <1>0, <1>1 DEF MemoryInv, Recoverable
<1>2. CASE log[k] = NoVal
  <2>1. Gives(metadata, k) /\ append_index # Torn /\ \A c : File(c) = chunks[c]
    BY <1>0, <1>2 DEF DiskInv, Tearing, File
  <2>2. CASE metadata[k] = NoChunk
    BY <2>1, <2>2, <1>2 DEF Gives, Recoverable, GetValue
  <2>3. CASE metadata[k] # NoChunk
    <3> DEFINE s == chunks[metadata[k]]
    <3>0. s \in Seq(Record)
      BY <2>3, <1>t
    <3>1. PICK n \in 1 .. Len(s) :
             /\ s[n].key = k /\ s[n].val = written[k]
             /\ \A m \in 1 .. Len(s) : s[m].key = k => m <= n
      BY <2>1, <2>3 DEF Gives, EndsWith
    <3>2. n \in Copies(metadata[k], k) /\ \A m \in Copies(metadata[k], k) : m <= n
      BY <3>1 DEF Copies
    <3>3. Match(metadata[k], k) = n
      <4>1. \A m \in Copies(metadata[k], k) : m \in Nat
        BY <3>0 DEF Copies
      <4>2. \A m \in Copies(metadata[k], k) :
               (\A l \in Copies(metadata[k], k) : l <= m) => m = n
        BY <4>1, <3>2
      <4> QED BY <4>2, <3>2 DEF Match
    <3>4. GetValue(k) = written[k]
      BY <3>1, <3>2, <3>3, <2>1, <2>3 DEF GetValue
    <3>5. s[n] \in Record
      BY <3>0
    <3>6. written[k] # NoVal
      BY <3>1, <3>5, <1>t DEF Record
    <3> QED BY <3>4, <3>6, <1>2 DEF Recoverable
  <2> QED BY <2>2, <2>3
<1> QED BY <1>1, <1>2

(***************************************************************************)
(* ChunksDurable, whatever steps of a checkpoint a crash interrupts where  *)
(* no file is empty and lazy_delete is not at work: log and chunk files give*)
(* back the last value written to every key (append_kvs, get_value,        *)
(* lazy_delete).                                                           *)
(***************************************************************************)
THEOREM ChunksSafe == ASSUME Untorn PROVE Spec => []ChunksDurable
<1>1. DurableInv /\ [Next]_vars => DurableInv'
  BY DurableStep
<1> QED BY <1>1, DurableInit, DurableHolds, PTL DEF Spec

------------------------------------------------------------------------------
(* No stale copies.                                                        *)

\* Key k has one record in the file s, two, at most one.
Once(s, k) == \E n \in 1 .. Len(s) : \A m \in 1 .. Len(s) : s[m].key = k <=> m = n
Pair(s, k) ==
    \E l, n \in 1 .. Len(s) : l < n /\ \A m \in 1 .. Len(s) : s[m].key = k <=> m \in {l, n}
AtMostOnce(s, k) == Once(s, k) \/ ~Has(s, k)

\* The records of k in a file once the first d of them are erased: one if k is
\* listed there, else none.
Fits(s, k, d, here) ==
    /\ here /\ d = 0 => Once(s, k)
    /\ here /\ d = 1 => Pair(s, k)
    /\ ~here /\ d = 0 => ~Has(s, k)
    /\ ~here /\ d = 1 => AtMostOnce(s, k)

Fitting ==
    /\ Updating =>
        /\ OnceMarked(chunk.del)
        /\ \A k \in Keys, c \in Ids :
              /\ k \in chunk.todo => chunk.del[<<k, c>>] = 0
              /\ Fits(chunks[c], k, chunk.del[<<k, c>>], chunk.metadata[k] = c)
    /\ pc = "listing" => chunk.metadata = metadata
    /\ Deleting =>
        /\ OnceMarked(delete_list)
        /\ \A k \in Keys, c \in Ids :
              Fits(File(c), k, IF c \in chunk.rewrite THEN delete_list[<<k, c>>] ELSE 0,
                   metadata[k] = c)
    /\ pc = "rewriting" => chunk.target \notin chunk.rewrite
    /\ ~Deleting => delete_list = NoDeletes
    /\ pc \in {"idle", "truncate"} => \A k \in Keys, c \in Ids :
          Fits(chunks[c], k, 0, metadata[k] = c)

CompactInv == TypeInv /\ (~interrupted => Fitting)

\* lazy_delete leaves one record of a key that is listed, and none of another.
LEMMA PrunedFits ==
    ASSUME NEW c \in Ids, chunks[c] \in Seq(Record), OnceMarked(delete_list), NEW k \in Keys,
           NEW here \in BOOLEAN, Fits(chunks[c], k, delete_list[<<k, c>>], here)
    PROVE  Fits(Pruned(c), k, 0, here)
<1> DEFINE s == chunks[c]
           p == Pruned(c)
           d == delete_list[<<k, c>>]
<1>1. PICK f \in [1 .. Len(p) -> 1 .. Len(s)] :
         /\ \A j \in 1 .. Len(p) : p[j] = s[f[j]]
         /\ \A i, j \in 1 .. Len(p) : i < j => f[i] < f[j]
         /\ \A n \in 1 .. Len(s) : (\E j \in 1 .. Len(p) : f[j] = n) <=>
               \/ delete_list[<<s[n].key, c>>] = 0
               \/ \E m \in 1 .. Len(s) : m < n /\ s[m].key = s[n].key
  BY PrunedIs
<1>2. Len(s) \in Nat /\ Len(p) \in Nat /\ d \in {0, 1}
  BY PrunedIs DEF OnceMarked
<1>3. Fits(s, k, d, here)
  OBVIOUS
<1>4. \A n \in 1 .. Len(s) : s[n].key = k =>
         ((\E j \in 1 .. Len(p) : f[j] = n) <=>
             d = 0 \/ \E m \in 1 .. Len(s) : m < n /\ s[m].key = k)
  BY <1>1
<1> HIDE DEF s, p, d
<1>5. \A i, j \in 1 .. Len(p) : f[i] = f[j] => i = j
  <2> SUFFICES ASSUME NEW i \in 1 .. Len(p), NEW j \in 1 .. Len(p), f[i] = f[j], i # j
               PROVE  FALSE
    OBVIOUS
  <2>1. i < j \/ j < i
    BY <1>2
  <2>2. f[i] < f[j] \/ f[j] < f[i]
    BY <2>1, <1>1
  <2>3. f[i] \in 1 .. Len(s)
    OBVIOUS
  <2>4. f[i] \in Int
    BY ONLY <2>3, <1>2
  <2> QED BY <2>2, <2>4
\* The record at n stays, and no other of k.
<1>6. ASSUME NEW n \in 1 .. Len(s), s[n].key = k, \E j \in 1 .. Len(p) : f[j] = n,
             \A m \in 1 .. Len(s) : s[m].key = k /\ (\E j \in 1 .. Len(p) : f[j] = m) => m = n
      PROVE  Once(p, k)
  <2>1. PICK j \in 1 .. Len(p) : f[j] = n
    BY <1>6
  <2>2. \A i \in 1 .. Len(p) : p[i].key = k <=> i = j
    <3>1. ASSUME NEW i \in 1 .. Len(p), p[i].key = k PROVE i = j
      <4>1. s[f[i]].key = k /\ f[i] \in 1 .. Len(s)
        BY <3>1, <1>1
      <4>2. f[i] = n
        BY <4>1, <1>6
      <4> QED BY <4>2, <2>1, <1>5
    <3>2. p[j].key = k
      BY <2>1, <1>1, <1>6
    <3> QED BY <3>1, <3>2
  <2> QED BY <2>2 DEF Once
<1>7. ASSUME \A n \in 1 .. Len(s) : s[n].key = k => ~\E j \in 1 .. Len(p) : f[j] = n
      PROVE  ~Has(p, k)
  <2> SUFFICES ASSUME NEW i \in 1 .. Len(p), p[i].key = k PROVE FALSE
    BY DEF Has
  <2>1. s[f[i]].key = k /\ f[i] \in 1 .. Len(s)
    BY <1>1
  <2> QED BY <2>1, <1>7
<1>8. here => Once(p, k)
  <2> SUFFICES ASSUME here PROVE Once(p, k)
    OBVIOUS
  <2>1. CASE d = 0
    <3>1. PICK n \in 1 .. Len(s) : \A m \in 1 .. Len(s) : s[m].key = k <=> m = n
      BY <2>1, <1>3 DEF Fits, Once
    <3>2. s[n].key = k /\ \E j \in 1 .. Len(p) : f[j] = n
      BY <3>1, <2>1, <1>4
    <3> QED BY <3>1, <3>2, <1>6
  <2>2. CASE d = 1
    <3>1. PICK l, n \in 1 .. Len(s) : l < n /\ \A m \in 1 .. Len(s) : s[m].key = k <=> m \in {l, n}
      BY <2>2, <1>3 DEF Fits, Pair
    <3>2. s[n].key = k /\ \E j \in 1 .. Len(p) : f[j] = n
      BY <3>1, <1>4
    <3>3. ~\E j \in 1 .. Len(p) : f[j] = l
      <4>1. s[l].key = k /\ ~\E m \in 1 .. Len(s) : m < l /\ s[m].key = k
        BY <3>1, <1>2
      <4> QED BY <4>1, <2>2, <1>4
    <3> QED BY <3>1, <3>2, <3>3, <1>6
  <2> QED BY <2>1, <2>2, <1>2
<1>9. ~here => ~Has(p, k)
  <2> SUFFICES ASSUME ~here PROVE ~Has(p, k)
    OBVIOUS
  <2>1. CASE ~Has(s, k)
    BY <2>1, <1>7 DEF Has
  <2>2. CASE d = 1 /\ Once(s, k)
    <3>1. PICK n \in 1 .. Len(s) : \A m \in 1 .. Len(s) : s[m].key = k <=> m = n
      BY <2>2 DEF Once
    <3>2. ~\E j \in 1 .. Len(p) : f[j] = n
      <4>1. s[n].key = k /\ ~\E m \in 1 .. Len(s) : m < n /\ s[m].key = k
        BY <3>1, <1>2
      <4> QED BY <4>1, <2>2, <1>4
    <3> QED BY <3>1, <3>2, <1>7
  <2> QED BY <2>1, <2>2, <1>2, <1>3 DEF Fits, AtMostOnce
<1> QED BY <1>8, <1>9 DEF Fits, p

\* append_kv adds one record.
LEMMA AppendFits ==
    ASSUME NEW s \in Seq(Record), NEW r \in Record, NEW k \in Keys
    PROVE  /\ r.key = k /\ ~Has(s, k) => Once(Append(s, r), k)
           /\ r.key = k /\ Once(s, k) => Pair(Append(s, r), k)
           /\ r.key # k => \A d, here : Fits(s, k, d, here) => Fits(Append(s, r), k, d, here)
<1> DEFINE t == Append(s, r)
<1>1. /\ Len(s) \in Nat /\ Len(t) = Len(s) + 1
      /\ \A n \in 1 .. Len(s) : t[n] = s[n]
      /\ t[Len(s) + 1] = r
  OBVIOUS
<1> HIDE DEF t
<1>2. Len(s) + 1 \in 1 .. Len(t) /\ 1 .. Len(s) \subseteq 1 .. Len(t)
      /\ (\A n \in 1 .. Len(t) : n \in 1 .. Len(s) \/ n = Len(s) + 1)
      /\ (\A n \in 1 .. Len(s) : n < Len(s) + 1)
  BY <1>1
<1>3. r.key = k /\ ~Has(s, k) => Once(t, k)
  BY <1>1, <1>2 DEF Has, Once
<1>4. r.key = k /\ Once(s, k) => Pair(t, k)
  <2> SUFFICES ASSUME r.key = k, Once(s, k) PROVE Pair(t, k)
    OBVIOUS
  <2>1. PICK n \in 1 .. Len(s) : \A m \in 1 .. Len(s) : s[m].key = k <=> m = n
    BY DEF Once
  <2>2. n < Len(s) + 1 /\ \A m \in 1 .. Len(t) : t[m].key = k <=> m \in {n, Len(s) + 1}
    BY <2>1, <1>1, <1>2
  <2> QED BY <2>2, <1>2 DEF Pair
<1>5. ASSUME r.key # k
      PROVE  \A m \in 1 .. Len(t) : t[m].key = k <=> m \in 1 .. Len(s) /\ s[m].key = k
  BY <1>1, <1>2, <1>5
<1>6. r.key # k /\ ~Has(s, k) => ~Has(t, k)
  BY <1>5 DEF Has
<1>7. r.key # k /\ Once(s, k) => Once(t, k)
  BY <1>2, <1>5 DEF Once
<1>8. r.key # k /\ Pair(s, k) => Pair(t, k)
  <2> SUFFICES ASSUME r.key # k, Pair(s, k) PROVE Pair(t, k)
    OBVIOUS
  <2>1. PICK l, n \in 1 .. Len(s) : l < n /\ \A m \in 1 .. Len(s) : s[m].key = k <=> m \in {l, n}
    BY DEF Pair
  <2>2. \A m \in 1 .. Len(t) : t[m].key = k <=> m \in {l, n}
    BY <2>1, <1>5
  <2> QED BY <2>1, <2>2, <1>2 DEF Pair
<1> QED BY <1>3, <1>4, <1>6, <1>7, <1>8 DEF Fits, AtMostOnce, t

\* The parts of the types that the steps below need.
LEMMA CompactTypes ==
    ASSUME TypeInv
    PROVE  /\ TypeOK /\ chunk \in ChunkType
           /\ chunk.index \in Ids /\ chunk.metadata \in [Keys -> Ids \cup {NoChunk}]
           /\ chunk.del \in [Keys \X Ids -> Nat] /\ chunk.todo \in SUBSET Keys
           /\ chunk.rewrite \in SUBSET Ids /\ chunk.target \in Ids /\ chunk.out \in Seq(Record)
           /\ metadata \in [Keys -> Ids \cup {NoChunk}] /\ chunks \in [Ids -> Seq(Record)]
           /\ delete_list \in [Keys \X Ids -> Nat]
           /\ updates \in [Keys -> Values \cup {Empty, NoVal}]
           /\ NoChunk \notin Ids
<1>1. TypeOK /\ chunk \in ChunkType
  BY DEF TypeInv, TypeOK, ChunkType
<1> QED BY <1>1, ChunkFields, KeysFinite DEF TypeOK

\* Initially there are no records.
LEMMA CompactInit == Init => CompactInv
<1> SUFFICES ASSUME Init PROVE TypeInv /\ Fitting
  BY DEF CompactInv
<1>1. TypeInv
  BY TypeInit
<1>2. \A k \in Keys, c \in Ids : Fits(chunks[c], k, 0, metadata[k] = c)
  <2> SUFFICES ASSUME NEW k \in Keys, NEW c \in Ids PROVE Fits(chunks[c], k, 0, metadata[k] = c)
    OBVIOUS
  <2>1. chunks[c] = <<>> /\ metadata[k] # c
    BY KeysFinite DEF Init, NoMetadata
  <2> QED BY <2>1 DEF Fits, Has
<1> QED BY <1>1, <1>2 DEF Init, Fitting, Updating, Deleting

\* A round of append_kvs: the record of k that was there is marked.
LEMMA CompactRound ==
    ASSUME TypeInv, Fitting, NEW k \in Keys, AppendKv(k)
    PROVE  Fitting'
<1>t. /\ TypeOK /\ chunk \in ChunkType
      /\ chunk.index \in Ids /\ chunk.metadata \in [Keys -> Ids \cup {NoChunk}]
      /\ chunk.del \in [Keys \X Ids -> Nat] /\ chunk.todo \in SUBSET Keys
      /\ metadata \in [Keys -> Ids \cup {NoChunk}] /\ chunks \in [Ids -> Seq(Record)]
      /\ updates \in [Keys -> Values \cup {Empty, NoVal}]
      /\ NoChunk \notin Ids
  BY CompactTypes
<1>1. /\ Round(k) /\ k \in chunk.todo /\ pc = "append" /\ pc' = "append"
      /\ UNCHANGED <<updates, log, append_index, metadata, delete_list, written, interrupted>>
  BY <1>t, AppendKvIs DEF Round
<1>3. updates[k] # NoVal
  BY <1>1 DEF ToWrite, TypeInv
<1>4. chunk'.todo = chunk.todo \ {k} /\ chunk'.del = Marked(k)
  BY <1>1 DEF Round
<1>m. \A j \in Keys, c \in Ids :
         Marked(k)[<<j, c>>] =
                    IF /\ j = k
                       /\ \/ c = chunk.metadata[k]
                          \/ c = 0 /\ chunk.metadata[k] = NoChunk /\ updates[k] = Empty
                    THEN chunk.del[<<j, c>>] + 1 ELSE chunk.del[<<j, c>>]
  BY <1>t, MarkedIs
<1>d. /\ OnceMarked(chunk.del)
      /\ \A j \in Keys, c \in Ids :
            /\ j \in chunk.todo => chunk.del[<<j, c>>] = 0
            /\ Fits(chunks[c], j, chunk.del[<<j, c>>], chunk.metadata[j] = c)
      /\ delete_list = NoDeletes
  BY <1>1 DEF Fitting, Updating, Deleting
<1>o. OnceMarked(Marked(k))
  <2> SUFFICES ASSUME NEW j \in Keys, NEW c \in Ids PROVE Marked(k)[<<j, c>>] \in {0, 1}
    BY DEF OnceMarked
  <2>1. chunk.del[<<j, c>>] \in {0, 1} /\ (j = k => chunk.del[<<j, c>>] = 0)
    BY <1>d, <1>1 DEF OnceMarked
  <2> QED BY <2>1, <1>m
<1>k. ASSUME NEW c \in Ids
      PROVE  /\ chunk.metadata[k] = c => Once(chunks[c], k)
             /\ chunk.metadata[k] # c => ~Has(chunks[c], k)
  BY <1>d, <1>1 DEF Fits
<1>5. \A j \in Keys, c \in Ids : j \in chunk'.todo => chunk'.del[<<j, c>>] = 0
  BY <1>d, <1>m, <1>4
<1>6. \A j \in Keys, c \in Ids :
         Fits(chunks'[c], j, chunk'.del[<<j, c>>], chunk'.metadata[j] = c)
  <2> SUFFICES ASSUME NEW j \in Keys, NEW c \in Ids
               PROVE  Fits(chunks'[c], j, chunk'.del[<<j, c>>], chunk'.metadata[j] = c)
    OBVIOUS
  <2>1. CASE updates[k] = Empty
    <3>1. /\ chunks' = chunks /\ chunk'.metadata = [chunk.metadata EXCEPT ![k] = NoChunk]
      BY <1>1, <2>1, <1>3 DEF Round
    <3>2. CASE j = k
      <4>1. chunk'.metadata[j] # c
        BY <3>1, <3>2, <1>t
      <4>2. CASE chunk.metadata[k] = c
        <5>1. chunk'.del[<<j, c>>] = 1
          BY <3>2, <4>2, <1>m, <1>4, <1>d, <1>1
        <5> QED BY <5>1, <4>1, <4>2, <3>1, <3>2, <1>k DEF Fits, AtMostOnce
      <4>3. CASE chunk.metadata[k] # c
        BY <4>1, <4>3, <3>1, <3>2, <1>k DEF Fits, AtMostOnce
      <4> QED BY <4>2, <4>3
    <3>3. CASE j # k
      BY <3>1, <3>3, <1>m, <1>4, <1>d, <1>t
    <3> QED BY <3>2, <3>3
  <2>2. CASE updates[k] # Empty
    <3> DEFINE i == chunk.index
               r == [key |-> k, val |-> updates[k]]
    <3>r. r \in Record /\ r.key = k /\ i \in Ids
      BY <2>2, <1>3, <1>t DEF Record
    <3>1. /\ chunks' = [chunks EXCEPT ![i] = Append(chunks[i], r)]
          /\ chunk'.metadata = [chunk.metadata EXCEPT ![k] = i]
      BY <1>1, <2>2 DEF Round
    <3> HIDE DEF i, r
    <3>2. /\ chunk'.metadata[k] = i /\ chunks'[i] = Append(chunks[i], r)
          /\ j # k => chunk'.metadata[j] = chunk.metadata[j]
          /\ c # i => chunks'[c] = chunks[c]
          /\ chunks[i] \in Seq(Record)
      BY <3>1, <3>r, <1>t
    <3>3. /\ r.key = j /\ ~Has(chunks[i], j) => Once(Append(chunks[i], r), j)
          /\ r.key = j /\ Once(chunks[i], j) => Pair(Append(chunks[i], r), j)
          /\ r.key # j => \A d, here : Fits(chunks[i], j, d, here) => Fits(Append(chunks[i], r), j, d, here)
      BY ONLY <3>2, <3>r, j \in Keys, AppendFits
    <3>4. CASE j # k
      <4>1. chunk'.del[<<j, c>>] = chunk.del[<<j, c>>]
        BY <3>4, <1>m, <1>4
      <4>2. Fits(chunks[c], j, chunk.del[<<j, c>>], chunk.metadata[j] = c)
        BY <1>d
      <4>3. CASE c = i
        <5>1. Fits(Append(chunks[i], r), j, chunk.del[<<j, c>>], chunk.metadata[j] = c)
          BY <4>2, <4>3, <3>3, <3>4, <3>r
        <5> QED BY <5>1, <4>1, <4>3, <3>2, <3>4
      <4>4. CASE c # i
        BY <4>1, <4>2, <4>4, <3>2, <3>4
      <4> QED BY <4>3, <4>4
    <3>5. CASE j = k
      <4>1. chunk.metadata[k] = c => chunk'.del[<<j, c>>] = 1
        BY <3>5, <1>m, <1>4, <1>d, <1>1
      <4>2. chunk.metadata[k] # c => chunk'.del[<<j, c>>] = 0
        BY <3>5, <2>2, <1>m, <1>4, <1>d, <1>1
      <4>3. CASE c = i
        <5>1. CASE chunk.metadata[k] = c
          BY <5>1, <4>1, <4>3, <3>2, <3>3, <3>5, <3>r, <1>k DEF Fits
        <5>2. CASE chunk.metadata[k] # c
          BY <5>2, <4>2, <4>3, <3>2, <3>3, <3>5, <3>r, <1>k DEF Fits
        <5> QED BY <5>1, <5>2
      <4>4. CASE c # i
        <5>1. CASE chunk.metadata[k] = c
          BY <5>1, <4>1, <4>4, <3>2, <3>5, <1>k DEF Fits, AtMostOnce
        <5>2. CASE chunk.metadata[k] # c
          BY <5>2, <4>2, <4>4, <3>2, <3>5, <1>k DEF Fits, AtMostOnce
        <5> QED BY <5>1, <5>2
      <4> QED BY <4>3, <4>4
    <3> QED BY <3>4, <3>5
  <2> QED BY <2>1, <2>2
<1> QED BY <1>o, <1>4, <1>5, <1>6, <1>d, <1>1 DEF Fitting, Updating, Deleting

\* lazy_delete begins: the chunks that it does not rewrite have nothing marked.
LEMMA CompactListing ==
    ASSUME TypeInv, Fitting, AppendDeleteList
    PROVE  Fitting'
<1>t. /\ chunk.del \in [Keys \X Ids -> Nat] /\ chunk \in ChunkType
      /\ delete_list \in [Keys \X Ids -> Nat]
  BY CompactTypes
<1>1. /\ pc = "listing" /\ pc' = "deleting"
      /\ delete_list' = [d \in Keys \X Ids |-> delete_list[d] + chunk.del[d]]
      /\ UNCHANGED <<updates, log, append_index, metadata, chunks, written, interrupted>>
  BY DEF AppendDeleteList
<1>2. \A k \in Keys, c \in Ids : delete_list'[<<k, c>>] = chunk.del[<<k, c>>]
  <2> SUFFICES ASSUME NEW k \in Keys, NEW c \in Ids
               PROVE  delete_list'[<<k, c>>] = chunk.del[<<k, c>>]
    OBVIOUS
  <2>1. delete_list[<<k, c>>] = 0
    BY <1>1, NothingMarked DEF Fitting, Deleting
  <2> QED BY <2>1, <1>1, <1>t
<1>3. /\ OnceMarked(chunk.del)
      /\ \A k \in Keys, c \in Ids :
            Fits(chunks[c], k, chunk.del[<<k, c>>], metadata[k] = c)
  BY <1>1 DEF Fitting, Updating
<1>4. OnceMarked(delete_list')
  BY <1>2, <1>3 DEF OnceMarked
<1>5. chunk'.rewrite = {c \in Ids : \E k \in Keys : delete_list'[<<k, c>>] > 0}
  BY <1>t DEF AppendDeleteList, ChunkType
<1>6. \A k \in Keys, c \in Ids :
         Fits(chunks[c], k, IF c \in chunk'.rewrite THEN delete_list'[<<k, c>>] ELSE 0,
              metadata[k] = c)
  <2> SUFFICES ASSUME NEW k \in Keys, NEW c \in Ids
               PROVE  Fits(chunks[c], k, IF c \in chunk'.rewrite THEN delete_list'[<<k, c>>] ELSE 0,
                           metadata[k] = c)
    OBVIOUS
  <2>1. c \notin chunk'.rewrite => delete_list'[<<k, c>>] = 0
    BY <1>4, <1>5 DEF OnceMarked
  <2>2. (IF c \in chunk'.rewrite THEN delete_list'[<<k, c>>] ELSE 0) = chunk.del[<<k, c>>]
    BY <2>1, <1>2
  <2> QED BY <2>2, <1>3
<1>7. \A c : File(c)' = chunks[c]
  BY <1>1 DEF File
<1> QED BY <1>1, <1>4, <1>6, <1>7 DEF Fitting, Updating, Deleting

\* One file of lazy_delete: its marked records go.
LEMMA CompactOpenChunk ==
    ASSUME TypeInv, Fitting, NEW c \in Ids, OpenChunk(c)
    PROVE  Fitting'
<1>t. /\ chunk \in ChunkType /\ chunk.rewrite \in SUBSET Ids
      /\ chunks \in [Ids -> Seq(Record)]
  BY CompactTypes
<1>1. /\ pc = "deleting" /\ pc' = "rewriting" /\ c \in chunk.rewrite
      /\ chunk'.out = Pruned(c) /\ chunk'.target = c /\ chunk'.rewrite = chunk.rewrite \ {c}
      /\ chunks' = [chunks EXCEPT ![c] = <<>>]
      /\ UNCHANGED <<updates, log, append_index, metadata, delete_list, written, interrupted>>
  BY <1>t DEF OpenChunk, ChunkType
<1>2. /\ OnceMarked(delete_list)
      /\ \A k \in Keys, d \in Ids :
            Fits(chunks[d], k, IF d \in chunk.rewrite THEN delete_list[<<k, d>>] ELSE 0,
                 metadata[k] = d)
  BY <1>1 DEF Fitting, Deleting, File
<1>3. /\ File(c)' = Pruned(c)
      /\ \A d \in Ids : d # c => File(d)' = chunks[d]
  BY <1>1, <1>t DEF File
<1>4. ASSUME NEW k \in Keys, NEW d \in Ids
      PROVE  Fits(File(d)', k, IF d \in chunk'.rewrite THEN delete_list[<<k, d>>] ELSE 0,
                  metadata[k] = d)
  <2>1. CASE d = c
    <3>1. Fits(chunks[c], k, delete_list[<<k, c>>], metadata[k] = c)
      BY <1>1, <1>2
    <3>2. chunks[c] \in Seq(Record) /\ (metadata[k] = c) \in BOOLEAN
      BY <1>t
    <3>3. Fits(Pruned(c), k, 0, metadata[k] = c)
      BY ONLY <3>1, <3>2, <1>2, c \in Ids, k \in Keys, PrunedFits
    <3> QED BY <3>3, <2>1, <1>1, <1>3
  <2>2. CASE d # c
    BY <2>2, <1>1, <1>2, <1>3
  <2> QED BY <2>1, <2>2
<1> QED BY <1>1, <1>2, <1>4 DEF Fitting, Updating, Deleting

\* Every step, unless it is a crash that interrupts a checkpoint.
LEMMA CompactStep == CompactInv /\ [Next]_vars => CompactInv'
<1> SUFFICES ASSUME CompactInv, [Next]_vars PROVE CompactInv'
  OBVIOUS
<1>1. TypeInv /\ TypeInv'
  BY TypeStep DEF CompactInv
<1> SUFFICES ASSUME ~interrupted' PROVE Fitting'
  BY <1>1 DEF CompactInv
<1>2. ~interrupted
  BY <1>1 DEF Next, vars, Puts, InitChunk, AppendKv, OpenIndex, WriteIndex, OpenMetadata,
              WriteMetadata, AppendDeleteList, OpenChunk, WriteChunk, RemoveDeleteList,
              TruncateLog, Crash
<1>3. Fitting
  BY <1>2 DEF CompactInv
<1>t. /\ chunk \in ChunkType /\ chunk.target \in Ids /\ chunks \in [Ids -> Seq(Record)]
  BY <1>1, CompactTypes
<1>4. ASSUME NEW k \in Keys, NEW v \in Values \cup {Empty}, Puts(k, v) PROVE Fitting'
  BY <1>3, <1>4 DEF Puts, Fitting, Updating, Deleting, File
<1>5. CASE InitChunk
  <2>1. /\ pc = "idle" /\ pc' = "append" /\ chunk'.metadata = metadata /\ chunk'.del = NoDeletes
        /\ UNCHANGED <<metadata, chunks, delete_list>>
    BY <1>5 DEF InitChunk, NoObject
  <2>2. \A k \in Keys, c \in Ids : Fits(chunks[c], k, 0, metadata[k] = c)
    BY <1>3, <2>1 DEF Fitting
  <2>3. delete_list = NoDeletes
    BY <1>3, <2>1 DEF Fitting, Deleting
  <2> QED BY <2>1, <2>2, <2>3, NothingMarked DEF Fitting, Updating, Deleting
<1>6. ASSUME NEW k \in Keys, AppendKv(k) PROVE Fitting'
  BY <1>1, <1>3, <1>6, CompactRound
<1>7. CASE OpenIndex
  BY <1>3, <1>7 DEF OpenIndex, Fitting, Updating, Deleting
<1>8. CASE WriteIndex
  BY <1>3, <1>8 DEF WriteIndex, Fitting, Updating, Deleting
<1>9. CASE OpenMetadata
  BY <1>3, <1>9 DEF OpenMetadata, Fitting, Updating, Deleting
<1>10. CASE WriteMetadata
  BY <1>3, <1>10 DEF WriteMetadata, Fitting, Updating, Deleting
<1>11. CASE AppendDeleteList
  BY <1>1, <1>3, <1>11, CompactListing
<1>12. ASSUME NEW c \in Ids, OpenChunk(c) PROVE Fitting'
  BY <1>1, <1>3, <1>12, CompactOpenChunk
<1>13. CASE WriteChunk
  <2>1. /\ pc = "rewriting" /\ pc' = "deleting"
        /\ chunks' = [chunks EXCEPT ![chunk.target] = chunk.out]
        /\ UNCHANGED <<chunk, metadata, delete_list>>
    BY <1>13 DEF WriteChunk
  <2>2. \A c \in Ids : File(c)' = File(c)
    BY <2>1, <1>t DEF File
  <2> QED BY <1>3, <2>1, <2>2 DEF Fitting, Updating, Deleting
<1>14. CASE RemoveDeleteList
  <2>1. /\ pc = "deleting" /\ pc' = "truncate" /\ chunk.rewrite = {} /\ delete_list' = NoDeletes
        /\ UNCHANGED <<metadata, chunks>>
    BY <1>14 DEF RemoveDeleteList
  <2>2. \A k \in Keys, c \in Ids : Fits(chunks[c], k, 0, metadata[k] = c)
    BY <1>3, <2>1 DEF Fitting, Deleting, File
  <2> QED BY <2>1, <2>2 DEF Fitting, Updating, Deleting
<1>15. CASE TruncateLog
  BY <1>3, <1>15 DEF TruncateLog, Fitting, Updating, Deleting
<1>16. CASE Crash
  <2>1. pc \in {"idle", "truncate"} /\ pc' = "idle" /\ UNCHANGED <<metadata, chunks, delete_list>>
    BY <1>2, <1>16 DEF Crash
  <2> QED BY <1>3, <2>1 DEF Fitting, Updating, Deleting
<1>17. CASE UNCHANGED vars
  BY <1>3, <1>17 DEF vars, Fitting, Updating, Deleting, File
<1> QED BY <1>4, <1>5, <1>6, <1>7, <1>8, <1>9, <1>10, <1>11, <1>12, <1>13, <1>14, <1>15,
           <1>16, <1>17 DEF Next

\* Between checkpoints nothing is marked.
LEMMA CompactHolds == CompactInv => Compact
<1> SUFFICES ASSUME CompactInv, pc = "idle", ~interrupted, NEW k \in Keys, NEW c \in Ids
             PROVE  IF metadata[k] = c THEN \E n \in 1 .. Len(chunks[c]) : Copies(c, k) = {n}
                    ELSE Copies(c, k) = {}
  BY DEF Compact
<1>1. Fits(chunks[c], k, 0, metadata[k] = c)
  BY DEF CompactInv, Fitting
<1>2. CASE metadata[k] = c
  <2>1. PICK n \in 1 .. Len(chunks[c]) :
           \A m \in 1 .. Len(chunks[c]) : chunks[c][m].key = k <=> m = n
    BY <1>1, <1>2 DEF Fits, Once
  <2>2. Copies(c, k) = {n}
    BY <2>1 DEF Copies
  <2> QED BY <2>2, <1>2
<1>3. CASE metadata[k] # c
  BY <1>1, <1>3 DEF Fits, Has, Copies
<1> QED BY <1>2, <1>3

(***************************************************************************)
(* Compact, with crashes at every step: while none has interrupted a       *)
(* checkpoint, lazy_delete has removed every record that append_kvs replaced*)
(* or deleted.                                                             *)
(***************************************************************************)
THEOREM ChunksCompact == Spec => []Compact
BY CompactInit, CompactStep, CompactHolds, PTL DEF Spec
==============================================================================
