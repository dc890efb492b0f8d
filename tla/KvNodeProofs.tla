---------------------------- MODULE KvNodeProofs -----------------------------
(***************************************************************************)
(* Proofs about KvNode for every set of users, keys and values, every      *)
(* checkpoint period and every bound.                                      *)
(***************************************************************************)
EXTENDS KvNode, TLAPS

------------------------------------------------------------------------------
(* What LastWrite returns.                                                 *)

LEMMA LastWriteNone ==
    ASSUME NEW ents, NEW i
    PROVE  LastWrite(ents, 0, i) = NoVal
BY DEF LastWrite, IsLast

\* Two positions that are both last are the same.
LEMMA LastUnique ==
    ASSUME NEW ents, NEW p \in Nat, NEW i,
           NEW n, NEW m, IsLast(ents, p, i, n), IsLast(ents, p, i, m)
    PROVE  n = m
BY DEF IsLast

LEMMA LastWriteIs ==
    ASSUME NEW ents, NEW p \in Nat, NEW i, NEW n, IsLast(ents, p, i, n)
    PROVE  LastWrite(ents, p, i) = ents[n].val
<1> DEFINE c == CHOOSE k \in 1 .. p : IsLast(ents, p, i, k)
<1>1. n \in 1 .. p BY DEF IsLast
<1>2. IsLast(ents, p, i, c) BY <1>1
<1>3. c = n BY <1>2, LastUnique
<1> QED BY <1>1, <1>3 DEF LastWrite

\* One more entry: it wins for its own cell and changes nothing for others.
LEMMA LastWriteNext ==
    ASSUME NEW ents, NEW p \in Nat, NEW i
    PROVE  LastWrite(ents, p + 1, i) =
               IF ents[p + 1].item = i THEN ents[p + 1].val
               ELSE LastWrite(ents, p, i)
<1>1. CASE ents[p + 1].item = i
  <2>1. IsLast(ents, p + 1, i, p + 1) BY <1>1 DEF IsLast
  <2> QED BY <1>1, <2>1, LastWriteIs
<1>2. CASE ents[p + 1].item # i
  <2>1. \A n : IsLast(ents, p + 1, i, n) <=> IsLast(ents, p, i, n)
    BY <1>2 DEF IsLast
  <2>2. CASE \E n : IsLast(ents, p, i, n)
    <3>1. PICK n : IsLast(ents, p, i, n) BY <2>2
    <3>2. IsLast(ents, p + 1, i, n) BY <3>1, <2>1
    <3> QED BY <1>2, <3>1, <3>2, LastWriteIs
  <2>3. CASE ~ \E n : IsLast(ents, p, i, n)
    BY <1>2, <2>1, <2>3 DEF LastWrite
  <2> QED BY <2>2, <2>3
<1> QED BY <1>1, <1>2

\* LastWrite depends on the entries it looks at only.
LEMMA LastWriteSame ==
    ASSUME NEW ents, NEW other, NEW p \in Nat, NEW i,
           \A n \in 1 .. p : ents[n] = other[n]
    PROVE  LastWrite(ents, p, i) = LastWrite(other, p, i)
<1>1. \A n : IsLast(ents, p, i, n) <=> IsLast(other, p, i, n)
  BY DEF IsLast
<1>2. CASE \E n : IsLast(ents, p, i, n)
  <2>1. PICK n : IsLast(ents, p, i, n) BY <1>2
  <2>2. n \in 1 .. p BY <2>1 DEF IsLast
  <2> QED BY <1>1, <2>1, <2>2, LastWriteIs
<1>3. CASE ~ \E n : IsLast(ents, p, i, n)
  BY <1>1, <1>3 DEF LastWrite
<1> QED BY <1>2, <1>3

LEMMA LastWriteAppend ==
    ASSUME NEW ents \in Seq(Entry), NEW e \in Entry, NEW i
    PROVE  LastWrite(Append(ents, e), Len(Append(ents, e)), i) =
               IF e.item = i THEN e.val ELSE LastWrite(ents, Len(ents), i)
<1> DEFINE new == Append(ents, e)
           l == Len(ents)
<1>1. l \in Nat /\ Len(new) = l + 1 /\ new[l + 1] = e
  OBVIOUS
<1>2. \A n \in 1 .. l : new[n] = ents[n]
  OBVIOUS
<1>3. LastWrite(new, l, i) = LastWrite(ents, l, i)
  BY ZenonT(60), <1>1, <1>2, LastWriteSame
<1>4. LastWrite(new, l + 1, i) = IF new[l + 1].item = i THEN new[l + 1].val
                                 ELSE LastWrite(new, l, i)
  BY <1>1, LastWriteNext
<1> QED BY <1>1, <1>3, <1>4

LEMMA LastWriteType ==
    ASSUME NEW ents \in Seq(Entry), NEW p \in Nat, p <= Len(ents), NEW i
    PROVE  LastWrite(ents, p, i) \in MaybeVal
<1>1. CASE \E n : IsLast(ents, p, i, n)
  <2>1. PICK n : IsLast(ents, p, i, n) BY <1>1
  <2>2. n \in 1 .. Len(ents) BY <2>1 DEF IsLast
  <2>3. ents[n] \in Entry BY <2>2
  <2> QED BY <2>1, <2>3, LastWriteIs DEF Entry, MaybeVal
<1>2. CASE ~ \E n : IsLast(ents, p, i, n)
  BY <1>2 DEF LastWrite, MaybeVal
<1> QED BY <1>1, <1>2

------------------------------------------------------------------------------
(* Type correctness.                                                       *)

LEMMA EmptyEnts == <<>> \in Seq(Entry)
OBVIOUS

LEMMA NoEntriesType == NoEntries \in [Item -> MaybeVal]
BY DEF NoEntries, MaybeVal

LEMMA NoCkptType ==
    NoCkpt \in [up : [Item -> MaybeVal], seq : Nat, todo : SUBSET Users]
BY NoEntriesType DEF NoCkpt

\* How a message ends: idle, or at the start of a checkpoint of a copy.
LEMMA EndMessageIs ==
    ASSUME NEW primary, NEW up, NEW seq, EndMessage(primary, up, seq)
    PROVE  \/ conn' = "idle" /\ ckpt' = ckpt
           \/ conn' = "write" /\ ckpt' = [up |-> up, seq |-> seq, todo |-> Dirty(up)]
BY DEF EndMessage

LEMMA EndMessageType ==
    ASSUME TypeOK, NEW primary, NEW up \in [Item -> MaybeVal], NEW seq \in Nat,
           EndMessage(primary, up, seq)
    PROVE  /\ conn' \in {"idle", "write"}
           /\ ckpt' \in [up : [Item -> MaybeVal], seq : Nat, todo : SUBSET Users]
           /\ msgs' \in 0 .. Period - 1
<1>1. (msgs + 1) % Period \in 0 .. Period - 1
  BY PeriodAssumption DEF TypeOK
<1>2. Dirty(up) \in SUBSET Users BY DEF Dirty
<1> QED BY <1>1, <1>2 DEF EndMessage, TypeOK

LEMMA ValueTypes ==
    ASSUME TypeOK, NEW i \in Item
    PROVE  /\ OnDisk(i) \in Val
           /\ Cached(i) \in Val
           /\ ReadCacheAfterGets(i) \in [Item -> MaybeVal]
           /\ ReadCacheAfterPuts(i) \in [Item -> MaybeVal]
           /\ GetsStatus(i) \in Status
<1>1. OnDisk(i) \in Val BY DEF OnDisk, TypeOK, Val
<1>2. Cached(i) \in Val BY <1>1 DEF Cached, TypeOK, MaybeVal
<1>3. ReadCacheAfterGets(i) \in [Item -> MaybeVal]
  BY <1>1 DEF ReadCacheAfterGets, TypeOK, MaybeVal
<1>4. ReadCacheAfterPuts(i) \in [Item -> MaybeVal]
  BY DEF ReadCacheAfterPuts, TypeOK, MaybeVal
<1>5. GetsStatus(i) \in Status BY DEF GetsStatus, Status
<1> QED BY <1>1, <1>2, <1>3, <1>4, <1>5

LEMMA LoggedType ==
    ASSUME TypeOK, NEW i \in Item, NEW v \in Val
    PROVE  /\ Logged(i, v) \in LogFile
           /\ Logged(i, v).ents =
                Append(log.ents, [seq |-> sequence_id + 1, item |-> i, val |-> v])
           /\ [seq |-> sequence_id + 1, item |-> i, val |-> v] \in Entry
<1> DEFINE e == [seq |-> sequence_id + 1, item |-> i, val |-> v]
<1>1. e \in Entry BY DEF Entry, TypeOK
<1>2. log.ents \in Seq(Entry) /\ Append(log.ents, e) \in Seq(Entry)
  BY <1>1 DEF TypeOK, LogFile
<1> QED BY <1>1, <1>2 DEF Logged, TypeOK, LogFile

LEMMA ReplyTypes ==
    /\ NoReply \in Reply
    /\ \A com \in {"PUTS", "CPUT", "DELE", "GETS"}, i \in Item, s \in Status, v \in Val :
          Answer(com, i, s, v) \in Reply
    /\ \A u \in Users, s \in {"FINISHED", "USER_ERROR"}, kvs \in SUBSET (Keys \X Val) :
          AnswerAll(u, s, kvs) \in Reply
BY DEF Reply, NoReply, Answer, AnswerAll

LEMMA DieType ==
    ASSUME Die
    PROVE  /\ conn' = "idle" /\ isPrimary' = FALSE /\ killed' = FALSE
           /\ max_sequence' = 0 /\ sequence_id' = 0 /\ msgs' = 1
           /\ msgs' \in 0 .. Period - 1
           /\ read_cache' \in [Item -> MaybeVal]
           /\ updates_cache' \in [Item -> MaybeVal]
           /\ replay' \in [Thread -> [ents : Seq(Entry), pos : Nat]]
           /\ call' = NoCall
           /\ ckpt' \in [up : [Item -> MaybeVal], seq : Nat, todo : SUBSET Users]
           /\ reply' \in Reply
BY EmptyEnts, NoEntriesType, NoCkptType, ReplyTypes, PeriodAssumption DEF Die, NoReplay

LEMMA TypeWrite ==
    ASSUME TypeOK, NEW com \in {"PUTS", "DELE"}, NEW i \in Item, NEW v \in Val,
           Write(com, i, v)
    PROVE  TypeOK'
<1>1. /\ log' \in LogFile
      /\ updates_cache' \in [Item -> MaybeVal]
      /\ read_cache' \in [Item -> MaybeVal]
      /\ sequence_id' \in Nat /\ max_sequence' \in Nat
  <2>1. log' \in LogFile
    <3>1. Logged(i, v) \in LogFile BY LoggedType
    <3> QED BY <3>1 DEF Write, Apply, TypeOK
  <2>2. updates_cache' \in [Item -> MaybeVal]
    BY DEF Write, Apply, TypeOK, MaybeVal
  <2>3. read_cache' \in [Item -> MaybeVal]
    BY ValueTypes DEF Write, Apply, TypeOK
  <2>4. sequence_id' \in Nat /\ max_sequence' \in Nat
    BY DEF Write, Apply, TypeOK
  <2> QED BY <2>1, <2>2, <2>3, <2>4
<1>2. reply' \in Reply
  <2>1. {"FINISHED", "SEQ_ERROR"} \subseteq Status /\ Empty \in Val
    BY DEF Status, Val
  <2> QED BY <2>1, ReplyTypes DEF Write
<1>3. /\ conn' \in {"idle", "write"}
      /\ ckpt' \in [up : [Item -> MaybeVal], seq : Nat, todo : SUBSET Users]
      /\ msgs' \in 0 .. Period - 1
  BY <1>1, EndMessageType DEF Write
<1> QED BY <1>1, <1>2, <1>3 DEF Write, TypeOK

LEMMA TypeCput ==
    ASSUME TypeOK, NEW i \in Item, NEW prev \in Val, NEW new \in Val,
           Cput(i, prev, new)
    PROVE  TypeOK'
<1>1. /\ log' \in LogFile
      /\ updates_cache' \in [Item -> MaybeVal]
      /\ read_cache' \in [Item -> MaybeVal]
      /\ sequence_id' \in Nat /\ max_sequence' \in Nat
  <2>1. log' \in LogFile
    <3>1. Logged(i, new) \in LogFile BY LoggedType
    <3> QED BY <3>1 DEF Cput, Apply, TypeOK
  <2>2. updates_cache' \in [Item -> MaybeVal]
    BY DEF Cput, Apply, TypeOK, MaybeVal
  <2>3. read_cache' \in [Item -> MaybeVal]
    BY ValueTypes DEF Cput, Apply, TypeOK
  <2>4. sequence_id' \in Nat /\ max_sequence' \in Nat
    BY DEF Cput, Apply, TypeOK
  <2> QED BY <2>1, <2>2, <2>3, <2>4
<1>2. reply' \in Reply
  <2>1. {"FINISHED", "SEQ_ERROR", "VALUE_ERROR"} \subseteq Status /\ Empty \in Val
    BY DEF Status, Val
  <2> QED BY <2>1, ReplyTypes DEF Cput
<1>3. /\ conn' \in {"idle", "write"}
      /\ ckpt' \in [up : [Item -> MaybeVal], seq : Nat, todo : SUBSET Users]
      /\ msgs' \in 0 .. Period - 1
  BY <1>1, EndMessageType DEF Cput
<1>4. dirs' \subseteq Users
  BY DEF Cput, Created, UserOf, Item, TypeOK
<1> QED BY <1>1, <1>2, <1>3, <1>4 DEF Cput, TypeOK

LEMMA TypeReads ==
    ASSUME TypeOK,
           \/ \E i \in Item : Gets(i)
           \/ \E u \in Users : GetsAll(u)
           \/ \E default \in DefaultReplies : Dropped(default)
    PROVE  TypeOK'
<1>1. CASE \E i \in Item : Gets(i)
  <2>1. PICK i \in Item : Gets(i) BY <1>1
  <2>2. /\ read_cache' \in [Item -> MaybeVal] /\ reply' \in Reply
    <3>1. Empty \in Val BY DEF Val
    <3>2. Answer("GETS", i, GetsStatus(i),
                 IF GetsStatus(i) = "FINISHED" THEN Cached(i) ELSE Empty) \in Reply
      BY <3>1, ValueTypes, ReplyTypes
    <3> QED BY <2>1, <3>2, ValueTypes DEF Gets
  <2>3. /\ conn' \in {"idle", "write"}
        /\ ckpt' \in [up : [Item -> MaybeVal], seq : Nat, todo : SUBSET Users]
        /\ msgs' \in 0 .. Period - 1
    <3>1. EndMessage(isPrimary, updates_cache, sequence_id) BY <2>1 DEF Gets
    <3> QED BY <3>1, EndMessageType DEF TypeOK
  <2> QED BY <2>1, <2>2, <2>3 DEF Gets, TypeOK, disk
<1>2. CASE \E u \in Users : GetsAll(u)
  <2>1. PICK u \in Users : GetsAll(u) BY <1>2
  <2>2. reply' \in Reply
    <3>1. \A i \in Item : Overlaid[i] \in Val
      BY ValueTypes DEF Overlaid, TypeOK, MaybeVal
    <3>2. \A k \in Keys : <<u, k>> \in Item BY DEF Item
    <3>3. Row(Overlaid, u) \subseteq Keys \X Val
      <4>1. ASSUME NEW x \in Row(Overlaid, u) PROVE x \in Keys \X Val
        <5>1. PICK k \in Keys : x = <<k, Overlaid[<<u, k>>]>> BY <4>1 DEF Row
        <5> QED BY <5>1, <3>1, <3>2
      <4> QED BY <4>1
    <3> QED BY <2>1, <3>3, ReplyTypes DEF GetsAll
  <2>3. /\ conn' \in {"idle", "write"}
        /\ ckpt' \in [up : [Item -> MaybeVal], seq : Nat, todo : SUBSET Users]
        /\ msgs' \in 0 .. Period - 1
    <3>1. EndMessage(isPrimary, updates_cache, sequence_id) BY <2>1 DEF GetsAll
    <3> QED BY <3>1, EndMessageType DEF TypeOK
  <2> QED BY <2>1, <2>2, <2>3 DEF GetsAll, TypeOK, disk
<1>3. CASE \E default \in DefaultReplies : Dropped(default)
  <2>1. PICK default \in DefaultReplies : Dropped(default) BY <1>3
  <2>2. reply' \in Reply
    <3>1. "FINISHED" \in Status /\ Empty \in Val BY DEF Status, Val
    <3>2. default \in Reply BY <3>1, ReplyTypes DEF DefaultReplies
    <3> QED BY <2>1, <3>2, ReplyTypes DEF Dropped
  <2>3. /\ conn' \in {"idle", "write"}
        /\ ckpt' \in [up : [Item -> MaybeVal], seq : Nat, todo : SUBSET Users]
        /\ msgs' \in 0 .. Period - 1
    <3>1. EndMessage(isPrimary, updates_cache, sequence_id) BY <2>1 DEF Dropped
    <3> QED BY <3>1, EndMessageType DEF TypeOK
  <2> QED BY <2>1, <2>2, <2>3 DEF Dropped, TypeOK, disk
<1> QED BY <1>1, <1>2, <1>3

\* The number of an early write is taken, and the write is run.
LEMMA TypeEarly ==
    ASSUME TypeOK,
           \/ \E i \in Item, prev \in MaybeVal, v \in Val : EarlyNumber(i, prev, v)
           \/ EarlyWrite
    PROVE  TypeOK'
<1>1. ASSUME NEW i \in Item, NEW prev \in MaybeVal, NEW v \in Val, EarlyNumber(i, prev, v)
      PROVE  TypeOK'
  <2>1. call' \in Call BY <1>1 DEF EarlyNumber, Call, TypeOK
  <2>2. read_cache' \in [Item -> MaybeVal]
    BY <1>1, ValueTypes DEF EarlyNumber, TypeOK
  <2>3. dirs' \subseteq Users
    BY <1>1 DEF EarlyNumber, Created, UserOf, Item, TypeOK
  <2> QED BY <1>1, <2>1, <2>2, <2>3, ReplyTypes DEF EarlyNumber, TypeOK
<1>2. CASE EarlyWrite
  <2>1. call \in Call BY <1>2 DEF EarlyWrite, TypeOK
  <2>2. PICK i \in Item, v \in Val : i = call.item /\ v = call.val BY <2>1 DEF Call
  <2>3. \/ Apply(i, v)
        \/ /\ sequence_id' \in {sequence_id, sequence_id + 1}
           /\ read_cache' \in {read_cache, ReadCacheAfterGets(i)}
           /\ UNCHANGED <<log, updates_cache>>
    BY <1>2, <2>2 DEF EarlyWrite
  <2>4. log' \in LogFile
    <3>1. Logged(i, v) \in LogFile BY LoggedType
    <3> QED BY <2>3, <3>1 DEF Apply, TypeOK
  <2>5. updates_cache' \in [Item -> MaybeVal]
    BY <2>3 DEF Apply, TypeOK, MaybeVal
  <2>6. read_cache' \in [Item -> MaybeVal]
    BY <2>3, ValueTypes DEF Apply, TypeOK
  <2>7. sequence_id' \in Nat BY <2>3 DEF Apply, TypeOK
  <2>8. reply' \in Reply
    <3>1. {"FINISHED", "SEQ_ERROR", "VALUE_ERROR"} \subseteq Status /\ Empty \in Val
      BY DEF Status, Val
    <3>2. \E com \in {"PUTS", "CPUT"}, st \in Status : reply' = Answer(com, i, st, Empty)
      BY <1>2, <2>2, <3>1 DEF EarlyWrite
    <3> QED BY <3>1, <3>2, ReplyTypes
  <2>9. EndMessage(isPrimary, updates_cache', sequence_id') BY <1>2 DEF EarlyWrite
  <2>10. /\ conn' \in {"idle", "write"}
         /\ ckpt' \in [up : [Item -> MaybeVal], seq : Nat, todo : SUBSET Users]
         /\ msgs' \in 0 .. Period - 1
    BY <2>5, <2>7, <2>9, EndMessageType
  <2> QED BY <1>2, <2>4, <2>5, <2>6, <2>7, <2>8, <2>10 DEF EarlyWrite, TypeOK
<1> QED BY <1>1, <1>2

LEMMA TypeAdmin == ASSUME TypeOK, Admin PROVE TypeOK'
<1>1. CASE Kill
  <2>1. EndMessage(FALSE, updates_cache, sequence_id) BY <1>1 DEF Kill
  <2> QED BY <1>1, <2>1, EndMessageType, ReplyTypes DEF Kill, TypeOK, disk
<1>2. CASE Cluster
  <2>1. EndMessage(TRUE, updates_cache, sequence_id) BY <1>2 DEF Cluster
  <2> QED BY <1>2, <2>1, EndMessageType, ReplyTypes DEF Cluster, TypeOK, disk
<1>3. CASE Restart
  <2>1. CASE Exit BY <2>1, DieType DEF Exit, TypeOK, disk
  <2>2. CASE BeginReplay("conn") /\ ~Exit
    <3>1. (msgs + 1) % Period \in 0 .. Period - 1
      BY PeriodAssumption DEF TypeOK
    <3>2. log.ckpt \in Nat /\ replay' \in [Thread -> [ents : Seq(Entry), pos : Nat]]
      BY <2>2 DEF BeginReplay, TypeOK, LogFile
    <3>3. log.state # "absent" BY <2>2 DEF BeginReplay
    <3> QED BY <1>3, <2>2, <3>1, <3>2, <3>3, NoEntriesType, ReplyTypes
        DEF Restart, BeginReplay, CreateLog, TypeOK, disk
  <2>3. CASE CreateLog /\ ~Exit
    <3>1. [state |-> "ok", ckpt |-> sequence_id, ents |-> <<>>] \in LogFile
      BY EmptyEnts DEF LogFile, TypeOK
    <3>2. log.state # "ok" BY <2>3 DEF CreateLog
    <3>3. EndMessage(TRUE, updates_cache, sequence_id)
      BY <1>3, <2>3, <3>2 DEF Restart, BeginReplay
    <3>4. /\ conn' \in {"idle", "write"}
          /\ ckpt' \in [up : [Item -> MaybeVal], seq : Nat, todo : SUBSET Users]
          /\ msgs' \in 0 .. Period - 1
      BY <3>3, EndMessageType DEF TypeOK
    <3> QED BY <1>3, <2>3, <3>1, <3>2, <3>4, ReplyTypes
        DEF Restart, BeginReplay, CreateLog, TypeOK
  <2> QED BY <1>3, <2>1, <2>2, <2>3 DEF Restart
<1> QED BY <1>1, <1>2, <1>3 DEF Admin

LEMMA TypeRecovery ==
    ASSUME TypeOK, NEW t \in Thread, Recovery(t) PROVE TypeOK'
<1>0. CASE Exit BY <1>0, DieType DEF Exit, TypeOK, disk
<1>1. CASE InitCache /\ ~Exit
  <2>1. log.ckpt \in Nat /\ log.ents \in Seq(Entry) BY DEF TypeOK, LogFile
  <2>2. CASE CreateLog
    <3>1. [state |-> "ok", ckpt |-> sequence_id, ents |-> <<>>] \in LogFile
      BY EmptyEnts DEF LogFile, TypeOK
    <3> QED BY <1>1, <2>2, <3>1, ReplyTypes
        DEF InitCache, CreateLog, BeginReplay, TypeOK, mem, disk
  <2>3. CASE BeginReplay("main")
    <3>1. replay' \in [Thread -> [ents : Seq(Entry), pos : Nat]]
      BY <2>1, <2>3 DEF BeginReplay, TypeOK
    <3> QED BY <1>1, <2>1, <2>3, <3>1, NoEntriesType, ReplyTypes
        DEF InitCache, CreateLog, BeginReplay, TypeOK, disk
  <2> QED BY <1>1, <2>2, <2>3 DEF InitCache
<1>2. CASE ReplayEntry(t) /\ ~Exit
  <2> DEFINE e == replay[t].ents[replay[t].pos + 1]
  <2>1. e \in Entry
    <3>1. replay[t].ents \in Seq(Entry) /\ replay[t].pos \in Nat BY DEF TypeOK
    <3>2. replay[t].pos + 1 \in 1 .. Len(replay[t].ents)
      BY <1>2, <3>1 DEF ReplayEntry
    <3> QED BY <3>1, <3>2
  <2>2. e.seq \in Nat /\ e.item \in Item /\ e.val \in Val BY <2>1 DEF Entry
  <2>3. ReadCacheAfterPuts(e.item) \in [Item -> MaybeVal] BY <2>2, ValueTypes
  <2>4. [replay EXCEPT ![t].pos = @ + 1] \in [Thread -> [ents : Seq(Entry), pos : Nat]]
    <3>1. replay \in [Thread -> [ents : Seq(Entry), pos : Nat]] BY DEF TypeOK
    <3>2. [replay[t] EXCEPT !.pos = @ + 1] \in [ents : Seq(Entry), pos : Nat]
      <4>1. PICK r \in [ents : Seq(Entry), pos : Nat] : r = replay[t] BY <3>1
      <4>2. [r EXCEPT !.pos = @ + 1] \in [ents : Seq(Entry), pos : Nat] OBVIOUS
      <4> QED BY <4>1, <4>2
    <3>3. [replay EXCEPT ![t].pos = @ + 1] =
             [replay EXCEPT ![t] = [replay[t] EXCEPT !.pos = @ + 1]]
      BY <3>1, Zenon
    <3> QED BY <3>1, <3>2, <3>3
  <2> QED BY <1>2, <2>2, <2>3, <2>4, ReplyTypes
      DEF ReplayEntry, TypeOK, MaybeVal, disk
<1>3. CASE ReplayDone(t)
  <2>1. replay' \in [Thread -> [ents : Seq(Entry), pos : Nat]]
    <3>1. NoReplay \in [Thread -> [ents : Seq(Entry), pos : Nat]]
      BY EmptyEnts DEF NoReplay
    <3> QED BY <1>3, <3>1 DEF ReplayDone, TypeOK
  <2>2. Dirty(updates_cache) \in SUBSET Users BY DEF Dirty
  <2> QED BY <1>3, <2>1, <2>2, ReplyTypes DEF ReplayDone, RestoredCounter, TypeOK, disk
<1> QED BY <1>0, <1>1, <1>2, <1>3 DEF Recovery

LEMMA TypeCheckpoint == ASSUME TypeOK, Checkpoint PROVE TypeOK'
<1>1. CASE \E u \in Users : CheckpointUser(u)
  <2>1. PICK u \in Users : CheckpointUser(u) BY <1>1
  <2>2. Appended(u) \in [Item -> Values \cup {NoVal}]
    BY DEF Appended, TypeOK, MaybeVal, Val
  <2>3. [ckpt EXCEPT !.todo = Remaining(u)]
           \in [up : [Item -> MaybeVal], seq : Nat, todo : SUBSET Users]
    BY DEF Remaining, TypeOK
  <2> QED BY <2>1, <2>2, <2>3, ReplyTypes DEF CheckpointUser, TypeOK
<1>2. CASE CheckpointTruncate
  <2>0. <<>> \in Seq(Entry) OBVIOUS
  <2>1. [log EXCEPT !.state = "bare", !.ents = <<>>] \in LogFile
    BY <2>0 DEF TypeOK, LogFile
  <2> QED BY <1>2, <2>1, ReplyTypes DEF CheckpointTruncate, TypeOK, mem
<1>3. CASE CheckpointHeader
  <2>1. [log EXCEPT !.state = "ok", !.ckpt = ckpt.seq] \in LogFile
    BY DEF TypeOK, LogFile
  <2> QED BY <1>3, <2>1, ReplyTypes, NoCkptType DEF CheckpointHeader, TypeOK
<1> QED BY <1>1, <1>2, <1>3 DEF Checkpoint

LEMMA TypeCrashes == ASSUME TypeOK, Crashes PROVE TypeOK'
<1>1. CASE Crash BY <1>1, DieType DEF Crash, TypeOK, disk
<1>2. ASSUME NEW i \in Item, NEW v \in Val, CrashAfterLog(i, v) PROVE TypeOK'
  <2>1. Logged(i, v) \in LogFile BY LoggedType
  <2>2. Die /\ log' \in LogFile BY <1>2, <2>1 DEF CrashAfterLog
  <2> QED BY <1>2, <2>2, DieType DEF CrashAfterLog, TypeOK
<1>3. ASSUME NEW i \in Item, NEW v \in Val, CrashInSignUp(i, v) PROVE TypeOK'
  <2>1. dirs \cup {UserOf(i)} \subseteq Users BY DEF TypeOK, UserOf, Item
  <2>2. Logged(i, v) \in LogFile BY LoggedType
  <2>3. Die /\ log' \in LogFile BY <1>3, <2>2 DEF CrashInSignUp, TypeOK
  <2> QED BY <1>3, <2>1, <2>3, DieType DEF CrashInSignUp, TypeOK
<1> QED BY <1>1, <1>2, <1>3 DEF Crashes

LEMMA TypeStep == TypeOK /\ [Next]_vars => TypeOK'
<1> SUFFICES ASSUME TypeOK, [Next]_vars PROVE TypeOK'
  OBVIOUS
<1>1. CASE Start BY <1>1, ReplyTypes DEF Start, TypeOK, mem, disk
<1>2. CASE Client
  <2>1. Empty \in Val BY DEF Val
  <2> QED BY <1>2, <2>1, TypeWrite, TypeCput, TypeEarly, TypeReads DEF Client, Puts, Dele
<1>3. CASE UNCHANGED vars BY <1>3 DEF vars, mem, disk, TypeOK
<1> QED BY <1>1, <1>2, <1>3, TypeAdmin, TypeRecovery, TypeCheckpoint, TypeCrashes
    DEF Next

LEMMA TypeInit == Init => TypeOK
<1> SUFFICES ASSUME Init PROVE TypeOK
  OBVIOUS
<1>1. <<>> \in Seq(Entry) OBVIOUS
<1>2. log \in LogFile BY <1>1 DEF Init, LogFile
<1>3. /\ replay \in [Thread -> [ents : Seq(Entry), pos : Nat]]
      /\ call = NoCall /\ conn = "idle"
  BY <1>1 DEF Init, NoReplay
<1>4. store \in [Item -> Values \cup {NoVal}] BY DEF Init, NoEntries
<1>5. msgs \in 0 .. Period - 1 BY PeriodAssumption DEF Init
<1>6. /\ ckpt \in [up : [Item -> MaybeVal], seq : Nat, todo : SUBSET Users]
      /\ read_cache \in [Item -> MaybeVal] /\ updates_cache \in [Item -> MaybeVal]
  BY NoEntriesType, NoCkptType DEF Init
<1>7. /\ reply \in Reply /\ dirs \subseteq Users
      /\ isPrimary \in BOOLEAN /\ killed \in BOOLEAN
      /\ max_sequence \in Nat /\ sequence_id \in Nat
      /\ main \in {"down", "failed", "wait", "init", "replay", "run"}
      /\ conn \in {"idle", "number", "replay", "write", "header"}
  BY ReplyTypes DEF Init
<1> QED BY <1>2, <1>3, <1>4, <1>5, <1>6, <1>7 DEF TypeOK

\* Every variable of the node keeps its type, whatever the environment does.
THEOREM TypeCorrect == Spec => []TypeOK
BY TypeInit, TypeStep, PTL DEF Spec

------------------------------------------------------------------------------
(* Sequence numbers.                                                       *)

Patient == "early" \notin Hazards

\* Inductive form of SeqInSync: the counters agree except during a replay, and
\* no write stops between taking its number and comparing it.
SeqInv ==
    /\ conn # "number"
    /\ ~Replaying => sequence_id = max_sequence

LEMMA SeqInit == Init => SeqInv
BY DEF Init, SeqInv

LEMMA SeqStep == Patient /\ TypeOK /\ SeqInv /\ [Next]_vars => SeqInv'
<1> SUFFICES ASSUME Patient, TypeOK, SeqInv, [Next]_vars PROVE SeqInv'
  OBVIOUS
<1> USE DEF SeqInv, Replaying, ReplayingIn, Thread
<1>1. CASE Start BY <1>1 DEF Start, Alive, mem
<1>2. ASSUME NEW com, NEW i, NEW v, Write(com, i, v) PROVE SeqInv'
  BY <1>2 DEF Write, Apply, SeqValid, Running, EndMessage, TypeOK
<1>3. ASSUME NEW i, NEW prev, NEW new, Cput(i, prev, new) PROVE SeqInv'
  BY <1>3 DEF Cput, Apply, SeqValid, Running, EndMessage, TypeOK
<1>4. CASE \/ \E i \in Item : Gets(i)
           \/ \E u \in Users : GetsAll(u)
           \/ \E default \in DefaultReplies : Dropped(default)
  BY <1>4 DEF Gets, GetsAll, Dropped, EndMessage, Running
<1>5. CASE Admin
  BY <1>5 DEF Admin, Kill, Cluster, Restart, Exit, Die, EndMessage, BeginReplay, CreateLog
<1>6. ASSUME NEW t \in Thread, Recovery(t) PROVE SeqInv'
  <2>1. CASE InitCache
    BY <1>6, <2>1 DEF InitCache, CreateLog, Exit, Die, BeginReplay, mem
  <2>2. CASE ReplayEntry(t)
    BY <2>2 DEF ReplayEntry, Exit, Die
  <2>3. CASE ReplayDone(t)
    BY <2>3 DEF ReplayDone, RestoredCounter
  <2> QED BY <1>6, <2>1, <2>2, <2>3 DEF Recovery
<1>7. CASE Checkpoint
  BY <1>7 DEF Checkpoint, CheckpointUser, CheckpointTruncate, CheckpointHeader, mem
<1>8. CASE Crashes
  BY <1>8 DEF Crashes, Crash, CrashAfterLog, CrashInSignUp, Die
<1>9. CASE UNCHANGED vars BY <1>9 DEF vars, mem
<1>10. ~EarlyWrite /\ \A i, prev, v : ~EarlyNumber(i, prev, v)
  BY DEF EarlyWrite, EarlyNumber, Running, Patient
<1>11. CASE Client BY <1>2, <1>3, <1>4, <1>10, <1>11 DEF Client, Puts, Dele
<1> QED BY <1>1, <1>5, <1>6, <1>7, <1>8, <1>9, <1>11 DEF Next

\* No write of a client is refused for its sequence number by a node that has
\* recovered (SeqInSync): the two counters agree, if clients wait for the
\* recovery of the node.  Everything else that AllHazards names may happen, two
\* replays at once (a RESTART while main recovers) included.
THEOREM SequenceNumbersAgree ==
  ASSUME Patient
  PROVE  Spec => []SeqInSync
<1>1. SeqInv => SeqInSync
  BY DEF SeqInv, SeqInSync, Recovered, Replaying, ReplayingIn, Thread
<1>2. TypeOK /\ SeqInv /\ [Next]_vars => SeqInv' BY SeqStep
<1> QED BY <1>1, <1>2, SeqInit, TypeCorrect, PTL DEF Spec

------------------------------------------------------------------------------
(***************************************************************************)
(* Durability.  The environment respects three assumptions: clients and    *)
(* the administrator wait for the recovery of the node (no "early", no     *)
(* "earlyKill"), and clients write to users that have a folder (no         *)
(* "stray").  Failed CPUTs, crashes inside a checkpoint, and clients of a  *)
(* killed node are all allowed.                                            *)
(***************************************************************************)

\* Only a recovered process runs commands and checkpoints; one that has not
\* been told its role has an empty memory and cannot reach a checkpoint.
PhaseInv ==
    /\ conn # "number"
    /\ main # "run" => conn = "idle" /\ ~killed
    /\ log.state = "absent" => main \notin {"replay", "run"}
    /\ main \in {"down", "failed", "wait"} => msgs = 1
    /\ main \in {"down", "failed", "wait", "init"} =>
          read_cache = NoEntries /\ updates_cache = NoEntries

\* Every write, in memory or in the log, is to a user that has a folder.
FolderInv ==
    /\ \A i \in Item : updates_cache[i] # NoVal => UserOf(i) \in dirs
    /\ \A n \in 1 .. Len(log.ents) : UserOf(log.ents[n].item) \in dirs

\* The updates cache is the log's content, plus older updates that the chunk
\* files hold already.
UpdatesInv ==
    Recovered => \A i \in Item :
        LET w == LastWrite(log.ents, Len(log.ents), i) IN
        IF w # NoVal THEN updates_cache[i] = w
        ELSE updates_cache[i] # NoVal => OnDisk(i) = updates_cache[i]

\* During a replay the updates cache is what the entries read so far say.
ReplayInv ==
    \A t \in Thread : ReplayingIn(t) =>
        /\ replay[t].ents = log.ents
        /\ replay[t].pos <= Len(log.ents)
        /\ read_cache = NoEntries
        /\ \A i \in Item : updates_cache[i] = LastWrite(log.ents, replay[t].pos, i)

\* During a checkpoint the users done are on the disk, and the log is cut
\* only when all are.
CheckpointInv ==
    /\ conn = "write" =>
        /\ ckpt.up = updates_cache
        /\ \A i \in Item : updates_cache[i] # NoVal /\ UserOf(i) \notin ckpt.todo
                => OnDisk(i) = updates_cache[i]
    /\ conn = "header" =>
        /\ log.ents = <<>>
        /\ \A i \in Item : updates_cache[i] # NoVal => OnDisk(i) = updates_cache[i]

DurableInv ==
    /\ TypeOK
    /\ PhaseInv
    /\ FolderInv
    /\ ReadCacheFresh
    /\ UpdatesInv
    /\ ReplayInv
    /\ CheckpointInv

Gentle == Hazards \cap {"early", "earlyKill", "stray"} = {}

LEMMA DurableFollows == DurableInv => Durable
<1> SUFFICES ASSUME DurableInv, Recovered, NEW i \in Item
             PROVE  Cached(i) = Recoverable(i)
  BY DEF Durable
<1> DEFINE w == LastWrite(log.ents, Len(log.ents), i)
<1>1. IF w # NoVal THEN updates_cache[i] = w
      ELSE updates_cache[i] # NoVal => OnDisk(i) = updates_cache[i]
  BY DEF DurableInv, UpdatesInv
<1>2. read_cache[i] # NoVal => updates_cache[i] = NoVal /\ read_cache[i] = OnDisk(i)
  BY DEF DurableInv, ReadCacheFresh
<1> HIDE DEF w
<1>3. Recoverable(i) = IF w = NoVal THEN OnDisk(i) ELSE w
  BY DEF Recoverable, w
<1> QED BY <1>1, <1>2, <1>3 DEF Cached

\* At the start of a checkpoint every updated cell is still to be written.
LEMMA DirtyCovers ==
    ASSUME NEW up, NEW i \in Item, up[i] # NoVal
    PROVE  UserOf(i) \in Dirty(up)
<1>1. PICK u \in Users, k \in Keys : i = <<u, k>> BY DEF Item
<1> QED BY <1>1 DEF Dirty, UserOf

LEMMA MessageCheckpointInv ==
    ASSUME NEW primary, NEW seq, EndMessage(primary, updates_cache', seq)
    PROVE  CheckpointInv' /\ conn' \in {"idle", "write"}
<1>1. CASE conn' = "idle" BY <1>1 DEF CheckpointInv
<1>2. CASE conn' = "write"
  <2>1. ckpt' = [up |-> updates_cache', seq |-> seq, todo |-> Dirty(updates_cache')]
    BY <1>2, EndMessageIs
  <2> QED BY <1>2, <2>1, DirtyCovers DEF CheckpointInv
<1> QED BY <1>1, <1>2, EndMessageIs

LEMMA TwoModPeriod == 2 % Period = 2
BY PeriodAssumption

\* A cell that gets value v from a logged write, everything else equal.
LEMMA DurableApply ==
    ASSUME DurableInv, TypeOK', NEW i \in Item, NEW v \in Val,
           main = "run", conn = "idle", main' = main, killed' = killed,
           Apply(i, v), store' = store, dirs \subseteq dirs', UserOf(i) \in dirs',
           NEW primary, EndMessage(primary, updates_cache', sequence_id')
    PROVE  DurableInv'
<1> DEFINE e == [seq |-> sequence_id + 1, item |-> i, val |-> v]
<1>1. TypeOK BY DEF DurableInv
<1>2. log'.ents = Append(log.ents, e) /\ e \in Entry /\ log.ents \in Seq(Entry)
  BY <1>1, LoggedType DEF Apply, TypeOK, LogFile
<1>3. updates_cache' = [updates_cache EXCEPT ![i] = v]
      /\ read_cache' = [read_cache EXCEPT ![i] = NoVal]
  BY DEF Apply, ReadCacheAfterPuts
<1>4. \A j : OnDisk(j)' = OnDisk(j) BY DEF OnDisk
<1>5. v # NoVal BY NoValAssumption DEF Val
<1>6. CheckpointInv' /\ conn' \in {"idle", "write"} BY MessageCheckpointInv
<1>7. PhaseInv'
  <2>1. log'.state # "absent" BY <1>1 DEF Apply, Logged, TypeOK, LogFile
  <2> QED BY <1>6, <2>1 DEF PhaseInv
<1>8. FolderInv'
  <2>1. \A j \in Item : updates_cache'[j] # NoVal => UserOf(j) \in dirs'
    BY <1>1, <1>3 DEF DurableInv, FolderInv, TypeOK
  <2>2. ASSUME NEW n \in 1 .. Len(log'.ents) PROVE UserOf(log'.ents[n].item) \in dirs'
    <3>1. CASE n = Len(log.ents) + 1 BY <1>2, <3>1
    <3>2. CASE n \in 1 .. Len(log.ents)
      <4>1. log'.ents[n] = log.ents[n] BY <1>2, <3>2
      <4> QED BY <3>2, <4>1 DEF DurableInv, FolderInv
    <3> QED BY <1>2, <2>2, <3>1, <3>2
  <2> QED BY <2>1, <2>2 DEF FolderInv
<1>9. ReadCacheFresh'
  BY <1>1, <1>3, <1>4 DEF DurableInv, ReadCacheFresh, Recovered, TypeOK
<1>10. UpdatesInv'
  <2> SUFFICES ASSUME NEW j \in Item
               PROVE  LET w == LastWrite(log'.ents, Len(log'.ents), j) IN
                      IF w # NoVal THEN updates_cache'[j] = w
                      ELSE updates_cache'[j] # NoVal => OnDisk(j)' = updates_cache'[j]
    BY DEF UpdatesInv
  <2>1. LastWrite(log'.ents, Len(log'.ents), j) =
          IF e.item = j THEN e.val ELSE LastWrite(log.ents, Len(log.ents), j)
    <3> HIDE DEF e
    <3>1. LastWrite(Append(log.ents, e), Len(Append(log.ents, e)), j) =
            IF e.item = j THEN e.val ELSE LastWrite(log.ents, Len(log.ents), j)
      BY <1>2, LastWriteAppend
    <3> QED BY <1>2, <3>1
  <2>2. CASE j = i BY <1>1, <1>3, <2>1, <2>2 DEF TypeOK
  <2>3. CASE j # i
    BY <1>1, <1>3, <1>4, <2>1, <2>3 DEF DurableInv, UpdatesInv, Recovered, TypeOK
  <2> QED BY <2>2, <2>3
<1>11. ReplayInv' BY <1>6 DEF ReplayInv, ReplayingIn, Thread
<1> QED BY <1>6, <1>7, <1>8, <1>9, <1>10, <1>11 DEF DurableInv

\* A message that changes nothing but the read cache, the counters and
\* perhaps the set of folders.
LEMMA DurableRead ==
    ASSUME DurableInv, TypeOK',
           main = "run", conn = "idle", main' = main,
           log' = log, store' = store, updates_cache' = updates_cache,
           dirs \subseteq dirs',
           \/ read_cache' = read_cache
           \/ \E i \in Item : read_cache' = ReadCacheAfterGets(i),
           NEW primary, NEW seq, EndMessage(primary, updates_cache', seq)
    PROVE  DurableInv'
<1>1. TypeOK BY DEF DurableInv
<1>2. \A j : OnDisk(j)' = OnDisk(j) BY DEF OnDisk
<1>3. CheckpointInv' /\ conn' \in {"idle", "write"} BY MessageCheckpointInv
<1>4. PhaseInv' BY <1>3 DEF DurableInv, PhaseInv
<1>5. FolderInv' BY DEF DurableInv, FolderInv
<1>6. ReadCacheFresh'
  BY <1>1, <1>2
  DEF DurableInv, ReadCacheFresh, ReadCacheAfterGets, Missed, Recovered, TypeOK
<1>7. UpdatesInv' BY <1>2 DEF DurableInv, UpdatesInv, Recovered
<1>8. ReplayInv' BY <1>3 DEF ReplayInv, ReplayingIn, Thread
<1> QED BY <1>3, <1>4, <1>5, <1>6, <1>7, <1>8 DEF DurableInv

LEMMA DurableClient ==
    ASSUME Gentle, DurableInv, TypeOK', Client PROVE DurableInv'
<1>0. TypeOK BY DEF DurableInv
<1>1. ASSUME NEW com, NEW i \in Item, NEW v \in Val, Write(com, i, v) PROVE DurableInv'
  <2>1. /\ main = "run" /\ conn = "idle" /\ main' = main /\ killed' = killed
        /\ store' = store /\ dirs' = dirs /\ UserOf(i) \in dirs
        /\ EndMessage(isPrimary, updates_cache', sequence_id')
    BY <1>1 DEF Write, Running, Addressed, Gentle
  <2>2. CASE Apply(i, v) BY <2>1, <2>2, DurableApply
  <2>3. CASE UNCHANGED <<log, updates_cache, read_cache, sequence_id>>
    BY <2>1, <2>3, DurableRead
  <2> QED BY <1>1, <2>2, <2>3 DEF Write
<1>2. ASSUME NEW i \in Item, NEW prev \in Val, NEW new \in Val, Cput(i, prev, new)
      PROVE  DurableInv'
  <2>1. /\ main = "run" /\ conn = "idle" /\ main' = main /\ killed' = killed
        /\ store' = store /\ dirs \subseteq dirs' /\ UserOf(i) \in dirs'
        /\ EndMessage(isPrimary, updates_cache', sequence_id')
    BY <1>2 DEF Cput, Running, Addressed, Created, Gentle
  <2>2. CASE Apply(i, new) BY <2>1, <2>2, DurableApply
  <2>3. CASE UNCHANGED <<log, updates_cache>> /\ read_cache' = ReadCacheAfterGets(i)
    BY <2>1, <2>3, DurableRead
  <2> QED BY <1>2, <2>2, <2>3 DEF Cput
<1>3. ASSUME NEW i \in Item, Gets(i) PROVE DurableInv'
  <2>1. /\ main = "run" /\ conn = "idle" /\ main' = main
        /\ log' = log /\ store' = store /\ updates_cache' = updates_cache
        /\ dirs \subseteq dirs' /\ read_cache' = ReadCacheAfterGets(i)
        /\ EndMessage(isPrimary, updates_cache', sequence_id)
    BY <1>3 DEF Gets, Running, Gentle, disk
  <2> QED BY <2>1, DurableRead
<1>4. ASSUME NEW u \in Users, GetsAll(u) PROVE DurableInv'
  <2>1. /\ main = "run" /\ conn = "idle" /\ main' = main
        /\ log' = log /\ store' = store /\ updates_cache' = updates_cache
        /\ dirs \subseteq dirs' /\ read_cache' = read_cache
        /\ EndMessage(isPrimary, updates_cache', sequence_id)
    BY <1>4 DEF GetsAll, Running, Gentle, disk
  <2> QED BY <2>1, DurableRead
<1>5. ASSUME NEW default \in DefaultReplies, Dropped(default) PROVE DurableInv'
  <2>1. /\ main = "run" /\ conn = "idle" /\ main' = main
        /\ log' = log /\ store' = store /\ updates_cache' = updates_cache
        /\ dirs \subseteq dirs' /\ read_cache' = read_cache
        /\ EndMessage(isPrimary, updates_cache', sequence_id)
    BY <1>5 DEF Dropped, Gentle, disk
  <2> QED BY <2>1, DurableRead
<1>6. Empty \in Val BY DEF Val
<1>7. ~EarlyWrite /\ \A i, prev, v : ~EarlyNumber(i, prev, v)
  BY DEF EarlyWrite, EarlyNumber, Running, Gentle, DurableInv, PhaseInv
<1> QED BY <1>1, <1>2, <1>3, <1>4, <1>5, <1>6, <1>7 DEF Client, Puts, Dele

LEMMA NoUpdates == \A i \in Item : NoEntries[i] = NoVal
BY DEF NoEntries

LEMMA DurableDie ==
    ASSUME DurableInv, TypeOK', Die, main' \in {"down", "failed"},
           \A n \in 1 .. Len(log'.ents) : UserOf(log'.ents[n].item) \in dirs'
    PROVE  DurableInv'
<1>1. PhaseInv' BY DEF PhaseInv, Die
<1>2. FolderInv' BY NoUpdates DEF FolderInv, Die
<1>3. ReadCacheFresh' /\ UpdatesInv' BY DEF ReadCacheFresh, UpdatesInv, Recovered
<1>4. ReplayInv' /\ CheckpointInv' BY DEF ReplayInv, CheckpointInv, ReplayingIn, Thread, Die
<1> QED BY <1>1, <1>2, <1>3, <1>4 DEF DurableInv

LEMMA DurableExit == ASSUME DurableInv, TypeOK', Exit PROVE DurableInv'
<1>1. log' = log /\ dirs' = dirs BY DEF Exit, disk
<1>2. \A n \in 1 .. Len(log'.ents) : UserOf(log'.ents[n].item) \in dirs'
  BY <1>1 DEF DurableInv, FolderInv
<1> QED BY <1>2, DurableDie DEF Exit

LEMMA DurableBeginReplay ==
    ASSUME DurableInv, TypeOK', NEW t \in Thread, BeginReplay(t), UNCHANGED disk,
           killed' = FALSE,
           \/ t = "main" /\ main' = "replay" /\ conn' = "idle"
           \/ t = "conn" /\ main' = "run" /\ conn' = "replay"
    PROVE  DurableInv'
<1>1. /\ log' = log /\ dirs' = dirs /\ store' = store
      /\ read_cache' = NoEntries /\ updates_cache' = NoEntries
      /\ replay'[t] = [ents |-> log.ents, pos |-> 0]
  BY DEF BeginReplay, disk, DurableInv, TypeOK
<1>2. log.ents \in Seq(Entry) BY DEF DurableInv, TypeOK, LogFile
<1>3. PhaseInv' BY <1>1 DEF PhaseInv, BeginReplay
<1>4. FolderInv' BY <1>1, NoUpdates DEF DurableInv, FolderInv
<1>5. ReadCacheFresh' /\ UpdatesInv' BY DEF ReadCacheFresh, UpdatesInv, Recovered
<1>6. CheckpointInv' BY DEF CheckpointInv
<1>7. ReplayInv'
  <2>1. \A s \in Thread : ReplayingIn(s)' => s = t BY DEF ReplayingIn, Thread
  <2> QED BY <1>1, <1>2, <2>1, NoUpdates, LastWriteNone DEF ReplayInv
<1> QED BY <1>3, <1>4, <1>5, <1>6, <1>7 DEF DurableInv

LEMMA DurableAdmin == ASSUME Gentle, DurableInv, TypeOK', Admin PROVE DurableInv'
<1>0. TypeOK BY DEF DurableInv
<1>1. CASE Restart
  <2>1. CASE Exit BY <2>1, DurableExit
  <2>2. main = "run" /\ log.state # "absent"
    BY <1>1 DEF Restart, DurableInv, PhaseInv
  <2>3. CASE BeginReplay("conn") /\ ~Exit
    <3>1. /\ UNCHANGED disk /\ killed' = FALSE
          /\ main' = "run" /\ conn' = "replay"
      BY <1>1, <2>2, <2>3 DEF Restart, CreateLog
    <3> QED BY <2>3, <3>1, DurableBeginReplay DEF Thread
  <2> QED BY <1>1, <2>1, <2>2, <2>3 DEF Restart, CreateLog
<1>2. CASE (Kill \/ Cluster) /\ main = "run"
  <2>1. /\ conn = "idle" /\ main' = main
        /\ log' = log /\ store' = store /\ updates_cache' = updates_cache
        /\ dirs' = dirs /\ read_cache' = read_cache
        /\ \E p : EndMessage(p, updates_cache', sequence_id)
    BY <1>2 DEF Kill, Cluster, disk
  <2> QED BY <1>2, <2>1, DurableRead
<1>3. CASE Cluster /\ main = "wait"
  <2>1. msgs = 1 /\ main' = "init" /\ killed' = killed
        /\ EndMessage(TRUE, updates_cache, sequence_id)
        /\ UNCHANGED <<read_cache, updates_cache, disk>>
    BY <1>3 DEF Cluster, DurableInv, PhaseInv
  <2>2. conn' = "idle" BY <2>1, TwoModPeriod DEF EndMessage
  <2>3. PhaseInv' BY <1>3, <2>1, <2>2 DEF DurableInv, PhaseInv
  <2>4. FolderInv' BY <2>1 DEF DurableInv, FolderInv, disk
  <2>5. ReadCacheFresh' /\ UpdatesInv'
    BY <2>1 DEF ReadCacheFresh, UpdatesInv, Recovered
  <2>6. ReplayInv' /\ CheckpointInv'
    BY <2>1, <2>2 DEF ReplayInv, CheckpointInv, ReplayingIn, Thread
  <2> QED BY <2>3, <2>4, <2>5, <2>6 DEF DurableInv
<1>4. Kill \/ Cluster \/ Restart BY DEF Admin
<1>5. Kill => main = "run" BY DEF Kill, Gentle
<1>6. Cluster => main \in {"run", "wait"} BY DEF Cluster, DurableInv, PhaseInv
<1> QED BY <1>1, <1>2, <1>3, <1>4, <1>5, <1>6

LEMMA DurableRecovery ==
    ASSUME DurableInv, TypeOK', NEW t \in Thread, Recovery(t)
    PROVE  DurableInv'
<1>0. TypeOK /\ log.ents \in Seq(Entry) BY DEF DurableInv, TypeOK, LogFile
<1>1. CASE Exit BY <1>1, DurableExit
<1>2. CASE InitCache /\ CreateLog /\ ~Exit
  <2>1. /\ main = "init" /\ main' = "run" /\ conn' = conn /\ conn = "idle"
        /\ log'.ents = <<>> /\ UNCHANGED <<mem, dirs, store>>
        /\ log'.state = "ok"
        /\ read_cache = NoEntries /\ updates_cache = NoEntries
    BY <1>2 DEF InitCache, CreateLog, BeginReplay, DurableInv, PhaseInv
  <2>2. \A i : LastWrite(log'.ents, Len(log'.ents), i) = NoVal
    BY <2>1, LastWriteNone
  <2>3. PhaseInv' BY <2>1 DEF PhaseInv, mem
  <2>4. FolderInv' BY <2>1, NoUpdates DEF FolderInv, mem
  <2>5. ReadCacheFresh' BY <2>1, NoUpdates DEF ReadCacheFresh, mem
  <2>6. UpdatesInv' BY <2>1, <2>2, NoUpdates DEF UpdatesInv, mem
  <2>7. ReplayInv' /\ CheckpointInv'
    BY <2>1 DEF ReplayInv, CheckpointInv, ReplayingIn, Thread
  <2> QED BY <2>3, <2>4, <2>5, <2>6, <2>7 DEF DurableInv
<1>3. CASE InitCache /\ BeginReplay("main") /\ ~Exit
  <2>1. UNCHANGED disk /\ killed' = FALSE /\ main' = "replay" /\ conn' = "idle"
    BY <1>3 DEF InitCache, CreateLog, BeginReplay, DurableInv, PhaseInv, TypeOK
  <2> QED BY <1>3, <2>1, DurableBeginReplay DEF Thread
<1>4. CASE ReplayEntry(t) /\ ~Exit
  <2> DEFINE e == replay[t].ents[replay[t].pos + 1]
  <2>1. /\ ReplayingIn(t) /\ replay[t].ents = log.ents /\ replay[t].pos < Len(log.ents)
        /\ replay[t].pos \in Nat /\ e = log.ents[replay[t].pos + 1] /\ e \in Entry
        /\ read_cache = NoEntries
    BY <1>0, <1>4 DEF ReplayEntry, DurableInv, ReplayInv, TypeOK
  <2>2. /\ updates_cache' = [updates_cache EXCEPT ![e.item] = e.val]
        /\ read_cache' = [read_cache EXCEPT ![e.item] = NoVal]
        /\ replay'[t].ents = replay[t].ents /\ replay'[t].pos = replay[t].pos + 1
        /\ UNCHANGED <<main, conn, isPrimary, killed, msgs, ckpt, disk>>
    BY <1>0, <1>4 DEF ReplayEntry, ReadCacheAfterPuts, TypeOK
  <2>3. e.item \in Item /\ UserOf(e.item) \in dirs
    <3>1. replay[t].pos + 1 \in 1 .. Len(log.ents) BY <1>0, <2>1
    <3>2. UserOf(log.ents[replay[t].pos + 1].item) \in dirs
      BY <3>1 DEF DurableInv, FolderInv
    <3>3. e.item \in Item BY <2>1 DEF Entry
    <3> QED BY <2>1, <3>2, <3>3
  <2>4. read_cache' = NoEntries BY <2>1, <2>2, <2>3 DEF NoEntries
  <2>5. PhaseInv'
    BY <2>1, <2>2, <1>0 DEF DurableInv, PhaseInv, ReplayingIn, TypeOK, disk
  <2>6. FolderInv'
    BY <1>0, <2>2, <2>3 DEF DurableInv, FolderInv, TypeOK, disk
  <2>7. ~Recovered' BY <2>1, <2>2 DEF ReplayingIn, Thread, Recovered
  <2>8. ReadCacheFresh' /\ UpdatesInv' BY <2>7 DEF ReadCacheFresh, UpdatesInv
  <2>9. conn' \notin {"write", "header"}
    BY <2>1, <2>2 DEF DurableInv, PhaseInv, ReplayingIn
  <2>10. CheckpointInv' BY <2>9 DEF CheckpointInv
  <2>11. ReplayInv'
    <3>1. ASSUME NEW i \in Item
          PROVE  updates_cache'[i] = LastWrite(log.ents, replay[t].pos + 1, i)
      <4>1. LastWrite(log.ents, replay[t].pos + 1, i) =
              IF log.ents[replay[t].pos + 1].item = i THEN log.ents[replay[t].pos + 1].val
              ELSE LastWrite(log.ents, replay[t].pos, i)
        BY <2>1, LastWriteNext
      <4>2. updates_cache[i] = LastWrite(log.ents, replay[t].pos, i)
        BY <2>1 DEF DurableInv, ReplayInv
      <4> HIDE DEF e
      <4>3. updates_cache'[i] = IF e.item = i THEN e.val ELSE updates_cache[i]
        BY <1>0, <2>2 DEF TypeOK
      <4> QED BY <2>1, <4>1, <4>2, <4>3
    <3>2. log' = log BY <2>2 DEF disk
    <3>3. replay[t].pos + 1 <= Len(log.ents) BY <1>0, <2>1
    <3>4. \A s \in Thread : ReplayingIn(s)' => s = t
      BY <2>1, <2>2 DEF ReplayingIn, Thread, DurableInv, PhaseInv
    <3> QED BY <2>1, <2>2, <2>4, <3>1, <3>2, <3>3, <3>4 DEF ReplayInv
  <2> QED BY <2>5, <2>6, <2>8, <2>10, <2>11 DEF DurableInv
<1>5. CASE ReplayDone(t)
  <2>1. /\ ReplayingIn(t) /\ replay[t].ents = log.ents /\ replay[t].pos = Len(log.ents)
        /\ read_cache = NoEntries
        /\ \A i \in Item : updates_cache[i] = LastWrite(log.ents, Len(log.ents), i)
    BY <1>5 DEF ReplayDone, DurableInv, ReplayInv
  <2>2. UNCHANGED <<killed, read_cache, updates_cache, msgs, disk>> /\ main' = "run"
    BY <1>5 DEF ReplayDone, ReplayingIn, DurableInv, PhaseInv
  <2>3. \/ conn' = "idle"
        \/ /\ conn' = "write"
           /\ ckpt'.up = updates_cache /\ ckpt'.todo = Dirty(updates_cache)
    BY <1>5 DEF ReplayDone, ReplayingIn, DurableInv, PhaseInv
  <2>4. PhaseInv'
    <3>1. log.state # "absent"
      BY <2>1 DEF ReplayingIn, DurableInv, PhaseInv
    <3> QED BY <2>2, <2>3, <3>1 DEF PhaseInv, disk
  <2>5. FolderInv' BY <2>2 DEF DurableInv, FolderInv, disk
  <2>6. ReadCacheFresh' BY <2>1, <2>2, NoUpdates DEF ReadCacheFresh
  <2>7. UpdatesInv' BY <2>1, <2>2 DEF UpdatesInv, disk
  <2>8. ReplayInv' BY <2>2, <2>3 DEF ReplayInv, ReplayingIn, Thread
  <2>9. CheckpointInv' BY <2>2, <2>3, DirtyCovers DEF CheckpointInv
  <2> QED BY <2>4, <2>5, <2>6, <2>7, <2>8, <2>9 DEF DurableInv
<1> QED BY <1>1, <1>2, <1>3, <1>4, <1>5 DEF Recovery, InitCache

LEMMA DurableCheckpoint == ASSUME DurableInv, TypeOK', Checkpoint PROVE DurableInv'
<1>0. TypeOK BY DEF DurableInv
<1>1. ASSUME NEW u \in Users, CheckpointUser(u) PROVE DurableInv'
  <2>1. /\ conn = "write" /\ conn' = "write" /\ main = "run" /\ main' = main
        /\ killed' = killed /\ store' = Appended(u) /\ ckpt.up = updates_cache
        /\ ckpt'.up = ckpt.up /\ ckpt'.todo = ckpt.todo \ {u}
        /\ UNCHANGED <<read_cache, updates_cache, dirs, log>>
    BY <1>0, <1>1 DEF CheckpointUser, Remaining, DurableInv, PhaseInv, CheckpointInv, TypeOK
  <2>2. \A i \in Item : store'[i] =
           IF UserOf(i) = u /\ updates_cache[i] # NoVal
           THEN IF updates_cache[i] = Empty THEN NoVal ELSE updates_cache[i]
           ELSE store[i]
    BY <2>1 DEF Appended, DurableInv, FolderInv
  <2>3. \A i \in Item : OnDisk(i)' =
           IF UserOf(i) = u /\ updates_cache[i] # NoVal THEN updates_cache[i]
           ELSE OnDisk(i)
    BY <2>2 DEF OnDisk
  <2>4. PhaseInv' BY <2>1 DEF DurableInv, PhaseInv
  <2>5. FolderInv' BY <2>1 DEF DurableInv, FolderInv
  <2>6. ReadCacheFresh' BY <2>1, <2>3 DEF DurableInv, ReadCacheFresh, Recovered
  <2>7. UpdatesInv' BY <2>1, <2>3 DEF DurableInv, UpdatesInv, Recovered
  <2>8. ReplayInv' BY <2>1 DEF ReplayInv, ReplayingIn, Thread
  <2>9. CheckpointInv' BY <2>1, <2>3 DEF DurableInv, CheckpointInv
  <2> QED BY <2>4, <2>5, <2>6, <2>7, <2>8, <2>9 DEF DurableInv
<1>2. CASE CheckpointTruncate
  <2>1. /\ conn = "write" /\ conn' = "header" /\ main = "run" /\ main' = main
        /\ log'.state = "bare" /\ log'.ents = <<>> /\ UNCHANGED <<mem, dirs, store>>
    BY <1>0, <1>2 DEF CheckpointTruncate, DurableInv, PhaseInv, TypeOK, LogFile
  <2>2. \A i \in Item : updates_cache[i] # NoVal => OnDisk(i) = updates_cache[i]
    BY <1>2 DEF CheckpointTruncate, AllWritten, DurableInv, CheckpointInv
  <2>3. \A i : OnDisk(i)' = OnDisk(i) BY <2>1 DEF OnDisk
  <2>4. \A i : LastWrite(log'.ents, Len(log'.ents), i) = NoVal
    BY <2>1, LastWriteNone
  <2>5. PhaseInv' BY <2>1 DEF PhaseInv
  <2>6. FolderInv' BY <2>1 DEF DurableInv, FolderInv, mem
  <2>7. ReadCacheFresh' BY <2>1, <2>3 DEF DurableInv, ReadCacheFresh, Recovered, mem
  <2>8. UpdatesInv' BY <2>1, <2>2, <2>3, <2>4 DEF UpdatesInv, mem
  <2>9. ReplayInv' BY <2>1 DEF ReplayInv, ReplayingIn, Thread
  <2>10. CheckpointInv' BY <2>1, <2>2, <2>3 DEF CheckpointInv, mem
  <2> QED BY <2>5, <2>6, <2>7, <2>8, <2>9, <2>10 DEF DurableInv
<1>3. CASE CheckpointHeader
  <2>1. /\ conn = "header" /\ conn' = "idle" /\ main = "run" /\ main' = main
        /\ log'.state = "ok" /\ log'.ents = log.ents
        /\ UNCHANGED <<read_cache, updates_cache, dirs, store>>
    BY <1>0, <1>3 DEF CheckpointHeader, DurableInv, PhaseInv, TypeOK, LogFile
  <2>2. \A i : OnDisk(i)' = OnDisk(i) BY <2>1 DEF OnDisk
  <2>3. PhaseInv' BY <2>1 DEF PhaseInv
  <2>4. FolderInv' BY <2>1 DEF DurableInv, FolderInv
  <2>5. ReadCacheFresh' BY <2>1, <2>2 DEF DurableInv, ReadCacheFresh, Recovered
  <2>6. UpdatesInv' BY <2>1, <2>2 DEF DurableInv, UpdatesInv, Recovered
  <2>7. ReplayInv' /\ CheckpointInv' BY <2>1 DEF ReplayInv, CheckpointInv, ReplayingIn, Thread
  <2> QED BY <2>3, <2>4, <2>5, <2>6, <2>7 DEF DurableInv
<1> QED BY <1>1, <1>2, <1>3 DEF Checkpoint

LEMMA DurableCrashes ==
    ASSUME Gentle, DurableInv, TypeOK', Crashes PROVE DurableInv'
<1>0. TypeOK BY DEF DurableInv
<1>1. CASE Crash
  <2>1. log' = log /\ dirs' = dirs BY <1>1 DEF Crash, disk
  <2>2. \A n \in 1 .. Len(log'.ents) : UserOf(log'.ents[n].item) \in dirs'
    BY <2>1 DEF DurableInv, FolderInv
  <2> QED BY <1>1, <2>2, DurableDie DEF Crash
<1>2. ASSUME NEW i \in Item, NEW v \in Val, CrashAfterLog(i, v) \/ CrashInSignUp(i, v)
      PROVE  DurableInv'
  <2> DEFINE e == [seq |-> sequence_id + 1, item |-> i, val |-> v]
  <2>1. /\ Logged(i, v).ents = Append(log.ents, e)
        /\ e \in Entry /\ log.ents \in Seq(Entry)
    BY <1>0, LoggedType DEF TypeOK, LogFile
  <2>2. /\ Die /\ main' = "down" /\ log' \in {log, Logged(i, v)}
        /\ dirs \subseteq dirs' /\ UserOf(i) \in dirs'
    BY <1>2 DEF CrashAfterLog, CrashInSignUp, Addressed, Gentle
  <2>3. ASSUME NEW n \in 1 .. Len(log'.ents) PROVE UserOf(log'.ents[n].item) \in dirs'
    <3>1. CASE log' = log BY <2>2, <3>1 DEF DurableInv, FolderInv
    <3>2. CASE log' = Logged(i, v) /\ n = Len(log.ents) + 1
      BY <2>1, <2>2, <3>2
    <3>3. CASE log' = Logged(i, v) /\ n \in 1 .. Len(log.ents)
      <4>1. log'.ents[n] = log.ents[n] BY <2>1, <3>3
      <4> QED BY <2>2, <3>3, <4>1 DEF DurableInv, FolderInv
    <3> QED BY <2>1, <2>2, <2>3, <3>1, <3>2, <3>3
  <2> QED BY <2>2, <2>3, DurableDie
<1> QED BY <1>1, <1>2 DEF Crashes

LEMMA DurableStep == Gentle /\ DurableInv /\ [Next]_vars => DurableInv'
<1> SUFFICES ASSUME Gentle, DurableInv, [Next]_vars PROVE DurableInv'
  OBVIOUS
<1>0. TypeOK' BY TypeStep DEF DurableInv
<1>1. CASE Start
  <2>1. /\ ~Alive /\ main' = "wait" /\ UNCHANGED <<conn, mem, disk>>
    BY <1>1 DEF Start
  <2>2. PhaseInv' BY <2>1 DEF DurableInv, PhaseInv, Alive, TypeOK, mem
  <2>3. FolderInv' BY <2>1 DEF DurableInv, FolderInv, mem, disk
  <2>4. ReadCacheFresh' /\ UpdatesInv' BY <2>1 DEF ReadCacheFresh, UpdatesInv, Recovered
  <2>5. conn = "idle" BY <2>1 DEF DurableInv, PhaseInv, Alive
  <2>6. ReplayInv' /\ CheckpointInv'
    BY <2>1, <2>5 DEF ReplayInv, CheckpointInv, ReplayingIn, Thread
  <2> QED BY <1>0, <2>2, <2>3, <2>4, <2>6 DEF DurableInv
<1>2. CASE UNCHANGED vars
  BY <1>0, <1>2
  DEF DurableInv, PhaseInv, FolderInv, ReadCacheFresh, UpdatesInv, ReplayInv,
      CheckpointInv, Recovered, ReplayingIn, OnDisk, vars, mem, disk
<1> QED BY <1>0, <1>1, <1>2, DurableClient, DurableAdmin, DurableRecovery,
           DurableCheckpoint, DurableCrashes DEF Next

LEMMA DurableInit == Init => DurableInv
<1> SUFFICES ASSUME Init PROVE DurableInv
  OBVIOUS
<1>1. PhaseInv BY DEF Init, PhaseInv
<1>2. FolderInv BY NoUpdates DEF Init, FolderInv
<1>3. ReadCacheFresh /\ UpdatesInv BY DEF Init, ReadCacheFresh, UpdatesInv, Recovered
<1>4. ReplayInv /\ CheckpointInv
  BY DEF Init, ReplayInv, CheckpointInv, ReplayingIn
<1> QED BY <1>1, <1>2, <1>3, <1>4, TypeInit DEF DurableInv

\* Durability: what clients read is always what the disk would give back
\* after a crash at this very moment, checkpoints and failed CPUTs included.
THEOREM Durability ==
  ASSUME Gentle
  PROVE  Spec => []Durable
<1>1. DurableInv /\ [Next]_vars => DurableInv' BY DurableStep
<1> QED BY <1>1, DurableInit, DurableFollows, PTL DEF Spec

\* The read cache never holds a value that the node has overwritten, negative
\* entries for missing keys included (ReadCacheFresh).
THEOREM ReadCacheCoherence ==
  ASSUME Gentle
  PROVE  Spec => []ReadCacheFresh
<1>1. DurableInv /\ [Next]_vars => DurableInv' BY DurableStep
<1>2. DurableInv => ReadCacheFresh BY DEF DurableInv
<1> QED BY <1>1, <1>2, DurableInit, PTL DEF Spec

------------------------------------------------------------------------------
(***************************************************************************)
(* A node can always recover, if the environment respects four             *)
(* assumptions: no CPUT fails ("stale"), the process does not die between  *)
(* the truncation of the log and its new header ("window"), and clients    *)
(* ("early") and the administrator ("earlyKill": a RESTART would begin a   *)
(* second replay beside that of main) wait for the recovery of the node.   *)
(***************************************************************************)

Orderly == Hazards \cap {"stale", "window", "early", "earlyKill"} = {}

\* Only a process that serves runs commands and checkpoints.
ThreadInv ==
    /\ main # "run" => conn = "idle" /\ ~killed
    /\ main \in {"down", "failed", "wait"} => msgs = 1

\* The log has its header whenever a process may have to read it.
HeaderInv ==
    /\ log.state = "bare" => conn = "header"
    /\ log.state = "absent" => log.ents = <<>> /\ main \in {"down", "wait", "init"}

\* The records are numbered without a gap from the checkpoint on.
GaplessInv ==
    log.state = "ok" =>
        \A n \in 1 .. Len(log.ents) : log.ents[n].seq = log.ckpt + n

\* Memory and log are at the same number; a checkpoint keeps it.
NumberInv ==
    /\ Recovered /\ conn # "header" => sequence_id = log.ckpt + Len(log.ents)
    /\ conn \in {"write", "header"} => ckpt.seq = sequence_id
    /\ conn = "header" => log.ents = <<>>

\* A replay has counted the records it has read.
CountInv ==
    \A t \in Thread : ReplayingIn(t) =>
        /\ replay[t].ents = log.ents
        /\ replay[t].pos <= Len(log.ents)
        /\ sequence_id = log.ckpt + replay[t].pos

RecoverInv ==
    /\ TypeOK
    /\ SeqInv
    /\ ThreadInv
    /\ HeaderInv
    /\ GaplessInv
    /\ NumberInv
    /\ CountInv
    /\ RecoverySucceeds

LEMMA RecoverInit == Init => RecoverInv
<1> SUFFICES ASSUME Init PROVE RecoverInv
  OBVIOUS
<1>1. ThreadInv /\ HeaderInv /\ GaplessInv BY DEF Init, ThreadInv, HeaderInv, GaplessInv
<1>2. NumberInv /\ CountInv /\ RecoverySucceeds
  BY DEF Init, NumberInv, CountInv, RecoverySucceeds, Recovered, ReplayingIn, Thread
<1> QED BY <1>1, <1>2, TypeInit, SeqInit DEF RecoverInv

\* The next record of a node whose memory is at the log's end.
LEMMA GaplessLogged ==
    ASSUME TypeOK, GaplessInv, NEW i \in Item, NEW v \in Val, log.state = "ok",
           sequence_id = log.ckpt + Len(log.ents), log' = Logged(i, v)
    PROVE  /\ GaplessInv'
           /\ log'.state = "ok" /\ log'.ckpt = log.ckpt
           /\ Len(log'.ents) = Len(log.ents) + 1
<1> DEFINE e == [seq |-> sequence_id + 1, item |-> i, val |-> v]
<1>1. log.ents \in Seq(Entry) /\ log.ckpt \in Nat /\ sequence_id \in Nat
  BY DEF TypeOK, LogFile
<1>2. log'.ents = Append(log.ents, e) /\ e \in Entry BY LoggedType
<1>3. log'.state = "ok" /\ log'.ckpt = log.ckpt BY DEF Logged, TypeOK, LogFile
<1>4. Len(log'.ents) = Len(log.ents) + 1 BY <1>1, <1>2
<1>5. ASSUME NEW n \in 1 .. Len(log'.ents) PROVE log'.ents[n].seq = log.ckpt + n
  <2>1. CASE n = Len(log.ents) + 1 BY <1>1, <1>2, <2>1
  <2>2. CASE n \in 1 .. Len(log.ents)
    <3>1. log'.ents[n] = log.ents[n] BY <1>1, <1>2, <2>2
    <3> QED BY <2>2, <3>1 DEF GaplessInv
  <2> QED BY <1>1, <1>4, <2>1, <2>2
<1> QED BY <1>3, <1>4, <1>5 DEF GaplessInv

\* A command that runs finds memory and log at the same number.
LEMMA RunningIs ==
    ASSUME Orderly, RecoverInv, Running
    PROVE  /\ main = "run" /\ conn = "idle" /\ log.state = "ok" /\ SeqValid
           /\ sequence_id = max_sequence
           /\ sequence_id = log.ckpt + Len(log.ents)
<1>1. main = "run" /\ conn = "idle" BY DEF Orderly, Running
<1>2. log.state = "ok" BY <1>1 DEF RecoverInv, HeaderInv, TypeOK, LogFile
<1>3. sequence_id = max_sequence
  BY <1>1 DEF RecoverInv, SeqInv, Replaying, ReplayingIn, Thread
<1>4. sequence_id = log.ckpt + Len(log.ents)
  BY <1>1 DEF RecoverInv, NumberInv, Recovered
<1> QED BY <1>1, <1>2, <1>3, <1>4 DEF SeqValid

\* A write that is logged and applied, whatever its command.
LEMMA RecoverApply ==
    ASSUME Orderly, RecoverInv, TypeOK', SeqInv', Running,
           NEW i \in Item, NEW v \in Val, Apply(i, v), main' = main,
           NEW p, NEW up, EndMessage(p, up, sequence_id')
    PROVE  RecoverInv'
<1>1. /\ main = "run" /\ conn = "idle" /\ log.state = "ok"
      /\ sequence_id = max_sequence
      /\ sequence_id = log.ckpt + Len(log.ents)
  BY RunningIs
<1>2. TypeOK /\ GaplessInv /\ log' = Logged(i, v) /\ sequence_id' = sequence_id + 1
  BY DEF RecoverInv, Apply
<1>3. /\ GaplessInv' /\ log'.state = "ok" /\ log'.ckpt = log.ckpt
      /\ Len(log'.ents) = Len(log.ents) + 1
  BY <1>1, <1>2, GaplessLogged
<1>4. conn' \in {"idle", "write"} /\ (conn' = "write" => ckpt'.seq = sequence_id')
  BY EndMessageIs
<1>5. sequence_id' = log'.ckpt + Len(log'.ents)
  <2>1. log.ckpt \in Nat /\ log.ents \in Seq(Entry) BY <1>2 DEF TypeOK, LogFile
  <2>2. Len(log.ents) \in Nat BY <2>1
  <2> QED BY <1>1, <1>2, <1>3, <2>1, <2>2
<1>6. ThreadInv' /\ HeaderInv' /\ CountInv' /\ RecoverySucceeds'
  BY <1>1, <1>3, <1>4
  DEF ThreadInv, HeaderInv, CountInv, RecoverySucceeds, ReplayingIn, Thread
<1>7. NumberInv' BY <1>4, <1>5 DEF NumberInv
<1> QED BY <1>3, <1>6, <1>7 DEF RecoverInv

\* A message that leaves log and counters alone.
LEMMA RecoverRead ==
    ASSUME RecoverInv, TypeOK', SeqInv', main = "run", conn = "idle", main' = main,
           log' = log, sequence_id' = sequence_id,
           NEW p, NEW up, EndMessage(p, up, sequence_id)
    PROVE  RecoverInv'
<1>1. conn' \in {"idle", "write"} /\ (conn' = "write" => ckpt'.seq = sequence_id')
  BY EndMessageIs
<1>2. ThreadInv' /\ CountInv' /\ RecoverySucceeds'
  BY <1>1 DEF ThreadInv, CountInv, RecoverySucceeds, ReplayingIn, Thread
<1>3. HeaderInv' /\ GaplessInv' BY <1>1 DEF RecoverInv, HeaderInv, GaplessInv
<1>4. NumberInv' BY <1>1 DEF RecoverInv, NumberInv, Recovered
<1> QED BY <1>2, <1>3, <1>4 DEF RecoverInv

LEMMA RecoverClient ==
    ASSUME Orderly, RecoverInv, TypeOK', SeqInv', Client
    PROVE  RecoverInv'
<1>1. ASSUME NEW com, NEW i \in Item, NEW v \in Val, Write(com, i, v)
      PROVE  RecoverInv'
  <2>1. Running BY <1>1 DEF Write
  <2>2. SeqValid BY <2>1, RunningIs
  <2>3. Apply(i, v) /\ main' = main /\ EndMessage(isPrimary, updates_cache', sequence_id')
    BY <1>1, <2>2 DEF Write
  <2> QED BY <2>1, <2>3, RecoverApply
<1>2. ASSUME NEW i \in Item, NEW prev \in Val, NEW new \in Val, Cput(i, prev, new)
      PROVE  RecoverInv'
  <2>1. Running BY <1>2 DEF Cput
  <2>2. SeqValid BY <2>1, RunningIs
  <2>3. Cached(i) = prev BY <1>2 DEF Cput, Orderly
  <2>4. Apply(i, new) /\ main' = main /\ EndMessage(isPrimary, updates_cache', sequence_id')
    BY <1>2, <2>2, <2>3 DEF Cput
  <2> QED BY <2>1, <2>4, RecoverApply
<1>3. CASE \/ \E i \in Item : Gets(i)
           \/ \E u \in Users : GetsAll(u)
           \/ \E default \in DefaultReplies : Dropped(default)
  <2>1. /\ main = "run" /\ conn = "idle" /\ main' = main
        /\ log' = log /\ sequence_id' = sequence_id
        /\ EndMessage(isPrimary, updates_cache, sequence_id)
    BY <1>3 DEF Gets, GetsAll, Dropped, Running, Orderly, disk
  <2> QED BY <2>1, RecoverRead
<1>4. Empty \in Val BY DEF Val
<1>5. ~EarlyWrite /\ \A i, prev, v : ~EarlyNumber(i, prev, v)
  BY DEF EarlyWrite, EarlyNumber, Running, Orderly, RecoverInv, SeqInv
<1> QED BY <1>1, <1>2, <1>3, <1>4, <1>5 DEF Client, Puts, Dele

\* A replay begins.
LEMMA RecoverBeginReplay ==
    ASSUME RecoverInv, TypeOK', SeqInv', NEW t \in Thread, BeginReplay(t), log' = log,
           \/ t = "main" /\ main' = "replay" /\ conn' = "idle" /\ ~killed'
           \/ t = "conn" /\ main' = "run" /\ conn' = "replay"
    PROVE  RecoverInv'
<1>1. log.state = "ok" /\ sequence_id' = log.ckpt
      /\ replay'[t] = [ents |-> log.ents, pos |-> 0]
  BY DEF BeginReplay, RecoverInv, TypeOK
<1>2. log.ckpt \in Nat /\ log.ents \in Seq(Entry)
  BY DEF RecoverInv, TypeOK, LogFile
<1>3. ThreadInv' /\ RecoverySucceeds' BY DEF ThreadInv, RecoverySucceeds
<1>4. HeaderInv' /\ GaplessInv' BY <1>1 DEF RecoverInv, HeaderInv, GaplessInv
<1>5. NumberInv' BY DEF NumberInv, Recovered
<1>6. CountInv'
  <2>1. \A s \in Thread : ReplayingIn(s)' => s = t BY DEF ReplayingIn, Thread
  <2> QED BY <1>1, <1>2, <2>1 DEF CountInv
<1> QED BY <1>3, <1>4, <1>5, <1>6 DEF RecoverInv

LEMMA RecoverAdmin ==
    ASSUME Orderly, RecoverInv, TypeOK', SeqInv', Admin
    PROVE  RecoverInv'
<1>1. CASE Restart
  <2>1. main = "run" /\ log.state = "ok"
    BY <1>1 DEF Restart, RecoverInv, HeaderInv, ThreadInv, TypeOK, LogFile
  <2>2. BeginReplay("conn") /\ log' = log /\ main' = "run" /\ conn' = "replay"
    BY <1>1, <2>1 DEF Restart, CreateLog, disk
  <2> QED BY <2>2, RecoverBeginReplay DEF Thread
<1>2. CASE (Kill \/ Cluster) /\ main = "run"
  <2>1. /\ conn = "idle" /\ main' = main
        /\ log' = log /\ sequence_id' = sequence_id
        /\ \E p : EndMessage(p, updates_cache, sequence_id)
    BY <1>2 DEF Kill, Cluster, disk
  <2> QED BY <1>2, <2>1, RecoverRead
<1>3. CASE Cluster /\ main = "wait"
  <2>1. msgs = 1 /\ main' = "init" /\ killed' = FALSE /\ log' = log
        /\ EndMessage(TRUE, updates_cache, sequence_id)
    BY <1>3 DEF Cluster, RecoverInv, ThreadInv, TypeOK, disk
  <2>2. conn' = "idle" BY <2>1, TwoModPeriod DEF EndMessage
  <2>3. ThreadInv' /\ CountInv' /\ RecoverySucceeds' /\ NumberInv'
    BY <2>1, <2>2
    DEF ThreadInv, CountInv, RecoverySucceeds, NumberInv, ReplayingIn, Thread, Recovered
  <2>4. conn = "idle" BY <1>3 DEF Cluster
  <2>5. HeaderInv' /\ GaplessInv'
    BY <2>1, <2>2, <2>4 DEF RecoverInv, HeaderInv, GaplessInv
  <2> QED BY <2>3, <2>5 DEF RecoverInv
<1>4. Kill \/ Cluster \/ Restart BY DEF Admin
<1>5. Kill => main = "run" BY DEF Kill, Orderly
<1>6. Cluster => main \in {"run", "wait"} BY DEF Cluster, RecoverInv, ThreadInv
<1> QED BY <1>1, <1>2, <1>3, <1>4, <1>5, <1>6

LEMMA RecoverRecovery ==
    ASSUME RecoverInv, TypeOK', SeqInv', NEW t \in Thread, Recovery(t)
    PROVE  RecoverInv'
<1>0. /\ log.ents \in Seq(Entry) /\ log.ckpt \in Nat /\ sequence_id \in Nat
      /\ replay[t].pos \in Nat
  BY DEF RecoverInv, TypeOK, LogFile
<1>1. CASE InitCache
  <2>1. main = "init" /\ conn = "idle" /\ log.state # "bare"
    BY <1>1 DEF InitCache, RecoverInv, ThreadInv, HeaderInv
  <2>2. CASE CreateLog
    <3>1. main' = "run" /\ conn' = "idle"
          /\ log' = [state |-> "ok", ckpt |-> sequence_id, ents |-> <<>>]
          /\ sequence_id' = sequence_id
      BY <1>1, <2>1, <2>2 DEF InitCache, CreateLog, BeginReplay, mem
    <3>2. ThreadInv' /\ HeaderInv' /\ GaplessInv' /\ RecoverySucceeds' /\ CountInv'
      BY <3>1 DEF ThreadInv, HeaderInv, GaplessInv, RecoverySucceeds, CountInv, ReplayingIn, Thread
    <3>3. NumberInv' BY <1>0, <3>1 DEF NumberInv
    <3> QED BY <3>2, <3>3 DEF RecoverInv
  <2>3. CASE ~CreateLog
    <3>1. BeginReplay("main") /\ ~killed' /\ log' = log /\ main' = "replay" /\ conn' = "idle"
      BY <1>1, <2>1, <2>3 DEF InitCache, RecoverInv, ThreadInv, disk
    <3> QED BY <3>1, RecoverBeginReplay DEF Thread
  <2> QED BY <2>2, <2>3
<1>2. CASE ReplayEntry(t)
  <2> DEFINE e == replay[t].ents[replay[t].pos + 1]
  <2>1. /\ ReplayingIn(t) /\ replay[t].ents = log.ents /\ replay[t].pos < Len(log.ents)
        /\ sequence_id = log.ckpt + replay[t].pos
    BY <1>2 DEF ReplayEntry, RecoverInv, CountInv
  <2>2. conn \in {"idle", "replay"} /\ log.state = "ok" /\ main \in {"run", "replay"}
    BY <2>1 DEF ReplayingIn, Thread, RecoverInv, ThreadInv, HeaderInv, TypeOK, LogFile
  <2>3. e.seq = sequence_id + 1
    <3>1. replay[t].pos + 1 \in 1 .. Len(log.ents) BY <1>0, <2>1
    <3>2. log.ents[replay[t].pos + 1].seq = log.ckpt + (replay[t].pos + 1)
      BY <2>2, <3>1 DEF RecoverInv, GaplessInv
    <3> QED BY <1>0, <2>1, <3>2
  <2>4. /\ sequence_id' = e.seq /\ replay' = [replay EXCEPT ![t].pos = @ + 1]
        /\ UNCHANGED <<main, conn, killed, log>>
    BY <1>2, <2>3 DEF ReplayEntry, disk
  <2>5. replay'[t].pos = replay[t].pos + 1 /\ replay'[t].ents = replay[t].ents
    BY <2>4 DEF RecoverInv, TypeOK
  <2>6. ThreadInv' /\ RecoverySucceeds' /\ HeaderInv' /\ GaplessInv'
    BY <2>2, <2>4 DEF RecoverInv, ThreadInv, RecoverySucceeds, HeaderInv, GaplessInv
  <2>7. NumberInv' BY <2>1, <2>2, <2>4 DEF NumberInv, Recovered, ReplayingIn, Thread
  <2>8. CountInv'
    <3>1. \A s \in Thread : ReplayingIn(s)' => s = t
      BY <2>1, <2>4 DEF ReplayingIn, Thread, RecoverInv, ThreadInv
    <3> HIDE DEF e
    <3> QED BY <1>0, <2>1, <2>3, <2>4, <2>5, <3>1 DEF CountInv
  <2> QED BY <2>6, <2>7, <2>8 DEF RecoverInv
<1>3. CASE ReplayDone(t)
  <2>1. /\ ReplayingIn(t) /\ sequence_id = log.ckpt + Len(log.ents)
    BY <1>3 DEF ReplayDone, RecoverInv, CountInv
  <2>2. UNCHANGED <<log, sequence_id>> /\ main' = "run"
        /\ conn' \in {"idle", "write"} /\ (conn' = "write" => ckpt'.seq = sequence_id)
    BY <1>3 DEF ReplayDone, ReplayingIn, RecoverInv, ThreadInv, disk
  <2>3. conn \in {"idle", "replay"} /\ log.state = "ok"
    BY <2>1 DEF ReplayingIn, Thread, RecoverInv, ThreadInv, HeaderInv, TypeOK, LogFile
  <2>4. ThreadInv' /\ RecoverySucceeds' /\ HeaderInv' /\ GaplessInv' /\ CountInv'
    BY <2>2, <2>3
    DEF RecoverInv, ThreadInv, RecoverySucceeds, HeaderInv, GaplessInv, CountInv, ReplayingIn, Thread
  <2>5. NumberInv' BY <2>1, <2>2 DEF NumberInv
  <2> QED BY <2>4, <2>5 DEF RecoverInv
<1> QED BY <1>1, <1>2, <1>3 DEF Recovery

LEMMA RecoverCheckpoint ==
    ASSUME RecoverInv, TypeOK', SeqInv', Checkpoint
    PROVE  RecoverInv'
<1>0. /\ log.ents \in Seq(Entry) /\ log.ckpt \in Nat /\ sequence_id \in Nat
      /\ ckpt.seq \in Nat
  BY DEF RecoverInv, TypeOK, LogFile
<1>1. main = "run" /\ conn \in {"write", "header"}
  BY DEF Checkpoint, CheckpointUser, CheckpointTruncate, CheckpointHeader,
         RecoverInv, ThreadInv
<1>2. ASSUME NEW u \in Users, CheckpointUser(u) PROVE RecoverInv'
  <2>1. UNCHANGED <<main, conn, sequence_id, log>> /\ ckpt'.seq = ckpt.seq
    BY <1>2 DEF CheckpointUser, RecoverInv, TypeOK
  <2>2. ThreadInv' /\ RecoverySucceeds' /\ HeaderInv' /\ GaplessInv' /\ CountInv'
    BY <1>1, <2>1
    DEF RecoverInv, ThreadInv, RecoverySucceeds, HeaderInv, GaplessInv, CountInv, ReplayingIn, Thread
  <2>3. NumberInv' BY <2>1 DEF RecoverInv, NumberInv, Recovered
  <2> QED BY <2>2, <2>3 DEF RecoverInv
<1>3. CASE CheckpointTruncate
  <2>1. /\ conn = "write" /\ conn' = "header" /\ UNCHANGED <<main, sequence_id, ckpt>>
        /\ log'.state = "bare" /\ log'.ents = <<>>
    BY <1>3 DEF CheckpointTruncate, RecoverInv, TypeOK, LogFile, mem
  <2>2. ThreadInv' /\ RecoverySucceeds' /\ HeaderInv' /\ GaplessInv' /\ CountInv'
    BY <1>1, <2>1
    DEF ThreadInv, RecoverySucceeds, HeaderInv, GaplessInv, CountInv, ReplayingIn, Thread
  <2>3. NumberInv' BY <2>1 DEF RecoverInv, NumberInv
  <2> QED BY <2>2, <2>3 DEF RecoverInv
<1>4. CASE CheckpointHeader
  <2>1. /\ conn = "header" /\ conn' = "idle" /\ UNCHANGED <<main, sequence_id>>
        /\ log'.state = "ok" /\ log'.ckpt = ckpt.seq /\ log'.ents = log.ents
    BY <1>4 DEF CheckpointHeader, RecoverInv, TypeOK, LogFile
  <2>2. log'.ents = <<>> /\ ckpt.seq = sequence_id
    BY <2>1 DEF RecoverInv, NumberInv
  <2>3. ThreadInv' /\ RecoverySucceeds' /\ HeaderInv' /\ GaplessInv' /\ CountInv'
    BY <1>1, <2>1, <2>2
    DEF ThreadInv, RecoverySucceeds, HeaderInv, GaplessInv, CountInv, ReplayingIn, Thread
  <2>4. NumberInv' BY <1>0, <2>1, <2>2 DEF NumberInv
  <2> QED BY <2>3, <2>4 DEF RecoverInv
<1> QED BY <1>2, <1>3, <1>4 DEF Checkpoint

\* The process dies with a log that has its header, or none at all.
LEMMA RecoverDie ==
    ASSUME TypeOK', SeqInv', Die, main' = "down", GaplessInv',
           log'.state # "bare", log'.state = "absent" => log'.ents = <<>>
    PROVE  RecoverInv'
<1>1. conn' = "idle" /\ msgs' = 1 /\ ~killed' BY DEF Die
<1>2. ThreadInv' /\ HeaderInv' /\ RecoverySucceeds'
  BY <1>1 DEF ThreadInv, HeaderInv, RecoverySucceeds
<1>3. NumberInv' /\ CountInv'
  BY <1>1 DEF NumberInv, CountInv, Recovered, ReplayingIn, Thread
<1> QED BY <1>2, <1>3 DEF RecoverInv

LEMMA RecoverCrashes ==
    ASSUME Orderly, RecoverInv, TypeOK', SeqInv', Crashes
    PROVE  RecoverInv'
<1>0. TypeOK /\ GaplessInv /\ HeaderInv BY DEF RecoverInv
<1>1. CASE Crash
  <2>1. Die /\ main' = "down" /\ log' = log /\ conn # "header"
    BY <1>1 DEF Crash, Orderly, disk
  <2>2. GaplessInv' BY <1>0, <2>1 DEF GaplessInv
  <2> QED BY <1>0, <2>1, <2>2, RecoverDie DEF HeaderInv
<1>2. ASSUME NEW i \in Item, NEW v \in Val, CrashAfterLog(i, v) \/ CrashInSignUp(i, v)
      PROVE  RecoverInv'
  <2>1. Running /\ Die /\ main' = "down" /\ log' \in {log, Logged(i, v)}
    BY <1>2 DEF CrashAfterLog, CrashInSignUp
  <2>2. log.state = "ok" /\ sequence_id = log.ckpt + Len(log.ents)
    BY <2>1, RunningIs
  <2>3. CASE log' = log
    <3>1. GaplessInv' BY <1>0, <2>3 DEF GaplessInv
    <3> QED BY <2>1, <2>2, <2>3, <3>1, RecoverDie
  <2>4. CASE log' = Logged(i, v)
    <3>1. GaplessInv' /\ log'.state = "ok" BY <1>0, <2>2, <2>4, GaplessLogged
    <3> QED BY <2>1, <3>1, RecoverDie
  <2> QED BY <2>1, <2>3, <2>4
<1> QED BY <1>1, <1>2 DEF Crashes

LEMMA RecoverStep == Orderly /\ RecoverInv /\ [Next]_vars => RecoverInv'
<1> SUFFICES ASSUME Orderly, RecoverInv, [Next]_vars PROVE RecoverInv'
  OBVIOUS
<1>0. TypeOK' /\ SeqInv' BY TypeStep, SeqStep DEF RecoverInv, Orderly, Patient
<1>1. CASE Start
  <2>1. main \in {"down", "failed"} /\ main' = "wait" /\ UNCHANGED <<conn, msgs, killed, log>>
    BY <1>1 DEF Start, Alive, mem, disk
  <2>2. conn = "idle" /\ msgs = 1 /\ ~killed BY <2>1 DEF RecoverInv, ThreadInv
  <2>3. ThreadInv' /\ HeaderInv' /\ GaplessInv' /\ RecoverySucceeds'
    BY <2>1, <2>2 DEF RecoverInv, ThreadInv, HeaderInv, GaplessInv, RecoverySucceeds
  <2>4. NumberInv' /\ CountInv'
    BY <2>1, <2>2 DEF NumberInv, CountInv, Recovered, ReplayingIn, Thread
  <2> QED BY <1>0, <2>3, <2>4 DEF RecoverInv
<1>2. CASE UNCHANGED vars
  BY <1>0, <1>2
  DEF RecoverInv, ThreadInv, HeaderInv, GaplessInv, NumberInv, CountInv,
      RecoverySucceeds, Recovered, ReplayingIn, Thread, vars, mem, disk
<1> QED BY <1>0, <1>1, <1>2, RecoverClient, RecoverAdmin, RecoverRecovery,
           RecoverCheckpoint, RecoverCrashes DEF Next

\* Recovery never fails (RecoverySucceeds): a node that crashed anywhere but
\* between the truncation of its log and the new header, or that was killed,
\* can be started again, since ReplayLoggings finds a header and records that
\* carry consecutive numbers from it on.
THEOREM RecoveryNeverFails ==
  ASSUME Orderly
  PROVE  Spec => []RecoverySucceeds
<1>1. RecoverInv /\ [Next]_vars => RecoverInv' BY RecoverStep
<1>2. RecoverInv => RecoverySucceeds BY DEF RecoverInv
<1> QED BY <1>1, <1>2, RecoverInit, PTL DEF Spec

------------------------------------------------------------------------------
(***************************************************************************)
(* KvNode implements KvMap, for every set of users, keys and values, every *)
(* checkpoint period and every bound, if clients and the administrator     *)
(* wait for the recovery of the node (no "early", no "earlyKill"), and     *)
(* clients write to users that have a folder (no "stray") and do not reach *)
(* it between CLUSTER and RESTART (no "restartGap").                       *)
(* The table is what the disk would give back: Recoverable.  Each step of  *)
(* the node is a command of the table or leaves it as it is.               *)
(***************************************************************************)

Faithful == Gentle /\ "restartGap" \notin Hazards

\* Only users with a folder have anything in the chunk files, and a log that
\* does not exist has no records.
DiskInv ==
    /\ \A i \in Item : store[i] # NoVal => UserOf(i) \in dirs
    /\ log.state = "absent" => log.ents = <<>>

MapInv == DurableInv /\ SeqInv /\ DiskInv

kv == [i \in Item |-> Recoverable(i)]

\* A log that is created has the records of the one that was not there.
LEMMA CreatedLog ==
    ASSUME DiskInv, CreateLog
    PROVE  log'.ents = log.ents /\ log'.state # "absent" /\ UNCHANGED <<dirs, store>>
BY DEF CreateLog, DiskInv

LEMMA DiskStep == TypeOK /\ DiskInv /\ [Next]_vars => DiskInv'
<1> SUFFICES ASSUME TypeOK, DiskInv, [Next]_vars PROVE DiskInv'
  OBVIOUS
<1> USE DEF DiskInv
<1>1. CASE UNCHANGED disk BY <1>1 DEF disk
<1>2. ASSUME NEW i, NEW v, log' = Logged(i, v), store' = store, dirs \subseteq dirs'
      PROVE  DiskInv'
  BY <1>2 DEF Logged, TypeOK, LogFile
<1>3. ASSUME log' = log, store' = store, dirs \subseteq dirs' PROVE DiskInv'
  BY <1>3
<1>4. CASE Client
  BY <1>1, <1>2, <1>3, <1>4
  DEF Client, Puts, Dele, Write, Cput, EarlyNumber, EarlyWrite, Apply, Created, Gets,
      GetsAll, Dropped, disk
<1>5. CASE \E t \in Thread : Recovery(t)
  BY <1>1, <1>5 DEF Recovery, InitCache, CreateLog, BeginReplay, ReplayEntry, ReplayDone, Exit,
     TypeOK, LogFile
<1>6. CASE Checkpoint
  <2>1. ASSUME NEW u \in Users, CheckpointUser(u) PROVE DiskInv'
    BY <2>1 DEF CheckpointUser, Appended
  <2>2. CASE CheckpointTruncate BY <2>2 DEF CheckpointTruncate, TypeOK, LogFile
  <2>3. CASE CheckpointHeader BY <2>3 DEF CheckpointHeader, TypeOK, LogFile
  <2> QED BY <1>6, <2>1, <2>2, <2>3 DEF Checkpoint
<1>7. CASE Crashes
  BY <1>1, <1>2, <1>3, <1>7 DEF Crashes, Crash, CrashAfterLog, CrashInSignUp
<1>8. CASE Admin
  <2>1. CASE CreateLog BY <2>1, CreatedLog
  <2> QED BY <1>1, <1>8, <2>1 DEF Admin, Kill, Cluster, Restart, Exit, disk
<1>9. CASE Start \/ UNCHANGED vars BY <1>1, <1>9 DEF Start, vars
<1> QED BY <1>4, <1>5, <1>6, <1>7, <1>8, <1>9 DEF Next
\* The steps of the node that leave the disk as it is leave the table as it is.
LEMMA SameDisk ==
    ASSUME log'.ents = log.ents, store' = store
    PROVE  kv' = kv
<1>1. \A i : Recoverable(i)' = Recoverable(i) BY DEF Recoverable, OnDisk
<1> QED BY <1>1 DEF kv

\* A record in the log is a write to the table.
LEMMA LoggedIsWrite ==
    ASSUME TypeOK, NEW i \in Item, NEW v \in Val, log' = Logged(i, v), store' = store
    PROVE  kv' = [kv EXCEPT ![i] = v]
<1> DEFINE e == [seq |-> sequence_id + 1, item |-> i, val |-> v]
<1>1. /\ log'.ents = Append(log.ents, e)
      /\ e \in Entry /\ log.ents \in Seq(Entry) /\ e.item = i /\ e.val = v
  BY LoggedType DEF TypeOK, LogFile
<1> HIDE DEF e
<1>2. v # NoVal BY NoValAssumption DEF Val
<1>3. \A j : OnDisk(j)' = OnDisk(j) BY DEF OnDisk
<1>4. ASSUME NEW j \in Item PROVE Recoverable(j)' = IF j = i THEN v ELSE Recoverable(j)
  <2>1. LastWrite(log'.ents, Len(log'.ents), j) =
          IF i = j THEN v ELSE LastWrite(log.ents, Len(log.ents), j)
    <3>1. LastWrite(Append(log.ents, e), Len(Append(log.ents, e)), j) =
            IF e.item = j THEN e.val ELSE LastWrite(log.ents, Len(log.ents), j)
      BY <1>1, LastWriteAppend
    <3> QED BY <1>1, <3>1
  <2> QED BY <1>2, <1>3, <2>1 DEF Recoverable
<1> QED BY <1>4 DEF kv

\* What a running node would answer is what the table holds.
LEMMA CachedIsTable ==
    ASSUME MapInv, Recovered, NEW i \in Item
    PROVE  /\ Cached(i) = kv[i]
           /\ Overlaid[i] = kv[i]
           /\ kv[i] \in Val
<1>1. Cached(i) = Recoverable(i) BY DurableFollows DEF MapInv, Durable
<1>2. kv[i] = Recoverable(i) BY DEF kv
<1>3. Overlaid[i] = Cached(i)
  BY DEF MapInv, DurableInv, ReadCacheFresh, Overlaid, Cached
<1>4. Cached(i) \in Val BY ValueTypes DEF MapInv, DurableInv
<1> QED BY <1>1, <1>2, <1>3, <1>4

\* A user without a folder has an empty row.
LEMMA NoFolderEmpty ==
    ASSUME MapInv, NEW i \in Item, UserOf(i) \notin dirs
    PROVE  kv[i] = Empty
<1> DEFINE l == Len(log.ents)
<1>1. \A n \in 1 .. l : log.ents[n].item # i
  BY DEF MapInv, DurableInv, FolderInv
<1>2. LastWrite(log.ents, l, i) = NoVal BY <1>1 DEF LastWrite, IsLast
<1>3. OnDisk(i) = Empty BY DEF MapInv, DiskInv, OnDisk
<1> QED BY <1>2, <1>3 DEF kv, Recoverable

\* The rows agree where the tables do.
LEMMA RowSame ==
    ASSUME NEW f, NEW g, NEW u \in Users, \A i \in Item : f[i] = g[i]
    PROVE  Row(f, u) = Row(g, u)
<1>1. \A k \in Keys : <<u, k>> \in Item BY DEF Item
<1> QED BY <1>1 DEF Row

\* Every command of a client is the command of the table.
LEMMA Commands ==
    ASSUME MapInv, Faithful, Client
    PROVE  Map!Next
<1>0. TypeOK /\ Empty \in Val BY DEF MapInv, DurableInv, Val
<1>1. Running => Recovered /\ SeqValid
  BY DEF Running, Recovered, MapInv, SeqInv, Replaying, ReplayingIn, Thread, SeqValid,
         Faithful, Gentle
<1>2. ASSUME NEW i \in Item, NEW v \in Val, Puts(i, v) PROVE Map!Put(i, v)
  <2>1. Apply(i, v) /\ store' = store /\ reply' = Answer("PUTS", i, "FINISHED", Empty)
    BY <1>1, <1>2 DEF Puts, Write
  <2>2. kv' = [kv EXCEPT ![i] = v] BY <1>0, <2>1, LoggedIsWrite DEF Apply
  <2> QED BY <2>1, <2>2 DEF Map!Put, Map!Answer, Map!NoReply, Answer, NoReply, kv
<1>3. ASSUME NEW i \in Item, Dele(i) PROVE Map!Dele(i)
  <2>1. Apply(i, Empty) /\ store' = store /\ reply' = Answer("DELE", i, "FINISHED", Empty)
    BY <1>1, <1>3 DEF Dele, Write
  <2>2. kv' = [kv EXCEPT ![i] = Empty] BY <1>0, <2>1, LoggedIsWrite DEF Apply
  <2> QED BY <2>1, <2>2 DEF Map!Dele, Map!Answer, Map!NoReply, Answer, NoReply, kv
<1>4. ASSUME NEW i \in Item, NEW prev \in Val, NEW new \in Val, Cput(i, prev, new)
      PROVE  Map!Cput(i, prev, new)
  <2>1. Cached(i) = kv[i] /\ store' = store
    BY <1>1, <1>4, CachedIsTable DEF Cput
  <2>2. CASE /\ Cached(i) = prev /\ Apply(i, new)
             /\ reply' = Answer("CPUT", i, "FINISHED", Empty)
    <3>1. kv' = [kv EXCEPT ![i] = new] BY <1>0, <2>1, <2>2, LoggedIsWrite DEF Apply
    <3> QED BY <2>1, <2>2, <3>1 DEF Map!Cput, Map!Answer, Map!NoReply, Answer, NoReply, kv
  <2>3. CASE /\ Cached(i) # prev /\ log' = log
             /\ reply' = Answer("CPUT", i, "VALUE_ERROR", Empty)
    <3>1. kv' = kv BY <2>1, <2>3, SameDisk
    <3> QED BY <2>1, <2>3, <3>1 DEF Map!Cput, Map!Answer, Answer, kv
  <2> QED BY <1>1, <1>4, <2>2, <2>3 DEF Cput
<1>5. ASSUME NEW i \in Item, Gets(i) PROVE Map!Get(i)
  <2>1. Cached(i) = kv[i] BY <1>1, <1>5, CachedIsTable DEF Gets
  <2>2. kv' = kv BY <1>5, SameDisk DEF Gets, disk
  <2>3. CASE GetsStatus(i) = "FINISHED"
    <3>1. reply' = Answer("GETS", i, "FINISHED", kv[i]) BY <1>5, <2>1, <2>3 DEF Gets
    <3> QED BY <2>2, <3>1 DEF Map!Get, Map!Answer, Answer, kv
  <2>4. CASE GetsStatus(i) # "FINISHED"
    <3>1. GetsStatus(i) \in {"USER_ERROR", "KEY_ERROR"} BY <2>4 DEF GetsStatus
    <3>2. reply' = Answer("GETS", i, GetsStatus(i), Empty) BY <1>5, <2>4 DEF Gets
    <3>3. kv[i] = Empty
      BY <2>1, <2>4 DEF GetsStatus, Missed, Cached, OnDisk
    <3> QED BY <2>2, <3>1, <3>2, <3>3 DEF Map!Get, Map!Answer, Answer, kv
  <2> QED BY <2>3, <2>4
<1>6. ASSUME NEW u \in Users, GetsAll(u) PROVE Map!All(u)
  <2>1. kv' = kv BY <1>6, SameDisk DEF GetsAll, disk
  <2>2. CASE u \in dirs
    <3>1. Recovered BY <1>1, <1>6 DEF GetsAll
    <3>2. Row(Overlaid, u) = Row(kv, u) BY <3>1, CachedIsTable, RowSame
    <3>3. reply' = AnswerAll(u, "FINISHED", Row(kv, u)) BY <1>6, <2>2, <3>2 DEF GetsAll
    <3> QED BY <2>1, <3>3 DEF Map!All, Map!AnswerAll, AnswerAll, Map!Row, Row, kv
  <2>3. CASE u \notin dirs
    <3>1. \A k \in Keys : kv[<<u, k>>] = Empty
      BY <2>3, NoFolderEmpty DEF Item, UserOf
    <3>2. Row(kv, u) = {} BY <3>1 DEF Row
    <3>3. reply' = AnswerAll(u, "USER_ERROR", {}) BY <1>6, <2>3 DEF GetsAll
    <3> QED BY <2>1, <3>2, <3>3 DEF Map!All, Map!AnswerAll, AnswerAll, Map!Row, Row, kv
  <2> QED BY <2>2, <2>3
<1>7. ASSUME NEW default \in DefaultReplies, Dropped(default) PROVE Map!Silent
  <2>1. kv' = kv BY <1>7, SameDisk DEF Dropped, disk
  <2>2. reply' = NoReply BY <1>7 DEF Dropped, Faithful
  <2> QED BY <2>1, <2>2 DEF Map!Silent, Map!NoReply, NoReply, kv
<1>8. ~EarlyWrite /\ \A i, prev, v : ~EarlyNumber(i, prev, v)
  BY DEF EarlyWrite, EarlyNumber, Running, Faithful, Gentle, MapInv, SeqInv
<1> QED BY <1>2, <1>3, <1>4, <1>5, <1>6, <1>7, <1>8
        DEF Client, Map!Next, Map!Item, Item, Map!Val, Val

\* A checkpoint moves values to the chunk files, and the table stays.
LEMMA CheckpointSilent ==
    ASSUME MapInv, Checkpoint PROVE Map!Silent
<1>0. TypeOK BY DEF MapInv, DurableInv
<1>1. ASSUME NEW u \in Users, CheckpointUser(u) PROVE kv' = kv
  <2>1. ckpt.up = updates_cache /\ Recovered /\ store' = Appended(u) /\ log' = log
    BY <1>1
    DEF CheckpointUser, MapInv, DurableInv, CheckpointInv, PhaseInv, Recovered
  <2>2. ASSUME NEW i \in Item PROVE Recoverable(i)' = Recoverable(i)
    <3>1. OnDisk(i)' # OnDisk(i) => updates_cache[i] # NoVal /\ OnDisk(i)' = updates_cache[i]
      BY <2>1 DEF OnDisk, Appended
    <3>2. IF LastWrite(log.ents, Len(log.ents), i) # NoVal THEN TRUE
          ELSE updates_cache[i] # NoVal => OnDisk(i) = updates_cache[i]
      BY <2>1 DEF MapInv, DurableInv, UpdatesInv
    <3> QED BY <2>1, <3>1, <3>2 DEF Recoverable
  <2> QED BY <2>2 DEF kv
<1>2. ASSUME CheckpointTruncate PROVE kv' = kv
  <2>1. log'.ents = <<>> /\ store' = store /\ Recovered
    BY <1>0, <1>2
    DEF CheckpointTruncate, MapInv, DurableInv, PhaseInv, Recovered, TypeOK, LogFile
  <2>2. \A i \in Item : updates_cache[i] # NoVal => OnDisk(i) = updates_cache[i]
    BY <1>2 DEF CheckpointTruncate, AllWritten, MapInv, DurableInv, CheckpointInv
  <2>3. \A i \in Item : Recoverable(i)' = OnDisk(i)
    BY <2>1, LastWriteNone DEF Recoverable, OnDisk
  <2>4. ASSUME NEW i \in Item PROVE Recoverable(i) = OnDisk(i)
    <3>1. LastWrite(log.ents, Len(log.ents), i) # NoVal
             => updates_cache[i] = LastWrite(log.ents, Len(log.ents), i)
      BY <2>1 DEF MapInv, DurableInv, UpdatesInv
    <3> QED BY <2>2, <3>1 DEF Recoverable
  <2> QED BY <2>3, <2>4 DEF kv
<1>3. ASSUME CheckpointHeader PROVE kv' = kv
  <2>1. log'.ents = log.ents /\ store' = store
    BY <1>0, <1>3 DEF CheckpointHeader, TypeOK, LogFile
  <2> QED BY <2>1, SameDisk
<1>4. reply' = NoReply
  BY DEF Checkpoint, CheckpointUser, CheckpointTruncate, CheckpointHeader
<1> QED BY <1>1, <1>2, <1>3, <1>4
        DEF Checkpoint, Map!Silent, Map!NoReply, NoReply, kv

\* Starting, stopping, recovering and crashing are silent, except that a crash
\* may come between a record in the log and the answer.
LEMMA OthersSilent ==
    ASSUME MapInv, Faithful, Start \/ Admin \/ (\E t \in Thread : Recovery(t)) \/ Crashes
    PROVE  Map!Next
<1>0. TypeOK BY DEF MapInv, DurableInv
<1>1. ASSUME kv' = kv, reply' = NoReply PROVE Map!Next
  BY <1>1 DEF Map!Next, Map!Silent, Map!NoReply, NoReply, kv
<1>2. CASE Start \/ Admin
  <2>1. log'.ents = log.ents /\ store' = store /\ reply' = NoReply
    <3>1. CASE CreateLog /\ reply' = NoReply BY <3>1, CreatedLog DEF MapInv
    <3> QED BY <1>2, <3>1 DEF Start, Admin, Kill, Cluster, Restart, Exit, Die, disk
  <2> QED BY <1>1, <2>1, SameDisk
<1>3. CASE \E t \in Thread : Recovery(t)
  <2>1. log'.ents = log.ents /\ store' = store /\ reply' = NoReply
    <3>1. CASE CreateLog /\ reply' = NoReply BY <3>1, CreatedLog DEF MapInv
    <3> QED BY <1>3, <3>1 DEF Recovery, InitCache, ReplayEntry, ReplayDone, Exit, Die, disk
  <2> QED BY <1>1, <2>1, SameDisk
<1>4. CASE Crash
  <2>1. log' = log /\ store' = store /\ reply' = NoReply BY <1>4 DEF Crash, Die, disk
  <2> QED BY <1>1, <2>1, SameDisk
<1>5. ASSUME NEW i \in Item, NEW v \in Val, CrashAfterLog(i, v) \/ CrashInSignUp(i, v)
      PROVE  Map!Next
  <2>1. store' = store /\ reply' = NoReply /\ log' \in {log, Logged(i, v)}
    BY <1>5 DEF CrashAfterLog, CrashInSignUp, Die
  <2>2. CASE log' = log BY <1>1, <2>1, <2>2, SameDisk
  <2>3. CASE log' = Logged(i, v)
    <3>1. kv' = [kv EXCEPT ![i] = v] BY <1>0, <2>1, <2>3, LoggedIsWrite
    <3>2. Map!Put(i, v) BY <2>1, <3>1 DEF Map!Put, Map!NoReply, NoReply, kv
    <3> QED BY <3>2 DEF Map!Next, Map!Item, Item, Map!Val, Val
  <2> QED BY <2>1, <2>2, <2>3
<1> QED BY <1>2, <1>3, <1>4, <1>5 DEF Crashes

LEMMA MapStep ==
    ASSUME MapInv, Faithful, [Next]_vars PROVE [Map!Next]_Map!vars
<1>1. CASE UNCHANGED vars
  <2>1. kv' = kv /\ reply' = reply BY <1>1, SameDisk DEF vars, disk
  <2> QED BY <2>1 DEF Map!vars, kv
<1>2. CASE Checkpoint
  BY <1>2, CheckpointSilent DEF Map!Next
<1> QED BY <1>1, <1>2, Commands, OthersSilent DEF Next

LEMMA MapInit == Init => Map!Init
<1> SUFFICES ASSUME Init PROVE Map!Init
  OBVIOUS
<1>1. \A i \in Item : Recoverable(i) = Empty
  BY LastWriteNone DEF Init, NoEntries, Recoverable, OnDisk
<1> QED BY <1>1 DEF Init, Map!Init, Map!Item, Item, Map!NoReply, NoReply

\* The node implements the table that kv_interface.h promises: each answer is
\* the answer of the table that the disk describes, at the moment of the answer,
\* and no crash, recovery or checkpoint changes the table (ImplementsKvMap).
THEOREM NodeImplementsMap ==
  ASSUME Faithful
  PROVE  Spec => ImplementsKvMap
<1>1. Init => MapInv
  <2>1. Init => DiskInv BY DEF Init, DiskInv, NoEntries
  <2> QED BY <2>1, DurableInit, SeqInit DEF MapInv
<1>2. MapInv /\ [Next]_vars => MapInv'
  <2>1. DurableInv => TypeOK BY DEF DurableInv
  <2> QED BY <2>1, DurableStep, SeqStep, DiskStep DEF MapInv, Faithful, Gentle, Patient
<1>3. MapInv /\ [Next]_vars => [Map!Next]_Map!vars BY MapStep
<1> QED BY <1>1, <1>2, <1>3, MapInit, PTL DEF Spec, ImplementsKvMap, Map!Spec
==============================================================================
