---------------------------- MODULE KvGroupHistory ---------------------------
(***************************************************************************)
(* What TLAPS proves of the data of a group while the master's calls do    *)
(* not overlap with the hazards of KvGroup: there is one history of        *)
(* writes, of which each member's disk, memory and inbox hold their part.  *)
(***************************************************************************)
EXTENDS KvGroupProofs

------------------------------------------------------------------------------
(* The history of a group: H[k] is the value of the write with the number  *)
(* k, T the number of the last one that counts as made, lim the number of  *)
(* the last one that the node has been sent.                               *)

\* The entries of a log are those of the history that follow its checkpoint.
Replays(log, H) == Replayable(log) /\ \A i \in DOMAIN log.ents : log.ents[i].val = H[log.ckpt + i]
Top(log) == log.ckpt + Len(log.ents)

\* A disk, of a node that has been away, too, is one of the history ...
Stale(dk, H, T) == dk.log.state # "bare" /\ \E b \in Nat : dk.log.ckpt <= b /\ b <= T /\ dk.base = H[b]

\* ... and that of a node at work can be replayed: the files are not behind the
\* checkpoint of the log, nor ahead of its end.
Contents(dk, H, T) ==
    /\ Replays(dk.log, H)
    /\ \E b \in Nat : dk.log.ckpt <= b /\ b <= T /\ b <= Top(dk.log) /\ dk.base = H[b]

\* The inbox has the writes after s up to l, and in their order.
Owes(q, H, s, l) ==
    /\ \A k \in Nat : s < k /\ k <= l => \E i \in DOMAIN q : q[i].com = "WRITE" /\ q[i].write.val = H[k]
    /\ \A i \in DOMAIN q : q[i].com = "WRITE" =>
          \E k \in Nat : s < k /\ k <= l /\ q[i].write.val = H[k] /\ q[i].write.prev \in {None, H[k - 1]}
    /\ \A i, j \in DOMAIN q : i < j /\ q[i].com = "WRITE" /\ q[j].com = "WRITE" =>
          q[i].write.val < q[j].write.val

\* The checkpoints in the inbox come before the write of v.
Late(q, v) ==
    \A i \in DOMAIN q : q[i].com = "CKPT" =>
       \E j \in DOMAIN q : i < j /\ q[j].com = "WRITE" /\ q[j].write.val = v

\* A node at work is where its log ends.
Memory(d, dk, H, T, lim) ==
    d.main = "run" /\ d.stage = "no" =>
       /\ Contents(dk, H, T)
       /\ d.seq = Top(dk.log) /\ d.seq <= lim
       /\ d.update # None => d.update = H[d.seq]
       /\ d.update = None => dk.log.ents = <<>>

\* What it has not applied is in its inbox.
Backlog(n, d, q, S, H, T, lim) ==
    d.main = "run" /\ d.stage = "no" /\ ~d.killed =>
       \E l \in Nat : /\ d.seq <= l /\ l <= lim /\ (n \in S => l = lim)
                      /\ Owes(q, H, d.seq, l)
                      /\ l > T => Late(q, H[T + 1])

\* What a node copies from its primary ends where the history does.
Copy(d, H, T) ==
    /\ d.stage = "log" /\ d.link # None => Replays(d.link.log, H) /\ Top(d.link.log) = T
    /\ d.stage = "full" /\ d.link # None => Contents(d.link, H, T) /\ Top(d.link.log) = T

\* The last member of a group that is empty now has all of it on its disk.
Legacy(n, dk, la, S, H, T) == Left(n, la, S) => Contents(dk, H, T) /\ Top(dk.log) = T

Data(n, d, q, dk, la, S, H, T, lim) ==
    /\ Stale(dk, H, T) /\ Memory(d, dk, H, T, lim) /\ Backlog(n, d, q, S, H, T, lim)
    /\ Copy(d, H, T) /\ Legacy(n, dk, la, S, H, T)

\* n has been sent the write that is being forwarded.
Ahead(n) == n \in Recovered(alive) /\ \E p \in Nodes : node[p].conn = "forward" /\ n # p /\ n \notin Range(node[p].todo)
Limit(n, T) == IF Ahead(n) THEN T + 1 ELSE T

\* The history goes from the empty table over every acknowledged write to the
\* last one made; the write that is being forwarded comes next.
History(H, T) ==
    /\ H[0] = 0 /\ acked <= H[T] /\ H[T] <= sent
    /\ \A i, j \in Nat : i < j /\ j <= T => H[i] < H[j]
    /\ \A p \in Nodes : node[p].conn = "forward" =>
          H[T] < node[p].cur.val /\ H[T + 1] = node[p].cur.val /\ node[p].cur.prev \in {None, H[T]}
    /\ Virgin(last, Recovered(alive)) => T = 0

Consistent(H, T) ==
    /\ History(H, T)
    /\ \A n \in Nodes : Data(n, node[n], inbox[n], disk[n], last, Recovered(alive), H, T, Limit(n, T))

OneHistory == \E H \in [Nat -> Nat], T \in Nat : Consistent(H, T)

GroupInv == Orderly /\ OneHistory

------------------------------------------------------------------------------
(* The data of one node against the history of the group.                  *)

\* The values of the history grow up to the one under the number lim.
Rising(H, lim) == \A i, j \in Nat : i < j /\ j <= lim => H[i] < H[j]

LEMMA LogFacts ==
    ASSUME NEW log \in LogType
    PROVE  /\ log.ckpt \in Nat /\ Len(log.ents) \in Nat /\ Top(log) \in Nat /\ log.ckpt <= Top(log)
           /\ log.ents \in Seq(Record) /\ DOMAIN log.ents = 1 .. Len(log.ents)
           /\ log.ents = <<>> <=> Len(log.ents) = 0
           /\ log.ents = <<>> => Top(log) = log.ckpt
<1>1. log.ckpt \in Nat /\ log.ents \in Seq(Record)
  BY DEF LogType
<1> HIDE DEF LogType
<1>2. /\ Len(log.ents) \in Nat /\ DOMAIN log.ents = 1 .. Len(log.ents)
      /\ log.ents = <<>> <=> Len(log.ents) = 0
  BY <1>1
<1> QED BY <1>1, <1>2 DEF Top

\* The table of a running node is what the history has under its number.
LEMMA MemoryValue ==
    ASSUME NEW d, NEW dk \in DiskType, NEW H, NEW T, NEW lim, Memory(d, dk, H, T, lim),
           d.main = "run", d.stage = "no"
    PROVE  Value(d, dk) = H[d.seq]
<1>1. /\ Contents(dk, H, T) /\ d.seq = Top(dk.log)
      /\ d.update # None => d.update = H[d.seq]
      /\ d.update = None => dk.log.ents = <<>>
  BY DEF Memory
<1>2. dk.log \in LogType
  BY DEF DiskType
<1>3. CASE d.update # None
  BY <1>1, <1>3 DEF Value
<1>4. CASE d.update = None
  <2>1. Top(dk.log) = dk.log.ckpt /\ dk.log.ckpt \in Nat
    BY <1>1, <1>2, <1>4, LogFacts
  <2>2. PICK b \in Nat : dk.log.ckpt <= b /\ b <= Top(dk.log) /\ dk.base = H[b]
    BY <1>1 DEF Contents
  <2>3. b = d.seq
    BY <1>1, <2>1, <2>2
  <2> QED BY <1>4, <2>2, <2>3 DEF Value
<1> QED BY <1>3, <1>4

\* The last of some records, as ReplayLoggings leaves it in the cache.
LastOf(log) == IF log.ents = <<>> THEN None ELSE log.ents[Len(log.ents)].val

LEMMA MemoryReplayed ==
    ASSUME NEW dk \in DiskType, NEW H, NEW T, NEW lim, Contents(dk, H, T), Top(dk.log) <= lim,
           NEW e, e.seq = Top(dk.log), e.update = LastOf(dk.log)
    PROVE  Memory(e, dk, H, T, lim)
<1>1. dk.log \in LogType
  BY DEF DiskType
<1> DEFINE log == dk.log
           k == Len(log.ents)
<1>2. /\ k \in Nat /\ DOMAIN log.ents = 1 .. k /\ (log.ents = <<>> <=> k = 0)
      /\ log.ckpt \in Nat /\ log.ents \in Seq(Record)
  BY <1>1, LogFacts
<1>3. log.ents # <<>> => log.ents[k].val = H[log.ckpt + k] /\ log.ents[k].val # None
  <2> SUFFICES ASSUME log.ents # <<>> PROVE log.ents[k].val = H[log.ckpt + k] /\ log.ents[k].val # None
    OBVIOUS
  <2>1. k \in DOMAIN log.ents
    BY <1>2
  <2>2. log.ents[k] \in Record
    BY <1>2, <2>1
  <2>3. log.ents[k].val \in Val
    BY <2>2 DEF Record
  <2> QED BY <2>1, <2>3, GroupNone DEF Contents, Replays, Val
<1> QED BY <1>2, <1>3 DEF Memory, LastOf, Top

LEMMA LogAppended ==
    ASSUME NEW H, NEW log \in LogType, Replays(log, H), NEW v \in Val, v = H[Top(log) + 1],
           NEW g, g.state = "ok", g.ckpt = log.ckpt,
           g.ents = Append(log.ents, [seq |-> Top(log) + 1, val |-> v])
    PROVE  Replays(g, H) /\ Top(g) = Top(log) + 1
<1> DEFINE k == Len(log.ents)
           new == [seq |-> Top(log) + 1, val |-> v]
           ents == Append(log.ents, new)
<1>1. /\ k \in Nat /\ DOMAIN log.ents = 1 .. k /\ log.ckpt \in Nat /\ log.ents \in Seq(Record)
      /\ Top(log) \in Nat /\ Top(log) = log.ckpt + k
  BY LogFacts DEF Top
<1>2. new \in Record /\ new.seq = Top(log) + 1 /\ new.val = v
  BY <1>1 DEF Record
<1> HIDE DEF new, k
<1>3. /\ DOMAIN ents = 1 .. (k + 1) /\ Len(ents) = k + 1
      /\ \A i \in DOMAIN log.ents : ents[i] = log.ents[i]
      /\ ents[k + 1] = new
  BY <1>1, <1>2 DEF k
<1> HIDE DEF ents
<1>4. \A i \in DOMAIN ents : (i \in DOMAIN log.ents \/ i = k + 1) /\ i \in Nat
  BY <1>1, <1>3
<1>5. Top(log) + 1 = log.ckpt + (k + 1)
  BY <1>1
<1>6. new.seq = log.ckpt + (k + 1) /\ new.val = H[log.ckpt + (k + 1)]
  BY <1>2, <1>5
<1>7. \A i \in DOMAIN ents : ents[i].seq = log.ckpt + i /\ ents[i].val = H[log.ckpt + i]
  <2> SUFFICES ASSUME NEW i \in DOMAIN ents PROVE ents[i].seq = log.ckpt + i /\ ents[i].val = H[log.ckpt + i]
    OBVIOUS
  <2>1. CASE i \in DOMAIN log.ents
    <3>1. log.ents[i].seq = log.ckpt + i /\ log.ents[i].val = H[log.ckpt + i]
      BY <2>1 DEF Replays, Replayable
    <3> QED BY <1>3, <2>1, <3>1
  <2>2. CASE i = k + 1
    BY <1>3, <1>6, <2>2
  <2> QED BY <1>4, <2>1, <2>2
<1>8. g.ents = ents
  BY DEF ents, new
<1>9. Replays(g, H)
  BY <1>7, <1>8 DEF Replays, Replayable
<1> QED BY <1>1, <1>3, <1>5, <1>8, <1>9 DEF Top

\* A write under the next number.
LEMMA MemoryApplied ==
    ASSUME NEW w, NEW d, Proc(d, w), NEW dk \in DiskType, NEW x \in Write,
           NEW H \in [Nat -> Nat], NEW T \in Nat, NEW lim, Memory(d, dk, H, T, lim),
           d.main = "run", d.stage = "no", x.prev \in {None, H[d.seq]}, x.val = H[d.seq + 1],
           NEW v \in Nat, d.seq + 1 <= v, NEW U \in Nat, T <= U,
           NEW e, SameCache(e, Applied(d, dk, x))
    PROVE  Memory(e, Logged(d, dk, x), H, U, v) /\ e.seq = d.seq + 1 /\ Accepts(d, dk, x)
<1> DEFINE log == dk.log
           g == Logged(d, dk, x)
<1>1. /\ Contents(dk, H, T) /\ d.seq = Top(log) /\ d.seq \in Nat
  BY FieldTypes DEF Memory
<1>2. x.val # None /\ x.val \in Val
  <2>1. x.val \in 1 .. MaxWrites
    BY DEF Write
  <2> QED BY <2>1, GroupNone, GroupBounds DEF Val
<1>3. Accepts(d, dk, x)
  <2>1. Value(d, dk) = H[d.seq]
    BY MemoryValue
  <2> QED BY <2>1 DEF Accepts
<1>4. log \in LogType /\ log.state = "ok" /\ Replays(log, H)
  BY <1>1 DEF DiskType, Contents, Replays, Replayable
<1>5. e.seq = d.seq + 1 /\ e.update = x.val
  <2>1. Applied(d, dk, x).seq = d.seq + 1 /\ Applied(d, dk, x).update = x.val
    BY <1>3, AppliedIs
  <2> QED BY <2>1 DEF SameCache
<1>6. g = [base |-> dk.base,
           log  |-> [state |-> IF log.state = "absent" THEN "bare" ELSE log.state,
                     ckpt  |-> log.ckpt,
                     ents  |-> Append(log.ents, [seq |-> d.seq + 1, val |-> x.val])]]
  BY <1>3, AppliedIs
<1> HIDE DEF g
<1>7. /\ g.base = dk.base /\ g.log.state = "ok" /\ g.log.ckpt = log.ckpt
      /\ g.log.ents = Append(log.ents, [seq |-> Top(log) + 1, val |-> x.val])
  BY <1>1, <1>4, <1>6
<1> HIDE DEF log
<1>8. Replays(g.log, H) /\ Top(g.log) = d.seq + 1
  <2>1. x.val = H[Top(log) + 1]
    BY <1>1
  <2>2. Replays(g.log, H) /\ Top(g.log) = Top(log) + 1
    BY <1>2, <1>4, <1>7, <2>1, LogAppended
  <2> QED BY <1>1, <2>2
<1>9. Contents(g, H, U)
  <2>1. PICK b \in Nat : log.ckpt <= b /\ b <= T /\ b <= Top(log) /\ dk.base = H[b]
    BY <1>1 DEF Contents, log
  <2>2. b <= U /\ b <= d.seq + 1
    BY <1>1, <2>1
  <2> QED BY <1>7, <1>8, <2>1, <2>2 DEF Contents
<1>10. e.update = H[e.seq] /\ e.update # None
  BY <1>2, <1>5
<1>11. Memory(e, g, H, U, v)
  BY <1>5, <1>8, <1>9, <1>10 DEF Memory
<1> QED BY <1>3, <1>5, <1>11 DEF g

\* A checkpoint, of no more than everybody has got.
LEMMA MemoryCheckpointed ==
    ASSUME NEW w, NEW d, Proc(d, w), NEW dk \in DiskType,
           NEW H, NEW T \in Nat, NEW lim, Memory(d, dk, H, T, lim),
           d.main = "run", d.stage = "no", d.seq <= T
    PROVE  /\ Memory(d, Checkpointed(d, dk), H, T, lim)
           /\ Contents(Checkpointed(d, dk), H, T) /\ Top(Checkpointed(d, dk).log) = d.seq
<1> DEFINE dn == Checkpointed(d, dk)
<1>1. dn.base = H[d.seq] /\ dn.log.state = "ok" /\ dn.log.ckpt = d.seq /\ dn.log.ents = <<>>
  BY MemoryValue DEF Checkpointed
<1>2. d.seq \in Nat
  BY FieldTypes
<1> HIDE DEF dn
<1>3. Top(dn.log) = d.seq
  BY <1>1, <1>2 DEF Top
<1>4. Contents(dn, H, T)
  BY <1>1, <1>2, <1>3 DEF Contents, Replays, Replayable
<1>5. Memory(d, dn, H, T, lim)
  BY <1>1, <1>3, <1>4 DEF Memory
<1> QED BY <1>3, <1>4, <1>5 DEF dn

------------------------------------------------------------------------------
(* The writes that a node has not read yet.                                *)

LEMMA OwesThin ==
    ASSUME NEW w \in Nat, NEW q, Queue(q, w), NEW v \in Nat, NEW r, Queue(r, v), NEW C, Thin(q, r, C),
           "WRITE" \in C, NEW H, NEW s, NEW l
    PROVE  /\ Owes(q, H, s, l) => Owes(r, H, s, l)
           /\ \A u : Late(q, u) => Late(r, u)
<1>1. \A k \in DOMAIN r : \E i \in DOMAIN q :
                 /\ q[i] = r[k]
                 /\ \A j \in DOMAIN r : j < k => \E h \in DOMAIN q : h < i /\ q[h] = r[j]
                 /\ \A j \in DOMAIN r : k < j => \E h \in DOMAIN q : i < h /\ q[h] = r[j]
                 /\ \A h \in DOMAIN q : h < i /\ q[h].com \in C =>
                       \E j \in DOMAIN r : j < k /\ r[j] = q[h]
                 /\ \A h \in DOMAIN q : i < h /\ q[h].com \in C =>
                       \E j \in DOMAIN r : k < j /\ r[j] = q[h]
  BY ThinFacts
<1>2. \A i \in DOMAIN q : q[i].com \in C =>
                 \E k \in DOMAIN r :
                    /\ r[k] = q[i]
                    /\ \A j \in DOMAIN r : k < j => \E h \in DOMAIN q : i < h /\ q[h] = r[j]
  BY ThinFacts
<1>3. ASSUME Owes(q, H, s, l) PROVE Owes(r, H, s, l)
  <2>1. \A k \in Nat : s < k /\ k <= l => \E i \in DOMAIN r : r[i].com = "WRITE" /\ r[i].write.val = H[k]
    <3> SUFFICES ASSUME NEW k \in Nat, s < k, k <= l
                 PROVE  \E i \in DOMAIN r : r[i].com = "WRITE" /\ r[i].write.val = H[k]
      OBVIOUS
    <3>1. PICK i \in DOMAIN q : q[i].com = "WRITE" /\ q[i].write.val = H[k]
      BY <1>3 DEF Owes
    <3> QED BY <1>2, <3>1
  <2>2. \A i \in DOMAIN r : \E j \in DOMAIN q : q[j] = r[i]
    BY <1>1
  <2>3. \A i \in DOMAIN r : r[i].com = "WRITE" =>
          \E k \in Nat : s < k /\ k <= l /\ r[i].write.val = H[k] /\ r[i].write.prev \in {None, H[k - 1]}
    BY <1>3, <2>2 DEF Owes
  <2>4. \A i, j \in DOMAIN r : i < j /\ r[i].com = "WRITE" /\ r[j].com = "WRITE" =>
          r[i].write.val < r[j].write.val
    <3> SUFFICES ASSUME NEW i \in DOMAIN r, NEW j \in DOMAIN r, i < j, r[i].com = "WRITE", r[j].com = "WRITE"
                 PROVE  r[i].write.val < r[j].write.val
      OBVIOUS
    <3>1. PICK h \in DOMAIN q : /\ q[h] = r[j]
                                /\ \A x \in DOMAIN r : x < j => \E y \in DOMAIN q : y < h /\ q[y] = r[x]
      BY <1>1
    <3>2. PICK y \in DOMAIN q : y < h /\ q[y] = r[i]
      BY <3>1
    <3> QED BY <1>3, <3>1, <3>2 DEF Owes
  <2> QED BY <2>1, <2>3, <2>4 DEF Owes
<1>4. ASSUME NEW u, Late(q, u) PROVE Late(r, u)
  <2> SUFFICES ASSUME NEW k \in DOMAIN r, r[k].com = "CKPT"
               PROVE  \E j \in DOMAIN r : k < j /\ r[j].com = "WRITE" /\ r[j].write.val = u
    BY DEF Late
  <2>1. PICK i \in DOMAIN q :
                 /\ q[i] = r[k]
                 /\ \A h \in DOMAIN q : i < h /\ q[h].com \in C =>
                       \E j \in DOMAIN r : k < j /\ r[j] = q[h]
    BY <1>1
  <2>2. PICK h \in DOMAIN q : i < h /\ q[h].com = "WRITE" /\ q[h].write.val = u
    BY <1>4, <2>1 DEF Late
  <2>3. PICK j \in DOMAIN r : k < j /\ r[j] = q[h]
    BY <2>1, <2>2
  <2> QED BY <2>2, <2>3
<1> QED BY <1>3, <1>4

LEMMA BacklogThin ==
    ASSUME NEW w \in Nat, NEW q, Queue(q, w), NEW v \in Nat, NEW r, Queue(r, v), NEW C, Thin(q, r, C),
           "WRITE" \in C, NEW n, NEW d, NEW S, NEW H, NEW T, NEW lim, Backlog(n, d, q, S, H, T, lim)
    PROVE  Backlog(n, d, r, S, H, T, lim)
<1> SUFFICES ASSUME d.main = "run", d.stage = "no", ~d.killed
             PROVE  \E l \in Nat : /\ d.seq <= l /\ l <= lim /\ (n \in S => l = lim)
                                   /\ Owes(r, H, d.seq, l)
                                   /\ l > T => Late(r, H[T + 1])
  BY DEF Backlog
<1>1. PICK l \in Nat : /\ d.seq <= l /\ l <= lim /\ (n \in S => l = lim)
                       /\ Owes(q, H, d.seq, l)
                       /\ l > T => Late(q, H[T + 1])
  BY DEF Backlog
<1>2. Owes(r, H, d.seq, l) /\ (Late(q, H[T + 1]) => Late(r, H[T + 1]))
  BY <1>1, OwesThin
<1> QED BY <1>1, <1>2

\* A message that is no write.
LEMMA OwesGrown ==
    ASSUME NEW q, NEW r, NEW m, Grown(q, r, m), m.com # "WRITE", NEW H, NEW s, NEW l
    PROVE  /\ Owes(q, H, s, l) => Owes(r, H, s, l)
           /\ m.com # "CKPT" => \A u : Late(q, u) => Late(r, u)
<1>1. PICK k \in DOMAIN r :
          /\ r[k] = m /\ k \notin DOMAIN q
          /\ \A i \in DOMAIN r : i \in DOMAIN q \/ i = k
          /\ \A i \in DOMAIN q : i < k
  BY DEF Grown
<1>2. DOMAIN q \subseteq DOMAIN r /\ \A i \in DOMAIN q : r[i] = q[i]
  BY DEF Grown
<1>3. \A i \in DOMAIN r : r[i].com = "WRITE" => i \in DOMAIN q /\ q[i] = r[i]
  BY <1>1, <1>2
<1>4. Owes(q, H, s, l) => Owes(r, H, s, l)
  BY <1>2, <1>3 DEF Owes
<1>5. m.com # "CKPT" => \A u : Late(q, u) => Late(r, u)
  BY <1>1, <1>2 DEF Late
<1> QED BY <1>4, <1>5

LEMMA BacklogGrown ==
    ASSUME NEW q, NEW r, NEW m, Grown(q, r, m), m.com # "WRITE",
           NEW n, NEW d, NEW S, NEW H, NEW T \in Nat, NEW lim, m.com = "CKPT" => lim = T,
           Backlog(n, d, q, S, H, T, lim)
    PROVE  Backlog(n, d, r, S, H, T, lim)
<1> SUFFICES ASSUME d.main = "run", d.stage = "no", ~d.killed
             PROVE  \E l \in Nat : /\ d.seq <= l /\ l <= lim /\ (n \in S => l = lim)
                                   /\ Owes(r, H, d.seq, l)
                                   /\ l > T => Late(r, H[T + 1])
  BY DEF Backlog
<1>1. PICK l \in Nat : /\ d.seq <= l /\ l <= lim /\ (n \in S => l = lim)
                       /\ Owes(q, H, d.seq, l)
                       /\ l > T => Late(q, H[T + 1])
  BY DEF Backlog
<1>2. Owes(r, H, d.seq, l) /\ (m.com # "CKPT" => (Late(q, H[T + 1]) => Late(r, H[T + 1])))
  BY <1>1, OwesGrown
<1>3. m.com = "CKPT" => ~(l > T)
  BY <1>1
<1> QED BY <1>1, <1>2, <1>3

\* The write that is being forwarded.
LEMMA BacklogWrite ==
    ASSUME NEW q, NEW r, NEW m, Grown(q, r, m), m.com = "WRITE",
           NEW n, NEW d, d.seq \in Nat, NEW S, n \in S, NEW H, NEW T \in Nat, Backlog(n, d, q, S, H, T, T),
           m.write.val = H[T + 1], m.write.prev \in {None, H[T]}, Rising(H, T + 1)
    PROVE  Backlog(n, d, r, S, H, T, T + 1)
<1> SUFFICES ASSUME d.main = "run", d.stage = "no", ~d.killed
             PROVE  Owes(r, H, d.seq, T + 1) /\ Late(r, H[T + 1]) /\ d.seq <= T + 1
  BY DEF Backlog
<1>1. d.seq <= T /\ Owes(q, H, d.seq, T)
  BY DEF Backlog
<1>2. PICK k \in DOMAIN r :
          /\ r[k] = m /\ k \notin DOMAIN q
          /\ \A i \in DOMAIN r : i \in DOMAIN q \/ i = k
          /\ \A i \in DOMAIN q : i < k
  BY DEF Grown
<1>3. /\ DOMAIN q \subseteq DOMAIN r /\ \A i \in DOMAIN q : r[i] = q[i]
      /\ \A i, j \in DOMAIN r : i < j => i \in DOMAIN q /\ ~(j < i) /\ i # j
  BY DEF Grown
<1>4. \A h \in Nat : d.seq < h /\ h <= T + 1 => \E i \in DOMAIN r : r[i].com = "WRITE" /\ r[i].write.val = H[h]
  <2> SUFFICES ASSUME NEW h \in Nat, d.seq < h, h <= T + 1
               PROVE  \E i \in DOMAIN r : r[i].com = "WRITE" /\ r[i].write.val = H[h]
    OBVIOUS
  <2>1. CASE h = T + 1
    BY <1>2, <2>1
  <2>2. CASE h <= T
    <3>1. PICK i \in DOMAIN q : q[i].com = "WRITE" /\ q[i].write.val = H[h]
      BY <1>1, <2>2 DEF Owes
    <3> QED BY <1>3, <3>1
  <2> QED BY <2>1, <2>2
<1>5. \A i \in DOMAIN q : q[i].com = "WRITE" =>
          \E h \in Nat : d.seq < h /\ h <= T /\ q[i].write.val = H[h] /\ q[i].write.prev \in {None, H[h - 1]}
  BY <1>1 DEF Owes
<1>6. \A i \in DOMAIN r : r[i].com = "WRITE" =>
          \E h \in Nat : d.seq < h /\ h <= T + 1 /\ r[i].write.val = H[h] /\ r[i].write.prev \in {None, H[h - 1]}
  <2> SUFFICES ASSUME NEW i \in DOMAIN r, r[i].com = "WRITE"
               PROVE  \E h \in Nat : d.seq < h /\ h <= T + 1 /\ r[i].write.val = H[h]
                                     /\ r[i].write.prev \in {None, H[h - 1]}
    OBVIOUS
  <2>1. CASE i = k
    <3>1. T + 1 \in Nat /\ d.seq < T + 1 /\ T + 1 <= T + 1 /\ (T + 1) - 1 = T
      BY <1>1
    <3> QED BY <1>2, <2>1, <3>1
  <2>2. CASE i \in DOMAIN q
    <3>1. PICK h \in Nat : d.seq < h /\ h <= T /\ q[i].write.val = H[h] /\ q[i].write.prev \in {None, H[h - 1]}
      BY <1>3, <1>5, <2>2
    <3>2. h <= T + 1
      BY <3>1
    <3> QED BY <1>3, <2>2, <3>1, <3>2
  <2> QED BY <1>2, <2>1, <2>2
<1>7. \A i, j \in DOMAIN r : i < j /\ r[i].com = "WRITE" /\ r[j].com = "WRITE" =>
          r[i].write.val < r[j].write.val
  <2> SUFFICES ASSUME NEW i \in DOMAIN r, NEW j \in DOMAIN r, i < j, r[i].com = "WRITE", r[j].com = "WRITE"
               PROVE  r[i].write.val < r[j].write.val
    OBVIOUS
  <2>1. i \in DOMAIN q /\ q[i] = r[i]
    BY <1>3
  <2>2. CASE j \in DOMAIN q
    BY <1>1, <1>3, <2>1, <2>2 DEF Owes
  <2>3. CASE j = k
    <3>1. PICK h \in Nat : h <= T /\ r[i].write.val = H[h]
      BY <1>5, <2>1
    <3>2. H[h] < H[T + 1]
      BY <3>1 DEF Rising
    <3> QED BY <1>2, <2>3, <3>1, <3>2
  <2> QED BY <1>2, <2>2, <2>3
<1>8. Late(r, H[T + 1])
  <2> SUFFICES ASSUME NEW i \in DOMAIN r, r[i].com = "CKPT"
               PROVE  i < k /\ r[k].com = "WRITE" /\ r[k].write.val = H[T + 1]
    BY DEF Late
  <2> QED BY <1>2
<1> QED BY <1>1, <1>4, <1>6, <1>7, <1>8 DEF Owes

\* The write m is the next one, and e has taken it from the backlog q of d.
NextRead(m, n, d, e, r, S, H, T, lim) ==
    /\ m.write.val = H[d.seq + 1] /\ m.write.prev \in {None, H[d.seq]} /\ d.seq + 1 <= lim
    /\ Backlog(n, e, r, S, H, T, lim)

\* The write that a node reads is the next one.
LEMMA BacklogRead ==
    ASSUME NEW q, NEW r, NEW m, Popped(q, r, m), m.com = "WRITE",
           NEW n, NEW d, d.seq \in Nat, NEW S, NEW H \in [Nat -> Nat], NEW T \in Nat, NEW lim \in Nat,
           Backlog(n, d, q, S, H, T, lim), Rising(H, lim),
           d.main = "run", d.stage = "no", ~d.killed,
           NEW e, e.seq = d.seq + 1
    PROVE  NextRead(m, n, d, e, r, S, H, T, lim)
<1> PICK s \in Nat : s = d.seq
  OBVIOUS
<1>1. PICK l \in Nat : /\ s <= l /\ l <= lim /\ (n \in S => l = lim)
                       /\ Owes(q, H, s, l)
                       /\ l > T => Late(q, H[T + 1])
  BY DEF Backlog
<1>2. /\ 1 \in DOMAIN q /\ q[1] = m
      /\ \A i \in DOMAIN r : i + 1 \in DOMAIN q /\ r[i] = q[i + 1] /\ i \in Nat /\ 1 < i + 1
      /\ \A i \in DOMAIN q : i \in Nat /\ (i = 1 \/ (i - 1 \in DOMAIN r /\ r[i - 1] = q[i] /\ 1 < i))
  BY DEF Popped
<1>3. /\ \A k \in Nat : s < k /\ k <= l => \E i \in DOMAIN q : q[i].com = "WRITE" /\ q[i].write.val = H[k]
      /\ \A i \in DOMAIN q : q[i].com = "WRITE" =>
            \E k \in Nat : s < k /\ k <= l /\ q[i].write.val = H[k] /\ q[i].write.prev \in {None, H[k - 1]}
      /\ \A i, j \in DOMAIN q : i < j /\ q[i].com = "WRITE" /\ q[j].com = "WRITE" =>
            q[i].write.val < q[j].write.val
  BY <1>1 DEF Owes
<1>4. \A i, j \in Nat : i < j /\ j <= l => H[i] < H[j]
  <2> SUFFICES ASSUME NEW i \in Nat, NEW j \in Nat, i < j, j <= l PROVE H[i] < H[j]
    OBVIOUS
  <2>1. j <= lim
    BY <1>1
  <2> QED BY <2>1 DEF Rising
<1>5. \A i \in Nat : H[i] \in Nat
  OBVIOUS
<1>6. PICK k \in Nat : s < k /\ k <= l /\ m.write.val = H[k] /\ m.write.prev \in {None, H[k - 1]}
  BY <1>2, <1>3
<1>7. k = s + 1
  <2>1. s + 1 \in Nat /\ s < s + 1 /\ s + 1 <= l /\ s + 1 <= k
    BY <1>6
  <2>2. PICK i \in DOMAIN q : q[i].com = "WRITE" /\ q[i].write.val = H[s + 1]
    BY <1>3, <2>1
  <2>3. i = 1 \/ m.write.val < q[i].write.val
    BY <1>2, <1>3, <2>2
  <2>4. H[k] = H[s + 1] \/ H[k] < H[s + 1]
    BY <1>2, <1>6, <2>2, <2>3
  <2>5. s + 1 < k => H[s + 1] < H[k]
    BY <1>4, <1>6, <2>1
  <2>6. H[k] \in Nat /\ H[s + 1] \in Nat
    BY <1>5, <2>1
  <2> QED BY <2>1, <2>4, <2>5, <2>6
<1>8. m.write.val = H[s + 1] /\ m.write.prev \in {None, H[s]} /\ s + 1 <= l /\ k - 1 = s
  <2>1. k - 1 = s
    BY <1>7
  <2> QED BY <1>6, <1>7, <2>1
<1>9. \A i \in DOMAIN r : r[i].com = "WRITE" =>
          \E j \in Nat : s + 1 < j /\ j <= l /\ r[i].write.val = H[j] /\ r[i].write.prev \in {None, H[j - 1]}
  <2> SUFFICES ASSUME NEW i \in DOMAIN r, r[i].com = "WRITE"
               PROVE  \E j \in Nat : s + 1 < j /\ j <= l /\ r[i].write.val = H[j]
                                     /\ r[i].write.prev \in {None, H[j - 1]}
    OBVIOUS
  <2>1. i + 1 \in DOMAIN q /\ r[i] = q[i + 1] /\ 1 < i + 1
    BY <1>2
  <2>2. PICK j \in Nat : s < j /\ j <= l /\ r[i].write.val = H[j] /\ r[i].write.prev \in {None, H[j - 1]}
    BY <1>3, <2>1
  <2>3. H[s + 1] < H[j]
    BY <1>2, <1>3, <1>8, <2>1, <2>2
  <2>4. H[s + 1] \in Nat /\ H[j] \in Nat
    BY <1>5
  <2>5. j # s + 1
    BY <2>3, <2>4
  <2> QED BY <2>2, <2>5
<1>10. \A j \in Nat : s + 1 < j /\ j <= l => \E i \in DOMAIN r : r[i].com = "WRITE" /\ r[i].write.val = H[j]
  <2> SUFFICES ASSUME NEW j \in Nat, s + 1 < j, j <= l
               PROVE  \E i \in DOMAIN r : r[i].com = "WRITE" /\ r[i].write.val = H[j]
    OBVIOUS
  <2>1. PICK i \in DOMAIN q : q[i].com = "WRITE" /\ q[i].write.val = H[j]
    BY <1>3
  <2>2. H[s + 1] < H[j] /\ H[s + 1] \in Nat /\ H[j] \in Nat
    BY <1>4, <1>5
  <2>3. i # 1
    BY <1>2, <1>8, <2>1, <2>2
  <2> QED BY <1>2, <2>1, <2>3
<1>11. \A i, j \in DOMAIN r : i < j /\ r[i].com = "WRITE" /\ r[j].com = "WRITE" =>
          r[i].write.val < r[j].write.val
  <2> SUFFICES ASSUME NEW i \in DOMAIN r, NEW j \in DOMAIN r, i < j, r[i].com = "WRITE", r[j].com = "WRITE"
               PROVE  r[i].write.val < r[j].write.val
    OBVIOUS
  <2>1. i + 1 < j + 1
    BY <1>2
  <2> QED BY <1>2, <1>3, <2>1
<1>12. Owes(r, H, s + 1, l)
  BY <1>9, <1>10, <1>11 DEF Owes
<1>13. l > T => Late(r, H[T + 1])
  <2> SUFFICES ASSUME l > T, NEW i \in DOMAIN r, r[i].com = "CKPT"
               PROVE  \E j \in DOMAIN r : i < j /\ r[j].com = "WRITE" /\ r[j].write.val = H[T + 1]
    BY DEF Late
  <2>1. i + 1 \in DOMAIN q /\ q[i + 1] = r[i]
    BY <1>2
  <2>2. PICK j \in DOMAIN q : i + 1 < j /\ q[j].com = "WRITE" /\ q[j].write.val = H[T + 1]
    BY <1>1, <2>1 DEF Late
  <2>3. j # 1 /\ j - 1 \in DOMAIN r /\ r[j - 1] = q[j] /\ i < j - 1
    BY <1>2, <2>2
  <2> QED BY <2>2, <2>3
<1>14. e.seq = s + 1
  OBVIOUS
<1>15. Backlog(n, e, r, S, H, T, lim)
  BY <1>1, <1>8, <1>12, <1>13, <1>14 DEF Backlog
<1>16. s + 1 <= lim
  BY <1>1, <1>8
<1> QED BY <1>8, <1>15, <1>16 DEF NextRead

\* Without a write to read, a member has got all that it was sent.
LEMMA BacklogNone ==
    ASSUME NEW n, NEW d, d.seq \in Nat, NEW q, NEW S, NEW H, NEW T \in Nat, NEW lim \in Nat,
           Backlog(n, d, q, S, H, T, lim), d.main = "run", d.stage = "no", ~d.killed, ~Holds(q, "WRITE")
    PROVE  d.seq <= lim /\ (n \in S => d.seq = lim)
<1>1. PICK l \in Nat : d.seq <= l /\ l <= lim /\ (n \in S => l = lim) /\ Owes(q, H, d.seq, l)
  BY DEF Backlog
<1>2. d.seq = l
  <2>1. ASSUME d.seq < l PROVE FALSE
    <3>1. \E i \in DOMAIN q : q[i].com = "WRITE" /\ q[i].write.val = H[l]
      BY <1>1, <2>1 DEF Owes
    <3> QED BY <3>1 DEF Holds
  <2> QED BY <1>1, <2>1
<1> QED BY <1>1, <1>2

\* A checkpoint comes when the write under way is not there yet.
LEMMA BacklogCheckpoint ==
    ASSUME NEW q, NEW r, NEW m, Popped(q, r, m), m.com = "CKPT",
           NEW n, NEW d, d.seq \in Nat, NEW S, NEW H \in [Nat -> Nat], NEW T \in Nat, NEW lim \in Nat, lim <= T + 1,
           Backlog(n, d, q, S, H, T, lim), Rising(H, lim),
           d.main = "run", d.stage = "no", ~d.killed
    PROVE  d.seq <= T
<1>1. PICK l \in Nat : /\ d.seq <= l /\ l <= lim
                       /\ Owes(q, H, d.seq, l)
                       /\ l > T => Late(q, H[T + 1])
  BY DEF Backlog
<1> SUFFICES ASSUME d.seq > T PROVE FALSE
  OBVIOUS
<1>2. l = T + 1 /\ d.seq = T + 1
  BY <1>1
<1>3. 1 \in DOMAIN q /\ q[1].com = "CKPT"
  BY DEF Popped
<1>4. PICK j \in DOMAIN q : q[j].com = "WRITE"
  BY <1>1, <1>2, <1>3 DEF Late
<1>5. \E k \in Nat : d.seq < k /\ k <= l
  BY <1>1, <1>4 DEF Owes
<1> QED BY <1>2, <1>5

------------------------------------------------------------------------------
(* The history and the write that is being forwarded.                      *)

\* Only the first member forwards, and every member has recovered then.
LEMMA OneForwards ==
    ASSUME Orderly, NEW p \in Nodes, node[p].conn = "forward"
    PROVE  /\ IsFirst(p, alive) /\ p \in Recovered(alive) /\ Range(alive) \subseteq Recovered(alive)
           /\ \A n \in Nodes : IsFirst(n, alive) => n = p
           /\ \A n \in Nodes : node[n].conn = "forward" => n = p
           /\ \A n \in Nodes : n \in Recovered(alive) <=> n \in Range(alive)
           /\ node[p].main = "run" /\ node[p].stage = "no" /\ node[p].primary
<1>1. \A n \in Nodes : node[n].conn = "forward" =>
         /\ IsFirst(n, alive) /\ n \in Recovered(alive) /\ Range(alive) \subseteq Recovered(alive)
         /\ node[n].main = "run" /\ node[n].stage = "no" /\ node[n].primary
  BY OrderlyFacts DEF Place, Roles, Forwards
<1>2. \A n \in Nodes : n \in Recovered(alive) => n \in Range(alive)
  BY RecoveredIs, BasicScalars DEF Orderly
<1>3. \A n \in Nodes : IsFirst(n, alive) => n = p
  BY <1>1 DEF IsFirst
<1> QED BY <1>1, <1>2, <1>3

LEMMA HistoryFacts ==
    ASSUME Orderly, NEW H \in [Nat -> Nat], NEW T \in Nat, Consistent(H, T), NEW n \in Nodes
    PROVE  /\ Data(n, node[n], inbox[n], disk[n], last, Recovered(alive), H, T, Limit(n, T))
           /\ Limit(n, T) \in Nat /\ T <= Limit(n, T) /\ Limit(n, T) <= T + 1
           /\ Rising(H, T) /\ Rising(H, Limit(n, T))
           /\ (\E p \in Nodes : node[p].conn = "forward") => Rising(H, T + 1)
           /\ IsFirst(n, alive) => Limit(n, T) = T
           /\ (\A p \in Nodes : node[p].conn # "forward") => Limit(n, T) = T
           /\ Proc(node[n], sent) /\ Queue(inbox[n], sent) /\ disk[n] \in DiskType /\ sent \in Nat
           /\ node[n].seq \in Nat
<1>1. Data(n, node[n], inbox[n], disk[n], last, Recovered(alive), H, T, Limit(n, T)) /\ History(H, T)
  BY DEF Consistent
<1>2. Limit(n, T) \in Nat /\ T <= Limit(n, T) /\ Limit(n, T) <= T + 1
  BY DEF Limit
<1>3. \A i, j \in Nat : i < j /\ j <= T => H[i] < H[j]
  BY <1>1 DEF History
<1>4. Rising(H, T)
  BY <1>3 DEF Rising
<1>5. ASSUME NEW p \in Nodes, node[p].conn = "forward" PROVE Rising(H, T + 1)
  <2> SUFFICES ASSUME NEW i \in Nat, NEW j \in Nat, i < j, j <= T + 1 PROVE H[i] < H[j]
    BY DEF Rising
  <2>1. H[T] < H[T + 1] /\ \A k \in Nat : H[k] \in Nat
    BY <1>1, <1>5 DEF History
  <2>2. CASE j <= T
    BY <1>3, <2>2
  <2>3. CASE j = T + 1
    <3>1. i = T \/ (i < T /\ H[i] < H[T])
      BY <1>3, <2>3
    <3>2. H[i] \in Nat /\ H[T] \in Nat /\ H[T + 1] \in Nat
      BY <2>1
    <3> QED BY <2>1, <2>3, <3>1, <3>2
  <2> QED BY <2>2, <2>3
<1>6. Ahead(n) => \E p \in Nodes : node[p].conn = "forward" /\ n # p
  BY DEF Ahead
<1>7. Rising(H, Limit(n, T))
  BY <1>4, <1>5, <1>6 DEF Limit
<1>8. IsFirst(n, alive) => Limit(n, T) = T
  BY <1>6, OneForwards DEF Limit
<1>9. (\A p \in Nodes : node[p].conn # "forward") => Limit(n, T) = T
  BY <1>6 DEF Limit
<1>10. Proc(node[n], sent) /\ Queue(inbox[n], sent) /\ disk[n] \in DiskType /\ sent \in Nat
  BY BasicFacts DEF Orderly
<1>11. node[n].seq \in Nat
  BY <1>10, FieldTypes
<1> QED BY <1>1, <1>2, <1>4, <1>5, <1>7, <1>8, <1>9, <1>10, <1>11

\* The first member, with no write under way, holds the end of the history.
LEMMA FirstHolds ==
    ASSUME Orderly, NEW H \in [Nat -> Nat], NEW T \in Nat, Consistent(H, T), NEW n \in Nodes,
           IsFirst(n, alive), n \in Recovered(alive), node[n].primary
    PROVE  /\ node[n].main = "run" /\ node[n].stage = "no" /\ ~node[n].killed
           /\ node[n].seq = T /\ Table(n) = H[T] /\ Contents(disk[n], H, T) /\ Top(disk[n].log) = T
<1>1. node[n].main = "run" /\ node[n].stage = "no" /\ ~node[n].killed
  BY RecoveredIs, BasicScalars DEF In, Orderly
<1>2. /\ Data(n, node[n], inbox[n], disk[n], last, Recovered(alive), H, T, Limit(n, T))
      /\ Limit(n, T) = T /\ node[n].seq \in Nat /\ disk[n] \in DiskType
  BY HistoryFacts
<1>3. ~Holds(inbox[n], "WRITE")
  BY OrderlyFacts DEF Place, Writes, Holds
<1>4. node[n].seq = T
  BY <1>1, <1>2, <1>3, BacklogNone DEF Data
<1>5. Memory(node[n], disk[n], H, T, T)
  BY <1>2 DEF Data
<1>6. Value(node[n], disk[n]) = H[T]
  BY <1>1, <1>2, <1>4, <1>5, MemoryValue
<1>7. Contents(disk[n], H, T) /\ Top(disk[n].log) = T
  BY <1>1, <1>4, <1>5 DEF Memory
<1> QED BY <1>1, <1>4, <1>6, <1>7 DEF Table

------------------------------------------------------------------------------
(* Steps that add nothing to the history.                                  *)

Quiet(H, T) ==
    /\ acked' = acked /\ sent' = sent /\ last' = last /\ alive' = alive
    /\ \A p \in Nodes : (node'[p].conn = "forward") <=> (node[p].conn = "forward")
    /\ \A p \in Nodes : node[p].conn = "forward" => SameWork(node'[p], node[p])

LEMMA QuietStep ==
    ASSUME Orderly, NEW H \in [Nat -> Nat], NEW T \in Nat, Consistent(H, T), Quiet(H, T),
           NEW Z, Recovered(alive)' = Z, Z = Recovered(alive) \/ \E n \in Range(alive) : Z = Recovered(alive) \cup {n},
           \A x \in Nodes : Data(x, node'[x], inbox'[x], disk'[x], last, Z, H, T, Limit(x, T))
    PROVE  Consistent(H, T)'
<1> DEFINE S == Recovered(alive)
<1>1. \A x \in Nodes : Ahead(x)' <=> Ahead(x)
  <2> SUFFICES ASSUME NEW x \in Nodes, NEW p \in Nodes, node[p].conn = "forward"
               PROVE  (x \in Z <=> x \in S) /\ node'[p].todo = node[p].todo
    BY DEF Ahead, Quiet
  <2>1. Range(alive) \subseteq S
    BY OneForwards
  <2> QED BY <2>1 DEF Quiet, SameWork
<1>2. \A x \in Nodes : Limit(x, T)' = Limit(x, T)
  BY <1>1 DEF Limit
<1>3. History(H, T) /\ (Virgin(last, Z) => Virgin(last, S))
  BY DEF Consistent, Virgin
<1>4. History(H, T)'
  <2>1. \A p \in Nodes : node'[p].conn = "forward" => node[p].conn = "forward" /\ node'[p].cur = node[p].cur
    BY DEF Quiet, SameWork
  <2> QED BY <1>3, <2>1 DEF History, Quiet
<1>5. last' = last
  BY DEF Quiet
<1> QED BY <1>2, <1>4, <1>5 DEF Consistent

\* What the data of a node depends on.
LEMMA DataFrame ==
    ASSUME NEW n, NEW d, NEW q, NEW dk, NEW la, NEW S, NEW H, NEW T, NEW lim, Data(n, d, q, dk, la, S, H, T, lim),
           NEW e, e.main = d.main, e.stage = d.stage, ~e.killed => ~d.killed, SameCache(e, d),
           e.link = d.link \/ Copy(e, H, T),
           NEW lb, NEW Z, n \in Z => n \in S, Left(n, lb, Z) => Left(n, la, S)
    PROVE  Data(n, e, q, dk, lb, Z, H, T, lim)
<1>1. Memory(e, dk, H, T, lim)
  BY DEF Data, Memory, SameCache
<1>2. Backlog(n, e, q, Z, H, T, lim)
  BY DEF Data, Backlog, SameCache
<1>3. Copy(e, H, T)
  BY DEF Data, Copy
<1>4. Legacy(n, dk, lb, Z, H, T) /\ Stale(dk, H, T)
  BY DEF Data, Legacy
<1> QED BY <1>1, <1>2, <1>3, <1>4 DEF Data

\* n alone changes, but for what the others read from their connections.
LEMMA QuietLocal ==
    ASSUME Orderly, NEW H \in [Nat -> Nat], NEW T \in Nat, Consistent(H, T), Quiet(H, T), NEW n \in Nodes,
           \A x \in Nodes : x # n =>
              /\ node'[x].main = node[x].main /\ node'[x].stage = node[x].stage
              /\ node'[x].killed = node[x].killed /\ SameCache(node'[x], node[x])
              /\ node'[x].link = node[x].link \/ Copy(node'[x], H, T)
              /\ inbox'[x] = inbox[x] /\ disk'[x] = disk[x],
           NEW Z, Recovered(alive)' = Z,
           Z = Recovered(alive) \/ (n \in Range(alive) /\ Z = Recovered(alive) \cup {n}),
           Data(n, node'[n], inbox'[n], disk'[n], last, Z, H, T, Limit(n, T))
    PROVE  Consistent(H, T)'
<1> PICK S : S = Recovered(alive)
  OBVIOUS
<1>1. ASSUME NEW x \in Nodes, x # n
      PROVE  Data(x, node'[x], inbox'[x], disk'[x], last, Z, H, T, Limit(x, T))
  <2>1. Data(x, node[x], inbox[x], disk[x], last, S, H, T, Limit(x, T))
    BY HistoryFacts
  <2>2. (x \in Z => x \in S) /\ (Left(x, last, Z) => Left(x, last, S))
    BY <1>1 DEF Left
  <2>3. /\ node'[x].main = node[x].main /\ node'[x].stage = node[x].stage
        /\ node'[x].killed = node[x].killed /\ SameCache(node'[x], node[x])
        /\ node'[x].link = node[x].link \/ Copy(node'[x], H, T)
        /\ inbox'[x] = inbox[x] /\ disk'[x] = disk[x]
    BY <1>1
  <2>4. Data(x, node'[x], inbox[x], disk[x], last, Z, H, T, Limit(x, T))
    BY <2>1, <2>2, <2>3, DataFrame
  <2> QED BY <2>3, <2>4
<1>2. \A x \in Nodes : Data(x, node'[x], inbox'[x], disk'[x], last, Z, H, T, Limit(x, T))
  BY <1>1
<1>3. Z = Recovered(alive) \/ \E x \in Range(alive) : Z = Recovered(alive) \cup {x}
  OBVIOUS
<1> QED BY <1>2, <1>3, QuietStep

\* n ends a message, and the data is that of nd and dk.
LEMMA EndingData ==
    ASSUME Orderly, NEW H \in [Nat -> Nat], NEW T \in Nat, Consistent(H, T), NEW n \in Nodes,
           NEW nd, NEW w, Proc(nd, w), NEW dk, EndMessage(n, nd, dk), node[n].conn # "forward",
           alive' = alive, last' = last, sent' = sent, acked' = acked,
           inbox' = inbox \/ inbox' = Unread(n),
           NEW Z, Recovered(alive)' = Z,
           Z = Recovered(alive) \/ (n \in Range(alive) /\ Z = Recovered(alive) \cup {n}),
           NEW q, q = inbox'[n], Data(n, nd, q, dk, last, Z, H, T, Limit(n, T))
    PROVE  Consistent(H, T)'
<1>0. DOMAIN node = Nodes /\ DOMAIN inbox = Nodes /\ DOMAIN disk = Nodes
  BY BasicFacts DEF Orderly
<1>1. PICK e : /\ Proc(e, w) /\ Ended(n, e, nd)
               /\ node' = [node EXCEPT ![n] = e] /\ disk' = [disk EXCEPT ![n] = dk]
  BY ONLY Proc(nd, w), n \in Nodes, EndMessage(n, nd, dk), EndMessageIs
<1>2. /\ node'[n] = e /\ disk'[n] = dk
      /\ \A x \in Nodes : x # n => node'[x] = node[x] /\ inbox'[x] = inbox[x] /\ disk'[x] = disk[x]
  BY <1>0, <1>1 DEF Unread
<1>3. e.conn # "forward" /\ SameRole(e, nd) /\ SameSync(e, nd) /\ SameCache(e, nd)
  BY <1>1 DEF Ended
<1>4. Data(n, e, q, dk, last, Z, H, T, Limit(n, T))
  BY <1>3, DataFrame DEF SameRole, SameSync
<1>5. Data(n, node'[n], inbox'[n], disk'[n], last, Z, H, T, Limit(n, T))
  BY <1>2, <1>4
<1>6. Quiet(H, T)
  BY <1>2, <1>3 DEF Quiet, SameWork
<1>7. \A x \in Nodes : x # n =>
              /\ node'[x].main = node[x].main /\ node'[x].stage = node[x].stage
              /\ node'[x].killed = node[x].killed /\ SameCache(node'[x], node[x])
              /\ node'[x].link = node[x].link \/ Copy(node'[x], H, T)
              /\ inbox'[x] = inbox[x] /\ disk'[x] = disk[x]
  BY <1>2 DEF SameCache
<1> QED BY <1>5, <1>6, <1>7, QuietLocal

\* It has read a message.
LEMMA DataUnread ==
    ASSUME Orderly, NEW H \in [Nat -> Nat], NEW T \in Nat, Consistent(H, T), NEW n \in Nodes,
           NEW m, Reads(n, m), m.com # "WRITE" \/ node[n].killed
    PROVE  /\ Data(n, node[n], Tail(inbox[n]), disk[n], last, Recovered(alive), H, T, Limit(n, T))
           /\ Unread(n)[n] = Tail(inbox[n])
<1>1. Data(n, node[n], inbox[n], disk[n], last, Recovered(alive), H, T, Limit(n, T))
  BY HistoryFacts
<1>2. Basic /\ Queue(inbox[n], sent) /\ sent \in Nat /\ inbox[n] # <<>> /\ m = Head(inbox[n])
  BY ReadHead
<1>3. Backlog(n, node[n], Tail(inbox[n]), Recovered(alive), H, T, Limit(n, T))
  <2>1. CASE node[n].killed
    BY <2>1 DEF Backlog
  <2>2. CASE m.com # "WRITE"
    <3>1. Thin(inbox[n], Tail(inbox[n]), {"WRITE"})
      BY <1>2, <2>2, TailThin
    <3>2. Queue(Tail(inbox[n]), sent)
      BY <1>2, QueueTail
    <3>3. "WRITE" \in {"WRITE"} /\ Backlog(n, node[n], inbox[n], Recovered(alive), H, T, Limit(n, T))
      BY <1>1 DEF Data
    <3> QED BY <1>2, <3>1, <3>2, <3>3, BacklogThin
  <2> QED BY <2>1, <2>2
<1>4. Unread(n)[n] = Tail(inbox[n])
  BY <1>2, BasicFacts DEF Unread
<1> QED BY <1>1, <1>3, <1>4 DEF Data

LEMMA ClientReadData ==
    ASSUME Orderly, NEW H \in [Nat -> Nat], NEW T \in Nat, Consistent(H, T), NEW n \in Nodes,
           ClientRead(n), StepSame
    PROVE  Consistent(H, T)'
<1>1. /\ EndMessage(n, node[n], disk[n]) /\ node[n].conn = "idle" /\ inbox' = inbox
      /\ alive' = alive /\ last' = last /\ sent' = sent /\ acked' = acked
  BY DEF ClientRead, Serves
<1>2. Data(n, node[n], inbox[n], disk[n], last, Recovered(alive), H, T, Limit(n, T)) /\ Proc(node[n], sent)
  BY HistoryFacts
<1> QED BY <1>1, <1>2, EndingData DEF StepSame

LEMMA EndServeData ==
    ASSUME Orderly, NEW H \in [Nat -> Nat], NEW T \in Nat, Consistent(H, T), NEW n \in Nodes,
           EndServe(n), StepSame
    PROVE  Consistent(H, T)'
<1>1. /\ EndMessage(n, node[n], disk[n]) /\ node[n].conn = "serve" /\ inbox' = inbox
      /\ alive' = alive /\ last' = last /\ sent' = sent /\ acked' = acked
  BY DEF EndServe
<1>2. Data(n, node[n], inbox[n], disk[n], last, Recovered(alive), H, T, Limit(n, T)) /\ Proc(node[n], sent)
  BY HistoryFacts
<1> QED BY <1>1, <1>2, EndingData DEF StepSame

LEMMA IgnoredData ==
    ASSUME Orderly, NEW H \in [Nat -> Nat], NEW T \in Nat, Consistent(H, T), NEW n \in Nodes,
           NEW m, Reads(n, m), Ignored(n, m), StepSame
    PROVE  Consistent(H, T)'
<1>1. /\ EndMessage(n, node[n], disk[n]) /\ node[n].conn = "idle" /\ inbox' = Unread(n)
      /\ alive' = alive /\ last' = last /\ sent' = sent /\ acked' = acked
  BY DEF Ignored, Quietly, Reads
<1>2. m.com # "WRITE" \/ node[n].killed
  BY DEF Ignored
<1>3. Proc(node[n], sent)
  BY HistoryFacts
<1>4. Data(n, node[n], Tail(inbox[n]), disk[n], last, Recovered(alive), H, T, Limit(n, T)) /\ inbox'[n] = Tail(inbox[n])
  BY <1>1, <1>2, DataUnread
<1> QED BY <1>1, <1>3, <1>4, EndingData DEF StepSame

LEMMA ClusterData ==
    ASSUME Orderly, NEW H \in [Nat -> Nat], NEW T \in Nat, Consistent(H, T), NEW n \in Nodes,
           NEW m, Reads(n, m), Cluster(n, m), StepSame
    PROVE  Consistent(H, T)'
<1> DEFINE d == node[n]
           b == d.primary \/ Head(m.list) = n
           nd == [d EXCEPT !.view = m.list, !.primary = b]
<1>1. /\ EndMessage(n, nd, disk[n]) /\ node[n].conn = "idle" /\ inbox' = Unread(n) /\ m.com = "CLUSTER"
      /\ alive' = alive /\ last' = last /\ sent' = sent /\ acked' = acked
  BY DEF Cluster, Quietly, Reads
<1>2. Proc(d, sent) /\ d \in Process /\ m \in Letter
  BY ReadHead, QueueTail DEF Proc
<1>3. m.list \in Seq(Nodes) /\ b \in BOOLEAN
  BY <1>2, FieldTypes DEF Letter
<1> HIDE DEF d, b
<1>4. /\ nd \in Process /\ nd.main = d.main /\ nd.stage = d.stage /\ nd.killed = d.killed
      /\ nd.link = d.link /\ SameCache(nd, d) /\ nd.conn = d.conn /\ nd.cur = d.cur
  BY ZenonT(60), <1>2, <1>3 DEF Process, SameCache
<1> HIDE DEF nd
<1>5. Proc(nd, sent)
  BY <1>2, <1>4 DEF Proc
<1>6. Data(n, d, Tail(inbox[n]), disk[n], last, Recovered(alive), H, T, Limit(n, T)) /\ inbox'[n] = Tail(inbox[n])
  BY <1>1, DataUnread DEF d
<1>7. Data(n, nd, Tail(inbox[n]), disk[n], last, Recovered(alive), H, T, Limit(n, T))
  BY <1>4, <1>6, DataFrame
<1> QED BY <1>1, <1>5, <1>6, <1>7, EndingData DEF StepSame

LEMMA KilledData ==
    ASSUME Orderly, NEW H \in [Nat -> Nat], NEW T \in Nat, Consistent(H, T), NEW n \in Nodes,
           NEW m, Reads(n, m), Killed(n, m), StepSame
    PROVE  Consistent(H, T)'
<1> DEFINE d == node[n]
           nd == [d EXCEPT !.killed = TRUE, !.primary = FALSE]
<1>1. /\ EndMessage(n, nd, disk[n]) /\ node[n].conn = "idle" /\ inbox' = Unread(n) /\ m.com = "KILL"
      /\ alive' = alive /\ last' = last /\ sent' = sent /\ acked' = acked
  BY DEF Killed, Quietly, Reads
<1>2. Proc(d, sent) /\ d \in Process
  BY ReadHead DEF Proc
<1> HIDE DEF d
<1>4. /\ nd \in Process /\ nd.main = d.main /\ nd.stage = d.stage /\ nd.killed = TRUE
      /\ nd.link = d.link /\ SameCache(nd, d) /\ nd.conn = d.conn /\ nd.cur = d.cur
  BY ZenonT(60), <1>2 DEF Process, SameCache
<1> HIDE DEF nd
<1>5. Proc(nd, sent)
  BY <1>2, <1>4 DEF Proc
<1>6. Data(n, d, Tail(inbox[n]), disk[n], last, Recovered(alive), H, T, Limit(n, T)) /\ inbox'[n] = Tail(inbox[n])
  BY <1>1, DataUnread DEF d
<1>7. Data(n, nd, Tail(inbox[n]), disk[n], last, Recovered(alive), H, T, Limit(n, T))
  BY <1>4, <1>6, DataFrame
<1> QED BY <1>1, <1>5, <1>6, <1>7, EndingData DEF StepSame

LEMMA ContentsStale ==
    ASSUME NEW dk, NEW H, NEW T, Contents(dk, H, T)
    PROVE  Stale(dk, H, T)
BY DEF Contents, Stale, Replays, Replayable

\* A write that a node applies.
LEMMA ForwardedData ==
    ASSUME Orderly, NEW H \in [Nat -> Nat], NEW T \in Nat, Consistent(H, T), NEW n \in Nodes,
           NEW m, Reads(n, m), Forwarded(n, m), StepSame
    PROVE  Consistent(H, T)'
<1> DEFINE d == node[n]
           dk == disk[n]
           q == inbox[n]
           x == m.write
           nd == Applied(d, dk, x)
           dn == Logged(d, dk, x)
           S == Recovered(alive)
           lim == Limit(n, T)
<1>1. /\ m.com = "WRITE" /\ RunWrite(n, x) /\ inbox' = Unread(n) /\ d.conn = "idle"
      /\ alive' = alive /\ last' = last /\ sent' = sent /\ acked' = acked
  BY DEF Forwarded, Quietly, Reads
<1>2. d.main = "run" /\ d.stage = "no" /\ ~d.killed /\ ~d.primary
  BY <1>1, WriteRead
<1>3. EndMessage(n, nd, dn)
  BY <1>1, <1>2 DEF RunWrite
<1>4. x \in Write /\ Queue(q, sent) /\ sent \in Nat /\ q # <<>> /\ Head(q) = m
  BY <1>1, ReadHead, ReadFacts DEF Sensible
<1>5. /\ Data(n, d, q, dk, last, S, H, T, lim) /\ Proc(d, sent) /\ dk \in DiskType
      /\ lim \in Nat /\ T <= lim /\ lim <= T + 1 /\ Rising(H, lim) /\ d.seq \in Nat
  BY HistoryFacts
<1>6. Popped(q, Tail(q), m) /\ inbox'[n] = Tail(q)
  <2>1. DOMAIN inbox = Nodes
    BY BasicFacts DEF Orderly
  <2> QED BY <1>1, <1>4, <2>1, PoppedIs DEF Unread
<1>7. ~Left(n, last, S)
  <2>1. Holds(q, "WRITE")
    BY <1>1, <1>6 DEF Popped
  <2> QED BY <2>1, OrderlyFacts DEF Place, Leaver
<1>x. x = m.write
  OBVIOUS
<1> HIDE DEF x
<1>8. /\ Proc(nd, sent) /\ SameRole(nd, d) /\ SameSync(nd, d) /\ nd.seq = d.seq + 1
  BY ONLY <1>4, <1>5, AppliedIs
<1> HIDE DEF d, dk, q, S, lim
<1>9. /\ x.val = H[d.seq + 1] /\ x.prev \in {None, H[d.seq]} /\ d.seq + 1 <= lim
      /\ Backlog(n, nd, Tail(q), S, H, T, lim)
  <2>1. Backlog(n, d, q, S, H, T, lim)
    BY <1>5 DEF Data
  <2> HIDE DEF nd
  <2>2. NextRead(m, n, d, nd, Tail(q), S, H, T, lim)
    <3>1. /\ Popped(q, Tail(q), m) /\ m.com = "WRITE" /\ d.seq \in Nat /\ lim \in Nat
          /\ Rising(H, lim) /\ d.main = "run" /\ d.stage = "no" /\ ~d.killed /\ nd.seq = d.seq + 1
      BY <1>1, <1>2, <1>5, <1>6, <1>8
    <3> QED BY ONLY <2>1, <3>1, H \in [Nat -> Nat], T \in Nat, BacklogRead
  <2> QED BY <1>x, <2>2 DEF NextRead
<1>10. Memory(nd, dn, H, T, lim)
  <2>1. Memory(d, dk, H, T, lim) /\ SameCache(nd, Applied(d, dk, x)) /\ T <= T
    BY <1>5 DEF Data, SameCache
  <2> HIDE DEF nd
  <2> QED BY <1>2, <1>4, <1>5, <1>9, <2>1, MemoryApplied
<1> HIDE DEF nd, dn
<1>11. Stale(dn, H, T)
  BY <1>2, <1>8, <1>10, ContentsStale DEF Memory, SameRole, SameSync
<1>12. Copy(nd, H, T) /\ Legacy(n, dn, last, S, H, T)
  BY <1>2, <1>7, <1>8 DEF Copy, Legacy, SameSync
<1>13. Data(n, nd, Tail(q), dn, last, S, H, T, lim)
  BY <1>9, <1>10, <1>11, <1>12 DEF Data
<1> USE DEF d, S, lim
<1> QED BY <1>1, <1>3, <1>6, <1>8, <1>13, EndingData DEF StepSame

\* A checkpoint.
LEMMA DataCheckpointed ==
    ASSUME NEW w, NEW d, Proc(d, w), NEW dk \in DiskType, NEW n, NEW q, NEW la, NEW S, NEW H, NEW T \in Nat,
           NEW lim, Data(n, d, q, dk, la, S, H, T, lim),
           \/ d.main = "run" /\ d.stage = "no" /\ d.seq <= T
           \/ d.main # "run" /\ d.seq = 0 /\ d.update = None /\ ~Left(n, la, S)
    PROVE  Data(n, d, q, Checkpointed(d, dk), la, S, H, T, lim)
<1> DEFINE dn == Checkpointed(d, dk)
<1>1. Backlog(n, d, q, S, H, T, lim) /\ Copy(d, H, T)
  BY DEF Data
<1>2. CASE d.main = "run" /\ d.stage = "no" /\ d.seq <= T
  <2>0. Memory(d, dk, H, T, lim)
    BY DEF Data
  <2>1. Memory(d, dn, H, T, lim) /\ Contents(dn, H, T) /\ Top(dn.log) = d.seq
    BY <1>2, <2>0, MemoryCheckpointed
  <2>2. Left(n, la, S) => d.seq = T
    <3> SUFFICES ASSUME Left(n, la, S) PROVE d.seq = T
      OBVIOUS
    <3>1. Top(dk.log) = T /\ d.seq = Top(dk.log)
      BY <1>2 DEF Data, Legacy, Memory
    <3> QED BY <3>1
  <2>3. Stale(dn, H, T) /\ Legacy(n, dn, la, S, H, T)
    BY <2>1, <2>2, ContentsStale DEF Legacy
  <2> QED BY <1>1, <2>1, <2>3 DEF Data
<1>3. CASE d.main # "run" /\ d.seq = 0 /\ d.update = None /\ ~Left(n, la, S)
  <2>1. dn.base = dk.base /\ dn.log.state = "ok" /\ dn.log.ckpt = 0
    BY <1>3 DEF Checkpointed, Value
  <2>2. PICK b \in Nat : b <= T /\ dk.base = H[b]
    BY DEF Data, Stale
  <2>3. Stale(dn, H, T)
    BY <2>1, <2>2 DEF Stale
  <2>4. Memory(d, dn, H, T, lim) /\ Legacy(n, dn, la, S, H, T)
    BY <1>3 DEF Memory, Legacy
  <2> QED BY <1>1, <2>3, <2>4 DEF Data
<1> QED BY <1>2, <1>3

LEMMA CheckpointSecondaryData ==
    ASSUME Orderly, NEW H \in [Nat -> Nat], NEW T \in Nat, Consistent(H, T), NEW n \in Nodes,
           NEW m, Reads(n, m), CheckpointSecondary(n, m), StepSame
    PROVE  Consistent(H, T)'
<1> DEFINE d == node[n]
           dk == disk[n]
           q == inbox[n]
           dn == Checkpointed(d, dk)
           S == Recovered(alive)
           lim == Limit(n, T)
<1>1. /\ m.com = "CKPT" /\ ~d.killed /\ EndMessage(n, d, dn) /\ inbox' = Unread(n) /\ d.conn = "idle"
      /\ alive' = alive /\ last' = last /\ sent' = sent /\ acked' = acked
  BY DEF CheckpointSecondary, Quietly, Reads
<1>2. /\ Data(n, d, q, dk, last, S, H, T, lim) /\ Proc(d, sent) /\ dk \in DiskType
      /\ lim \in Nat /\ T <= lim /\ lim <= T + 1 /\ Rising(H, lim) /\ d.seq \in Nat
  BY HistoryFacts
<1>3. Data(n, d, Tail(q), dk, last, S, H, T, lim) /\ inbox'[n] = Tail(q)
  BY <1>1, DataUnread
<1>4. /\ Popped(q, Tail(q), m) /\ d.main # "down" /\ (d.main = "run" => d.stage = "no")
      /\ d.main \in {"down", "wait", "join", "run"} /\ 1 \in DOMAIN q /\ q[1] = m
  <2>1. /\ Queue(q, sent) /\ sent \in Nat /\ q # <<>> /\ m = Head(q) /\ 1 \in DOMAIN q /\ q[1] = m
        /\ d.main # "down" /\ (d.main = "run" => d.stage = "no") /\ Proc(d, sent)
    BY ReadHead
  <2>2. Popped(q, Tail(q), m)
    BY ONLY <2>1, PoppedIs
  <2>3. d.main \in {"down", "wait", "join", "run"}
    BY ONLY <2>1, FieldTypes
  <2> QED BY <2>1, <2>2, <2>3
<1>5. Place(n, d, q, dk, alive, last, S) /\ Shape(n, d, q, Member(n))
  BY OrderlyFacts, BasicFacts
<1> HIDE DEF d, dk, q, S, lim
<1>6. \/ d.main = "run" /\ d.stage = "no" /\ d.seq <= T
      \/ d.main # "run" /\ d.seq = 0 /\ d.update = None /\ ~Left(n, last, S)
  <2>1. CASE d.main = "run"
    <3>1. Backlog(n, d, q, S, H, T, lim)
      BY <1>2 DEF Data
    <3>2. d.seq <= T
      BY <1>1, <1>2, <1>4, <2>1, <3>1, BacklogCheckpoint
    <3> QED BY <1>4, <2>1, <3>2
  <2>2. CASE d.main # "run"
    <3>1. d.main \in {"wait", "join"}
      BY <1>4, <2>2
    <3>2. d.seq = 0 /\ d.update = None
      BY <1>5, <3>1 DEF Place, Waits
    <3>3. ~Left(n, last, S)
      <4> SUFFICES ASSUME Left(n, last, S) PROVE FALSE
        OBVIOUS
      <4>1. d.stage = "no" /\ (d.main = "wait" => \A i \in DOMAIN q : Names(q[i], n))
        BY <1>5 DEF Place, Leaver
      <4>2. d.main = "wait"
        BY <1>5, <3>1, <4>1 DEF Shape, Stages
      <4> QED BY <1>1, <1>4, <4>1, <4>2 DEF Names
    <3> QED BY <2>2, <3>2, <3>3
  <2> QED BY <2>1, <2>2
<1>7. Data(n, d, Tail(q), dn, last, S, H, T, lim)
  BY <1>2, <1>3, <1>6, DataCheckpointed
<1> HIDE DEF dn
<1> USE DEF d, S, lim
<1> QED BY <1>1, <1>2, <1>3, <1>7, EndingData DEF StepSame

LEMMA CheckpointData ==
    ASSUME Orderly, NEW H \in [Nat -> Nat], NEW T \in Nat, Consistent(H, T), NEW n \in Nodes,
           Checkpoint(n), StepSame
    PROVE  Consistent(H, T)'
<1> DEFINE d == node[n]
           dk == disk[n]
           q == inbox[n]
           dn == Checkpointed(d, dk)
           e == [d EXCEPT !.conn = "idle"]
           S == Recovered(alive)
           lim == Limit(n, T)
<1>1. /\ d.conn = "ckpt" /\ node' = [node EXCEPT ![n].conn = "idle"]
      /\ disk' = [disk EXCEPT ![n] = Checkpointed(d, @)] /\ inbox' = inbox
      /\ alive' = alive /\ last' = last /\ sent' = sent /\ acked' = acked
  BY DEF Checkpoint
<1>2. d \in Process /\ DOMAIN node = Nodes /\ DOMAIN disk = Nodes
  BY BasicFacts DEF Orderly, Proc
<1>3. /\ node'[n] = e /\ disk'[n] = dn /\ inbox'[n] = q
      /\ \A x \in Nodes : x # n => node'[x] = node[x] /\ inbox'[x] = inbox[x] /\ disk'[x] = disk[x]
  BY <1>1, <1>2
<1>4. IsFirst(n, alive) /\ d.main = "run" /\ d.stage = "no"
  BY <1>1, OrderlyFacts DEF Place, Roles
<1>5. /\ Data(n, d, q, dk, last, S, H, T, lim) /\ Proc(d, sent) /\ dk \in DiskType /\ lim = T
  BY <1>4, HistoryFacts
<1> HIDE DEF d
<1>6. /\ e.main = d.main /\ e.stage = d.stage /\ e.killed = d.killed /\ SameCache(e, d)
      /\ e.link = d.link /\ e.conn = "idle"
  BY <1>2 DEF Process, SameCache
<1> HIDE DEF e, dk, q, S, lim
<1>7. d.seq <= T
  BY <1>4, <1>5 DEF Data, Memory
<1>8. Data(n, d, q, dn, last, S, H, T, lim)
  BY <1>4, <1>5, <1>7, DataCheckpointed
<1> HIDE DEF dn
<1>9. Data(n, e, q, dn, last, S, H, T, lim)
  BY <1>6, <1>8, DataFrame
<1>10. Data(n, node'[n], inbox'[n], disk'[n], last, S, H, T, lim)
  BY <1>3, <1>9
<1> USE DEF S, lim, d
<1>11. Quiet(H, T)
  BY <1>1, <1>3, <1>6 DEF Quiet, SameWork
<1>12. \A x \in Nodes : x # n =>
              /\ node'[x].main = node[x].main /\ node'[x].stage = node[x].stage
              /\ node'[x].killed = node[x].killed /\ SameCache(node'[x], node[x])
              /\ node'[x].link = node[x].link \/ Copy(node'[x], H, T)
              /\ inbox'[x] = inbox[x] /\ disk'[x] = disk[x]
  BY <1>3 DEF SameCache
<1> QED BY <1>10, <1>11, <1>12, QuietLocal DEF StepSame

------------------------------------------------------------------------------
(* A node that comes back.                                                 *)

\* A node that comes back with the end of the history.
Returns(e, dk, H, T) ==
    /\ Contents(dk, H, T) /\ Top(dk.log) = T /\ dk \in DiskType
    /\ e.seq = T /\ e.update = LastOf(dk.log)

LEMMA DataReturns ==
    ASSUME NEW dk, NEW e, NEW H, NEW T \in Nat, Returns(e, dk, H, T), e.stage = "no",
           NEW q, ~Holds(q, "WRITE"), NEW n, NEW Z, n \in Z, NEW la
    PROVE  Data(n, e, q, dk, la, Z, H, T, T)
<1>1. Contents(dk, H, T) /\ Top(dk.log) = T /\ dk \in DiskType /\ e.seq = T /\ e.update = LastOf(dk.log)
  BY DEF Returns
<1>2. Memory(e, dk, H, T, T)
  <2>1. Top(dk.log) <= T /\ e.seq = Top(dk.log)
    BY <1>1
  <2> QED BY ONLY <1>1, <2>1, MemoryReplayed
<1>3. \A i \in DOMAIN q : q[i].com # "WRITE"
  BY DEF Holds
<1>4. Owes(q, H, T, T)
  BY <1>3 DEF Owes
<1>5. Backlog(n, e, q, Z, H, T, T)
  <2>1. e.seq <= T /\ T <= T /\ ~(T > T) /\ Owes(q, H, e.seq, T)
    BY <1>1, <1>4
  <2> QED BY <2>1 DEF Backlog
<1>6. Stale(dk, H, T) /\ Copy(e, H, T) /\ Legacy(n, dk, la, Z, H, T)
  BY <1>1, ContentsStale DEF Copy, Legacy, Left
<1> QED BY <1>2, <1>5, <1>6 DEF Data

\* InitCacheForPrimary of the last member, or of the first ever.
LEMMA InitialReturns ==
    ASSUME NEW w, NEW d, Proc(d, w), NEW dk \in DiskType, NEW H, NEW T \in Nat,
           \/ Contents(dk, H, T) /\ Top(dk.log) = T
           \/ dk = BlankDisk /\ d.seq = 0 /\ d.update = None /\ T = 0 /\ H[0] = 0
    PROVE  Returns(Initial(d, dk), WithLog(d, dk), H, T)
<1>1. WithLog(d, dk) \in DiskType /\ dk.log \in LogType
  BY InitialIs DEF DiskType
<1>2. CASE Contents(dk, H, T) /\ Top(dk.log) = T
  <2>1. dk.log.state = "ok"
    BY <1>2 DEF Contents, Replays, Replayable
  <2>2. Initial(d, dk) = Replayed(d, dk.log) /\ WithLog(d, dk) = dk
    BY <2>1 DEF Initial, WithLog
  <2>3. /\ Replayed(d, dk.log).seq = Top(dk.log)
        /\ Replayed(d, dk.log).update = LastOf(dk.log)
    BY <1>1, ReplayedIs DEF Top, LastOf
  <2> QED BY <1>2, <2>2, <2>3 DEF Returns
<1>3. CASE dk = BlankDisk /\ d.seq = 0 /\ d.update = None /\ T = 0 /\ H[0] = 0
  <2>1. dk.log.state = "absent" /\ dk.base = 0
    BY <1>3 DEF BlankDisk, BlankLog, Empty
  <2>2. Initial(d, dk) = d
    BY <2>1 DEF Initial
  <2> DEFINE g == WithLog(d, dk)
  <2>3. g.base = 0 /\ g.log.state = "ok" /\ g.log.ckpt = 0 /\ g.log.ents = <<>>
    BY <1>3, <2>1 DEF WithLog, DiskType
  <2> HIDE DEF g
  <2>4. Top(g.log) = 0
    BY <2>3 DEF Top
  <2>5. Replays(g.log, H)
    BY <2>3 DEF Replays, Replayable
  <2>6. Contents(g, H, T)
    <3>1. g.log.ckpt <= 0 /\ 0 <= T /\ 0 <= Top(g.log) /\ g.base = H[0]
      BY <1>3, <2>3, <2>4
    <3> QED BY <2>5, <3>1 DEF Contents
  <2>7. Returns(d, g, H, T)
    BY <1>1, <1>3, <2>3, <2>4, <2>6 DEF Returns, LastOf, g
  <2> QED BY <2>2, <2>7 DEF g
<1> QED BY <1>2, <1>3

\* A node that does not run with a state, or waits for one.
LEMMA DataIdle ==
    ASSUME NEW n, NEW e, NEW q, NEW dk, NEW la, NEW S, NEW H, NEW T, NEW lim,
           e.main # "run" \/ e.stage # "no", e.stage \in {"no", "ask"} \/ e.link = None,
           Stale(dk, H, T), Legacy(n, dk, la, S, H, T)
    PROVE  Data(n, e, q, dk, la, S, H, T, lim)
BY DEF Data, Memory, Backlog, Copy

\* Nobody forwards while nobody has recovered, or somebody has not.
LEMMA NoForwarder ==
    ASSUME Orderly, \/ Recovered(alive) = {}
                    \/ \E n \in Nodes : n \in Range(alive) /\ n \notin Recovered(alive)
                    \/ \E n \in Nodes : IsFirst(n, alive) /\ node[n].conn # "forward"
                    \/ \E n \in Nodes : node[n].stage # "no"
    PROVE  \A p \in Nodes : node[p].conn # "forward"
<1> SUFFICES ASSUME NEW p \in Nodes, node[p].conn = "forward" PROVE FALSE
  OBVIOUS
<1>1. /\ p \in Recovered(alive) /\ Range(alive) \subseteq Recovered(alive)
      /\ \A n \in Nodes : IsFirst(n, alive) => n = p
  BY OneForwards
<1>2. ASSUME NEW n \in Nodes, node[n].stage # "no" PROVE FALSE
  <2>1. n \in Range(alive)
    BY <1>2, BasicFacts DEF Orderly, Shape, Called, Member
  <2>2. In(n, node[n], inbox[n], alive)
    BY <1>1, <2>1, RecoveredIs, BasicScalars DEF Orderly
  <2> QED BY <1>2, <2>2 DEF In
<1> QED BY <1>1, <1>2

RecoversStep(n) == Orderly' /\ Recovered(alive)' = Recovered(alive) \cup {n}

LEMMA RestartedPrimaryData ==
    ASSUME Orderly, NEW H \in [Nat -> Nat], NEW T \in Nat, Consistent(H, T), NEW n \in Nodes,
           NEW m, Reads(n, m), RestartedPrimary(n, m), RecoversStep(n), Left(n, last, Recovered(alive))
    PROVE  Consistent(H, T)'
<1> DEFINE d == node[n]
           f == Revived(d)
           dk == disk[n]
           nd == Initial(f, dk)
           dn == WithLog(f, dk)
           r == Tail(inbox[n])
           S == Recovered(alive)
           Z == S \cup {n}
<1>1. Proc(d, sent) /\ dk \in DiskType /\ DOMAIN inbox = Nodes
  BY BasicFacts DEF Orderly
<1>2. Proc(f, sent) /\ SameSync(f, d)
  BY <1>1, RevivedIs
<1>3. /\ m.com = "RESTART" /\ EndMessage(n, nd, dn) /\ inbox' = Unread(n) /\ d.conn = "idle"
      /\ alive' = alive /\ last' = last /\ sent' = sent /\ acked' = acked
  BY DEF RestartedPrimary, Revived, Quietly, Reads
<1>4. Proc(nd, sent) /\ SameSync(nd, f)
  BY <1>1, <1>2, InitialIs
<1>5. /\ Popped(inbox[n], r, m) /\ n \in Range(alive) /\ d.stage = "no" /\ ~Holds(inbox[n], "WRITE")
  BY <1>3, RestartFacts
<1>6. ~Holds(r, "WRITE") /\ inbox'[n] = r
  BY <1>1, <1>3, <1>5 DEF Popped, Unread
<1>7. Limit(n, T) = T
  BY NoForwarder, HistoryFacts DEF Left
<1>8. Contents(dk, H, T) /\ Top(dk.log) = T
  BY HistoryFacts DEF Data, Legacy
<1> HIDE DEF f, r
<1>9. Returns(nd, dn, H, T)
  BY <1>1, <1>2, <1>8, InitialReturns
<1>10. nd.stage = "no"
  BY <1>2, <1>4, <1>5 DEF SameSync
<1>11. n \in Z /\ (Z = Recovered(alive) \/ (n \in Range(alive) /\ Z = Recovered(alive) \cup {n}))
  BY <1>5
<1>12. Recovered(alive)' = Z
  BY DEF RecoversStep
<1> HIDE DEF Z, nd, dn
<1>13. Data(n, nd, r, dn, last, Z, H, T, Limit(n, T))
  BY <1>6, <1>7, <1>9, <1>10, <1>11, DataReturns
<1>14. d.conn # "forward"
  BY <1>3
<1> QED BY <1>3, <1>4, <1>6, <1>11, <1>12, <1>13, <1>14, EndingData

LEMMA RunsPrimaryData ==
    ASSUME Orderly, NEW H \in [Nat -> Nat], NEW T \in Nat, Consistent(H, T), NEW n \in Nodes,
           RunsPrimary(n), RecoversStep(n),
           Virgin(last, Recovered(alive)) \/ Left(n, last, Recovered(alive))
    PROVE  Consistent(H, T)'
<1> DEFINE d == node[n]
           dk == disk[n]
           f == Initial(d, dk)
           e == [f EXCEPT !.main = "run"]
           dn == WithLog(d, dk)
           q == inbox[n]
           S == Recovered(alive)
           Z == S \cup {n}
<1>1. /\ Proc(d, sent) /\ dk \in DiskType /\ DOMAIN node = Nodes /\ DOMAIN disk = Nodes
      /\ Shape(n, d, q, Member(n)) /\ Basic
  BY BasicFacts DEF Orderly
<1>2. /\ d.main = "wait" /\ node' = [node EXCEPT ![n] = e] /\ disk' = [disk EXCEPT ![n] = WithLog(d, @)]
      /\ inbox' = inbox /\ alive' = alive /\ last' = last /\ sent' = sent /\ acked' = acked
  BY DEF RunsPrimary
<1>3. Proc(f, sent) /\ SameSync(f, d) /\ SameWork(f, d) /\ f \in Process
  <2>1. Proc(f, sent) /\ SameSync(f, d) /\ SameWork(f, d)
    BY ONLY <1>1, InitialIs
  <2> QED BY <2>1 DEF Proc
<1>4. /\ node'[n] = e /\ disk'[n] = dn /\ inbox'[n] = q
      /\ \A x \in Nodes : x # n => node'[x] = node[x] /\ inbox'[x] = inbox[x] /\ disk'[x] = disk[x]
  BY <1>1, <1>2
<1> HIDE DEF f
<1>5. e.stage = f.stage /\ e.conn = f.conn /\ SameCache(e, f)
  BY <1>3 DEF Process, SameCache
<1>6. d.stage = "no" /\ n \in Range(alive)
  BY <1>1, <1>2 DEF Shape, Stages, Called, Member
<1>7. /\ Place(n, d, q, dk, alive, last, S) /\ History(H, T)
      /\ Legacy(n, dk, last, S, H, T)
  BY OrderlyFacts, HistoryFacts DEF Consistent, Data
<1>8. d.conn = "idle" /\ d.seq = 0 /\ d.update = None
  BY <1>2, <1>7 DEF Place, Waits
<1>9. ~Holds(q, "WRITE")
  BY <1>7 DEF Place, Leaver, Pristine
<1>10. \/ Contents(dk, H, T) /\ Top(dk.log) = T
       \/ dk = BlankDisk /\ d.seq = 0 /\ d.update = None /\ T = 0 /\ H[0] = 0
  <2>1. CASE Virgin(last, S)
    BY <1>7, <1>8, <2>1 DEF Place, Pristine, History
  <2>2. CASE Left(n, last, S)
    BY <1>7, <2>2 DEF Legacy
  <2> QED BY <2>1, <2>2
<1>11. Returns(f, dn, H, T)
  BY <1>1, <1>10, InitialReturns DEF f
<1>12. Limit(n, T) = T
  BY NoForwarder, HistoryFacts DEF Left, Virgin
<1>13. Returns(e, dn, H, T) /\ e.stage = "no" /\ e.conn = "idle"
  BY <1>3, <1>5, <1>6, <1>8, <1>11 DEF Returns, SameCache, SameSync, SameWork
<1> HIDE DEF e, dn
<1>14. n \in Z /\ (Z = Recovered(alive) \/ (n \in Range(alive) /\ Z = Recovered(alive) \cup {n}))
  BY <1>6
<1>15. Recovered(alive)' = Z
  BY DEF RecoversStep
<1> HIDE DEF Z
<1>16. Data(n, e, q, dn, last, Z, H, T, Limit(n, T))
  BY <1>9, <1>12, <1>13, <1>14, DataReturns
<1>17. Data(n, node'[n], inbox'[n], disk'[n], last, Z, H, T, Limit(n, T))
  BY <1>4, <1>16
<1>18. Quiet(H, T)
  BY <1>2, <1>4, <1>8, <1>13 DEF Quiet, SameWork
<1>19. \A x \in Nodes : x # n =>
              /\ node'[x].main = node[x].main /\ node'[x].stage = node[x].stage
              /\ node'[x].killed = node[x].killed /\ SameCache(node'[x], node[x])
              /\ node'[x].link = node[x].link \/ Copy(node'[x], H, T)
              /\ inbox'[x] = inbox[x] /\ disk'[x] = disk[x]
  BY <1>4 DEF SameCache
<1> QED BY <1>14, <1>15, <1>17, <1>18, <1>19, QuietLocal

\* n has nothing that depends on the history but its disk.
LEMMA IdleLocal ==
    ASSUME Orderly, NEW H \in [Nat -> Nat], NEW T \in Nat, Consistent(H, T), NEW n \in Nodes, StepSame,
           node[n].conn # "forward", node'[n].conn # "forward",
           alive' = alive, last' = last, sent' = sent, acked' = acked,
           \A x \in Nodes : x # n => node'[x] = node[x] /\ inbox'[x] = inbox[x] /\ disk'[x] = disk[x],
           node'[n].main # "run" \/ node'[n].stage # "no", node'[n].stage \in {"no", "ask"} \/ node'[n].link = None,
           disk'[n] = disk[n] \/ (Stale(disk'[n], H, T) /\ ~Left(n, last, Recovered(alive)))
    PROVE  Consistent(H, T)'
<1> DEFINE S == Recovered(alive)
           lim == Limit(n, T)
<1>1. Stale(disk[n], H, T) /\ Legacy(n, disk[n], last, S, H, T)
  BY HistoryFacts DEF Data
<1>2. Stale(disk'[n], H, T) /\ Legacy(n, disk'[n], last, S, H, T)
  BY <1>1 DEF Legacy
<1> HIDE DEF S, lim
<1>3. Data(n, node'[n], inbox'[n], disk'[n], last, S, H, T, lim)
  BY <1>2, DataIdle
<1>4. Quiet(H, T)
  BY DEF Quiet, SameWork
<1>5. \A x \in Nodes : x # n =>
              /\ node'[x].main = node[x].main /\ node'[x].stage = node[x].stage
              /\ node'[x].killed = node[x].killed /\ SameCache(node'[x], node[x])
              /\ node'[x].link = node[x].link \/ Copy(node'[x], H, T)
              /\ inbox'[x] = inbox[x] /\ disk'[x] = disk[x]
  BY DEF SameCache
<1> USE DEF S, lim
<1> QED BY <1>3, <1>4, <1>5, QuietLocal DEF StepSame

LEMMA RunsSecondaryData ==
    ASSUME Orderly, NEW H \in [Nat -> Nat], NEW T \in Nat, Consistent(H, T), NEW n \in Nodes,
           RunsSecondary(n), StepSame
    PROVE  Consistent(H, T)'
<1> DEFINE d == node[n]
           p == Head(d.view)
           e == [d EXCEPT !.main = "join", !.stage = "ask", !.peer = p]
<1>1. /\ d.main = "wait" /\ node' = [node EXCEPT ![n].main = "join", ![n].stage = "ask", ![n].peer = p]
      /\ alive' = alive /\ last' = last /\ inbox' = inbox /\ disk' = disk /\ sent' = sent /\ acked' = acked
  BY DEF RunsSecondary
<1>2. /\ Proc(d, sent) /\ DOMAIN node = Nodes /\ d \in Process
  BY BasicFacts DEF Orderly, Proc
<1>3. node'[n] = e /\ \A x \in Nodes : x # n => node'[x] = node[x]
  BY <1>1, <1>2
<1>4. d.conn = "idle"
  BY <1>1, OrderlyFacts DEF Place, Waits
<1> HIDE DEF d, p
<1>5. e.main = "join" /\ e.stage = "ask" /\ e.conn = d.conn
  BY <1>2 DEF Process
<1> HIDE DEF e
<1>6. node'[n].main # "run" /\ node'[n].stage = "ask" /\ node'[n].conn = "idle"
  BY <1>3, <1>4, <1>5
<1> USE DEF d
<1> QED BY <1>1, <1>3, <1>4, <1>6, IdleLocal

LEMMA RestartedSecondaryData ==
    ASSUME Orderly, NEW H \in [Nat -> Nat], NEW T \in Nat, Consistent(H, T), NEW n \in Nodes,
           NEW m, Reads(n, m), RestartedSecondary(n, m), StepSame
    PROVE  Consistent(H, T)'
<1> DEFINE d == node[n]
           f == Revived(d)
           p == Head(f.view)
           e == [f EXCEPT !.conn = "join", !.stage = "ask", !.peer = p]
<1>1. /\ Proc(d, sent) /\ DOMAIN node = Nodes /\ DOMAIN inbox = Nodes
  BY BasicFacts DEF Orderly
<1>2. Proc(f, sent) /\ f \in Process
  BY <1>1, RevivedIs DEF Proc
<1>3. /\ node' = [node EXCEPT ![n] = e] /\ d.conn = "idle"
      /\ alive' = alive /\ last' = last /\ inbox' = Unread(n) /\ disk' = disk /\ sent' = sent /\ acked' = acked
  BY DEF RestartedSecondary, Revived, Quietly, Reads
<1>4. /\ node'[n] = e
      /\ \A x \in Nodes : x # n => node'[x] = node[x] /\ inbox'[x] = inbox[x]
  BY <1>1, <1>3 DEF Unread
<1> HIDE DEF f, p
<1>5. e.stage = "ask" /\ e.conn = "join"
  BY <1>2 DEF Process
<1> HIDE DEF e
<1>6. node'[n].stage = "ask" /\ node'[n].conn = "join"
  BY <1>4, <1>5
<1> QED BY <1>3, <1>4, <1>6, IdleLocal

LEMMA ForgetsData ==
    ASSUME Orderly, NEW H \in [Nat -> Nat], NEW T \in Nat, Consistent(H, T), NEW n \in Nodes,
           Forgets(n), StepSame
    PROVE  Consistent(H, T)'
<1> DEFINE d == node[n]
           e == [d EXCEPT !.stage = "full", !.link = None, !.seq = 0, !.update = None]
<1>1. /\ d.stage = "log"
      /\ node' = [node EXCEPT ![n].stage = "full", ![n].link = None, ![n].seq = 0, ![n].update = None]
      /\ disk' = [disk EXCEPT ![n] = BlankDisk]
      /\ alive' = alive /\ last' = last /\ inbox' = inbox /\ sent' = sent /\ acked' = acked
  BY DEF Forgets
<1>2. /\ Proc(d, sent) /\ DOMAIN node = Nodes /\ DOMAIN disk = Nodes /\ d \in Process
  BY BasicFacts DEF Orderly, Proc
<1>3. /\ node'[n] = e /\ disk'[n] = BlankDisk
      /\ \A x \in Nodes : x # n => node'[x] = node[x] /\ disk'[x] = disk[x]
  BY <1>1, <1>2
<1>4. ~Left(n, last, Recovered(alive)) /\ d.conn # "forward"
  BY <1>1, OrderlyFacts DEF Place, Leaver, Roles
<1> HIDE DEF d
<1>5. e.stage = "full" /\ e.link = None /\ e.conn = d.conn
  BY <1>2 DEF Process
<1> HIDE DEF e
<1>6. node'[n].stage = "full" /\ node'[n].link = None /\ node'[n].conn # "forward"
  BY <1>3, <1>4, <1>5
<1>7. H[0] = 0
  BY DEF Consistent, History
<1>8. Stale(BlankDisk, H, T)
  <2>1. BlankDisk.base = 0 /\ BlankDisk.log.state = "absent" /\ BlankDisk.log.ckpt = 0
    BY DEF BlankDisk, BlankLog, Empty
  <2>2. 0 <= T
    OBVIOUS
  <2> QED BY <1>7, <2>1, <2>2 DEF Stale
<1> USE DEF d
<1>9. /\ node[n].conn # "forward" /\ node'[n].conn # "forward"
      /\ \A x \in Nodes : x # n => node'[x] = node[x] /\ inbox'[x] = inbox[x] /\ disk'[x] = disk[x]
      /\ node'[n].main # "run" \/ node'[n].stage # "no"
      /\ node'[n].stage \in {"no", "ask"} \/ node'[n].link = None
      /\ disk'[n] = disk[n] \/ (Stale(disk'[n], H, T) /\ ~Left(n, last, Recovered(alive)))
  BY <1>1, <1>3, <1>4, <1>6, <1>8
<1> QED BY <1>1, <1>9, IdleLocal

\* The primary sends its log.
LEMMA SyncStartsData ==
    ASSUME Orderly, NEW H \in [Nat -> Nat], NEW T \in Nat, Consistent(H, T), NEW n \in Nodes,
           NEW m, Reads(n, m), SyncStarts(n, m), StepSame
    PROVE  Consistent(H, T)'
<1> DEFINE s == m.from
           d == node[n]
           e == [d EXCEPT !.conn = "serve", !.serving = s]
           ds == node[s]
           es == [ds EXCEPT !.link = [log |-> disk[n].log]]
           S == Recovered(alive)
<1>1. /\ m.com = "SYNC" /\ d.primary /\ disk[n].log.state # "absent" /\ inbox' = Unread(n) /\ d.conn = "idle"
      /\ alive' = alive /\ last' = last /\ disk' = disk /\ sent' = sent /\ acked' = acked
  BY DEF SyncStarts, Quietly, Reads
<1>2. SyncLink(n, s) /\ DOMAIN inbox = Nodes
  BY SyncStartsIs, BasicFacts DEF Orderly
<1>3. /\ s \in Nodes /\ s # n /\ ds.stage = "log" /\ ds.peer = n
      /\ node'[n] = e /\ node'[s] = es /\ \A x \in Nodes : x # n /\ x # s => node'[x] = node[x]
  BY <1>2 DEF SyncLink
<1>4. d \in Process /\ ds \in Process
  BY <1>3, BasicFacts DEF Orderly, Proc
<1>5. IsFirst(n, alive) /\ n \in S
  BY <1>1, <1>3, ServerIs
<1>6. Contents(disk[n], H, T) /\ Top(disk[n].log) = T
  BY <1>1, <1>5, FirstHolds
<1>7. /\ inbox'[n] = Tail(inbox[n]) /\ \A x \in Nodes : x # n => inbox'[x] = inbox[x]
      /\ Data(n, d, Tail(inbox[n]), disk[n], last, S, H, T, Limit(n, T))
  BY <1>1, <1>2, DataUnread DEF Unread
<1>8. ds.conn # "forward"
  BY <1>3, OrderlyFacts DEF Place, Roles
<1> HIDE DEF s, d, ds, S
<1>9. /\ e.main = d.main /\ e.stage = d.stage /\ e.killed = d.killed /\ SameCache(e, d) /\ e.link = d.link
      /\ e.conn = "serve"
  BY <1>4 DEF Process, SameCache
<1>10. /\ es.main = ds.main /\ es.stage = ds.stage /\ es.killed = ds.killed /\ SameCache(es, ds)
       /\ es.link = [log |-> disk[n].log] /\ es.conn = ds.conn
  BY <1>4 DEF Process, SameCache
<1> HIDE DEF e, es
<1>11. Copy(es, H, T)
  BY <1>3, <1>6, <1>10 DEF Copy, Contents
<1>12. Data(n, e, Tail(inbox[n]), disk[n], last, S, H, T, Limit(n, T))
  BY <1>7, <1>9, DataFrame
<1>13. Data(n, node'[n], inbox'[n], disk'[n], last, S, H, T, Limit(n, T))
  BY <1>1, <1>3, <1>7, <1>12
<1>14. Quiet(H, T)
  <2> SUFFICES ASSUME NEW p \in Nodes
               PROVE  /\ (node'[p].conn = "forward") <=> (node[p].conn = "forward")
                      /\ node[p].conn = "forward" => SameWork(node'[p], node[p])
    BY <1>1 DEF Quiet
  <2>1. CASE p = n
    BY <1>1, <1>3, <1>9, <2>1 DEF d
  <2>2. CASE p = s
    BY <1>3, <1>8, <1>10, <2>2 DEF ds
  <2>3. CASE p # n /\ p # s
    BY <1>3, <2>3 DEF SameWork
  <2> QED BY <2>1, <2>2, <2>3
<1>15. \A x \in Nodes : x # n =>
              /\ node'[x].main = node[x].main /\ node'[x].stage = node[x].stage
              /\ node'[x].killed = node[x].killed /\ SameCache(node'[x], node[x])
              /\ node'[x].link = node[x].link \/ Copy(node'[x], H, T)
              /\ inbox'[x] = inbox[x] /\ disk'[x] = disk[x]
  BY <1>1, <1>3, <1>7, <1>10, <1>11 DEF SameCache, ds
<1> USE DEF S
<1> QED BY <1>13, <1>14, <1>15, QuietLocal DEF StepSame

\* The primary sends its files.
LEMMA SendFilesData ==
    ASSUME Orderly, NEW H \in [Nat -> Nat], NEW T \in Nat, Consistent(H, T), NEW n \in Nodes,
           SendFiles(n), StepSame
    PROVE  Consistent(H, T)'
<1> DEFINE s == node[n].serving
           d == node[s]
           e == [d EXCEPT !.link = disk[n]]
           S == Recovered(alive)
<1>1. /\ node[n].conn = "serve" /\ s # None /\ d.stage = "full" /\ node' = [node EXCEPT ![s].link = disk[n]]
      /\ alive' = alive /\ last' = last /\ disk' = disk /\ inbox' = inbox /\ sent' = sent /\ acked' = acked
  BY DEF SendFiles
<1>2. s \in Nodes /\ DOMAIN node = Nodes
  BY <1>1, BasicFacts, FieldTypes DEF Orderly
<1>3. node'[s] = e /\ \A x \in Nodes : x # s => node'[x] = node[x]
  BY <1>1, <1>2
<1>4. d \in Process
  BY <1>2, BasicFacts DEF Orderly, Proc
<1>5. IsFirst(n, alive) /\ n \in S /\ node[n].primary /\ d.conn # "forward"
  BY <1>1, <1>2, OrderlyFacts DEF Place, Roles
<1>6. Contents(disk[n], H, T) /\ Top(disk[n].log) = T
  BY <1>5, FirstHolds
<1>7. Data(s, d, inbox[s], disk[s], last, S, H, T, Limit(s, T))
  BY <1>2, HistoryFacts
<1> HIDE DEF s, d, S
<1>8. /\ e.main = d.main /\ e.stage = d.stage /\ e.killed = d.killed /\ SameCache(e, d)
      /\ e.link = disk[n] /\ e.conn = d.conn
  BY <1>4 DEF Process, SameCache
<1> HIDE DEF e
<1>9. Copy(e, H, T)
  BY <1>1, <1>6, <1>8 DEF Copy
<1>10. Data(s, e, inbox[s], disk[s], last, S, H, T, Limit(s, T))
  BY <1>7, <1>8, <1>9, DataFrame
<1>11. Data(s, node'[s], inbox'[s], disk'[s], last, S, H, T, Limit(s, T))
  BY <1>1, <1>3, <1>10
<1>12. Quiet(H, T)
  <2> SUFFICES ASSUME NEW p \in Nodes
               PROVE  /\ (node'[p].conn = "forward") <=> (node[p].conn = "forward")
                      /\ node[p].conn = "forward" => SameWork(node'[p], node[p])
    BY <1>1 DEF Quiet
  <2>1. CASE p = s
    BY <1>3, <1>5, <1>8, <2>1 DEF d
  <2>2. CASE p # s
    BY <1>3, <2>2 DEF SameWork
  <2> QED BY <2>1, <2>2
<1>13. \A x \in Nodes : x # s =>
              /\ node'[x].main = node[x].main /\ node'[x].stage = node[x].stage
              /\ node'[x].killed = node[x].killed /\ SameCache(node'[x], node[x])
              /\ node'[x].link = node[x].link \/ Copy(node'[x], H, T)
              /\ inbox'[x] = inbox[x] /\ disk'[x] = disk[x]
  BY <1>1, <1>3 DEF SameCache
<1> USE DEF S
<1> QED BY <1>2, <1>11, <1>12, <1>13, QuietLocal DEF StepSame

\* What a node has copied is the end of the history.
LEMMA JoinedWellData ==
    ASSUME Orderly, NEW H \in [Nat -> Nat], NEW T \in Nat, Consistent(H, T), NEW n \in Nodes,
           NEW dk \in DiskType, JoinedWell(n, dk), node[n].stage \in {"log", "full"}, RecoversStep(n),
           Contents(dk, H, T), Top(dk.log) = T, sent' = sent, acked' = acked
    PROVE  Consistent(H, T)'
<1> DEFINE d == node[n]
           rd == Ready(d, dk.log)
           e == LetGo(rd, n)
           q == inbox[n]
           Z == Recovered(alive) \cup {n}
<1>1. /\ disk' = [disk EXCEPT ![n] = dk] /\ alive' = alive /\ last' = last /\ inbox' = inbox
  BY DEF JoinedWell
<1>2. /\ node'[n] = e /\ \A x \in Nodes : x # n => node'[x] = LetGo(node[x], n)
  BY JoinedWellIs DEF JoinedEffect, Orderly
<1>3. /\ Proc(d, sent) /\ Shape(n, d, q, Member(n)) /\ dk.log \in LogType /\ DOMAIN disk = Nodes
  BY BasicFacts DEF Orderly, DiskType
<1>4. /\ Proc(rd, sent) /\ rd.stage = "no" /\ rd.conn = (IF d.conn = "join" THEN "idle" ELSE d.conn)
      /\ rd.seq = Top(dk.log) /\ rd.update = LastOf(dk.log)
  <2>1. Proc(d, sent) /\ dk.log \in LogType
    BY <1>3
  <2> HIDE DEF d
  <2>2. /\ Proc(rd, sent) /\ rd.stage = "no" /\ rd.conn = (IF d.conn = "join" THEN "idle" ELSE d.conn)
        /\ rd.seq = dk.log.ckpt + Len(dk.log.ents)
        /\ rd.update = IF dk.log.ents = <<>> THEN None ELSE dk.log.ents[Len(dk.log.ents)].val
    <3> PICK w : w = sent
      OBVIOUS
    <3> PICK l \in LogType : l = dk.log
      BY <2>1
    <3>1. Proc(d, w)
      BY <2>1
    <3>2. /\ Proc(Ready(d, l), w) /\ Ready(d, l).stage = "no"
          /\ Ready(d, l).conn = (IF d.conn = "join" THEN "idle" ELSE d.conn)
          /\ Ready(d, l).seq = l.ckpt + Len(l.ents)
          /\ Ready(d, l).update = IF l.ents = <<>> THEN None ELSE l.ents[Len(l.ents)].val
      BY ONLY <3>1, l \in LogType, ReadyIs
    <3> QED BY <3>2
  <2> HIDE DEF rd
  <2> QED BY <2>2 DEF Top, LastOf
<1> HIDE DEF rd
<1>5. SameSync(e, rd) /\ SameWork(e, rd) /\ SameCache(e, rd)
  BY <1>4, LetGoIs
<1> HIDE DEF e
<1>6. n \in Range(alive)
  BY <1>3 DEF Shape, Called, Member
<1>7. (\A p \in Nodes : node[p].conn # "forward") /\ Limit(n, T) = T
  BY NoForwarder, HistoryFacts
<1>8. ~Holds(q, "WRITE")
  BY OrderlyFacts DEF Place, Writes, Holds
<1>9. e.stage = "no" /\ e.conn # "forward" /\ Returns(e, dk, H, T)
  BY <1>4, <1>5, <1>7 DEF SameSync, SameWork, SameCache, Returns
<1>10. /\ n \in Z /\ (Z = Recovered(alive) \/ (n \in Range(alive) /\ Z = Recovered(alive) \cup {n}))
       /\ Recovered(alive)' = Z
  BY <1>6 DEF RecoversStep
<1> HIDE DEF Z
<1>11. Data(n, e, q, dk, last, Z, H, T, Limit(n, T))
  BY <1>7, <1>8, <1>9, <1>10, DataReturns
<1>12. Data(n, node'[n], inbox'[n], disk'[n], last, Z, H, T, Limit(n, T))
  BY <1>1, <1>2, <1>3, <1>11
<1>13. \A x \in Nodes : x # n =>
         /\ SameRole(node'[x], node[x]) /\ SameCache(node'[x], node[x]) /\ SameWork(node'[x], node[x])
         /\ SameSync(node'[x], node[x])
  <2> SUFFICES ASSUME NEW x \in Nodes, x # n
               PROVE  /\ SameRole(node'[x], node[x]) /\ SameCache(node'[x], node[x])
                      /\ SameWork(node'[x], node[x]) /\ SameSync(node'[x], node[x])
    OBVIOUS
  <2>1. Proc(node[x], sent) /\ node'[x] = LetGo(node[x], n)
    BY <1>2, BasicFacts DEF Orderly
  <2> QED BY <2>1, LetGoIs
<1>14. Quiet(H, T)
  BY <1>1, <1>2, <1>7, <1>9, <1>13 DEF Quiet, SameWork
<1>15. \A x \in Nodes : x # n =>
              /\ node'[x].main = node[x].main /\ node'[x].stage = node[x].stage
              /\ node'[x].killed = node[x].killed /\ SameCache(node'[x], node[x])
              /\ node'[x].link = node[x].link \/ Copy(node'[x], H, T)
              /\ inbox'[x] = inbox[x] /\ disk'[x] = disk[x]
  BY <1>1, <1>3, <1>13 DEF SameRole, SameSync
<1> QED BY <1>10, <1>12, <1>14, <1>15, QuietLocal

\* n sends p a message that is no write.
LEMMA SendData ==
    ASSUME Orderly, NEW H \in [Nat -> Nat], NEW T \in Nat, Consistent(H, T), StepSame, Quiet(H, T), disk' = disk,
           NEW p \in Nodes, NEW m \in Letter, Sensible(m, sent), m.com # "WRITE",
           m.com = "CKPT" => Limit(p, T) = T,
           \A x \in Nodes : inbox'[x] = IF x = p THEN Append(inbox[x], m) ELSE inbox[x],
           \A x \in Nodes : Data(x, node'[x], inbox[x], disk[x], last, Recovered(alive), H, T, Limit(x, T))
    PROVE  Consistent(H, T)'
<1> PICK S : S = Recovered(alive)
  OBVIOUS
<1>1. Data(p, node'[p], inbox'[p], disk[p], last, S, H, T, Limit(p, T))
  <2>1. Grown(inbox[p], Append(inbox[p], m), m)
    BY BasicFacts, AppendFacts DEF Orderly
  <2>2. Data(p, node'[p], inbox[p], disk[p], last, S, H, T, Limit(p, T)) /\ inbox'[p] = Append(inbox[p], m)
    OBVIOUS
  <2>3. Backlog(p, node'[p], inbox[p], S, H, T, Limit(p, T))
    BY <2>2 DEF Data
  <2>4. Backlog(p, node'[p], Append(inbox[p], m), S, H, T, Limit(p, T))
    BY <2>1, <2>3, BacklogGrown
  <2> QED BY <2>2, <2>4 DEF Data
<1>2. \A x \in Nodes : Data(x, node'[x], inbox'[x], disk'[x], last, S, H, T, Limit(x, T))
  BY <1>1
<1>3. Recovered(alive)' = S
  BY DEF StepSame
<1> QED BY <1>2, <1>3, QuietStep

LEMMA AskSyncData ==
    ASSUME Orderly, NEW H \in [Nat -> Nat], NEW T \in Nat, Consistent(H, T), NEW n \in Nodes,
           AskSync(n), StepSame
    PROVE  Consistent(H, T)'
<1> DEFINE d == node[n]
           p == d.peer
           e == [d EXCEPT !.stage = "log"]
           m == Message("SYNC", <<>>, n, None)
           S == Recovered(alive)
<1>1. /\ d.stage = "ask" /\ node' = [node EXCEPT ![n].stage = "log"]
      /\ inbox' = [inbox EXCEPT ![p] = Append(@, m)]
      /\ alive' = alive /\ last' = last /\ disk' = disk /\ sent' = sent /\ acked' = acked
  BY DEF AskSync
<1>2. /\ Proc(d, sent) /\ Shape(n, d, inbox[n], Member(n)) /\ DOMAIN node = Nodes /\ DOMAIN inbox = Nodes
  BY BasicFacts DEF Orderly
<1>3. p \in Nodes /\ d.link = None /\ d \in Process
  BY <1>1, <1>2 DEF Shape, Stages, Proc
<1> HIDE DEF p
<1>4. /\ node'[n] = e /\ \A x \in Nodes : x # n => node'[x] = node[x]
  BY <1>1, <1>2
<1>5. e.stage = "log" /\ e.link = None /\ e.conn = d.conn
  BY <1>3 DEF Process
<1> HIDE DEF e
<1>6. m \in Letter /\ Sensible(m, sent) /\ m.com = "SYNC"
  BY Letters DEF Message
<1> HIDE DEF m
<1>7. \A x \in Nodes : inbox'[x] = IF x = p THEN Append(inbox[x], m) ELSE inbox[x]
  BY <1>1, <1>2
<1>8. \A x \in Nodes : Data(x, node'[x], inbox[x], disk[x], last, S, H, T, Limit(x, T))
  <2>1. \A x \in Nodes : Data(x, node[x], inbox[x], disk[x], last, S, H, T, Limit(x, T))
    BY HistoryFacts
  <2>2. Data(n, e, inbox[n], disk[n], last, S, H, T, Limit(n, T))
    BY <1>5, <2>1, DataIdle DEF Data
  <2> QED BY <1>4, <2>1, <2>2
<1>9. Quiet(H, T)
  <2>1. \A x \in Nodes : node[x].conn # "forward"
    BY <1>1, NoForwarder
  <2> QED BY <1>1, <1>4, <1>5, <2>1 DEF Quiet
<1>10. m.com # "WRITE" /\ (m.com = "CKPT" => Limit(p, T) = T)
  BY <1>6
<1> QED BY <1>1, <1>3, <1>6, <1>7, <1>8, <1>9, <1>10, SendData

\* One member is told to checkpoint.
LEMMA TellsCheckpointData ==
    ASSUME Orderly, NEW H \in [Nat -> Nat], NEW T \in Nat, Consistent(H, T), NEW n \in Nodes,
           ForwardOne(n), node[n].conn = "ckpt", StepSame
    PROVE  Consistent(H, T)'
<1> DEFINE d == node[n]
           to == Head(d.todo)
           m == Copied(n)
           e == [d EXCEPT !.todo = Tail(d.todo)]
           S == Recovered(alive)
<1>1. /\ d.conn = "ckpt" /\ d.todo # <<>>
      /\ inbox' = (IF Up(to) THEN [inbox EXCEPT ![to] = Append(inbox[to], m)] ELSE inbox)
      /\ node' = [node EXCEPT ![n].todo = Tail(@)]
      /\ alive' = alive /\ last' = last /\ disk' = disk /\ sent' = sent /\ acked' = acked
  BY DEF ForwardOne, Copied
<1>2. /\ Basic /\ Proc(d, sent) /\ DOMAIN node = Nodes /\ DOMAIN inbox = Nodes
  BY BasicFacts DEF Orderly
<1>3. d \in Process /\ d.todo \in Seq(Nodes)
  BY <1>2, FieldTypes DEF Proc
<1>4. /\ node'[n] = e /\ \A x \in Nodes : x # n => node'[x] = node[x]
  BY <1>1, <1>2
<1>5. /\ e.main = d.main /\ e.stage = d.stage /\ e.killed = d.killed /\ SameCache(e, d) /\ e.link = d.link
      /\ e.conn = d.conn
  BY <1>3 DEF Process, SameCache
<1> HIDE DEF e
<1>6. to \in Nodes
  BY <1>1, <1>3, ListTail
<1> HIDE DEF to
<1>7. m \in Letter /\ Sensible(m, sent) /\ m.com = "CKPT"
  BY <1>1, <1>2, CopiedIs
<1> HIDE DEF m
<1>8. \A x \in Nodes : node[x].conn # "forward"
  <2>1. IsFirst(n, alive)
    BY <1>1, OrderlyFacts DEF Place, Roles
  <2> QED BY <1>1, <2>1, NoForwarder
<1>9. Limit(to, T) = T
  BY <1>6, <1>8, HistoryFacts
<1>10. Data(n, e, inbox[n], disk[n], last, S, H, T, Limit(n, T))
  <2>1. Data(n, d, inbox[n], disk[n], last, S, H, T, Limit(n, T))
    BY HistoryFacts
  <2> QED BY <1>5, <2>1, DataFrame
<1>11. \A x \in Nodes : Data(x, node'[x], inbox[x], disk[x], last, S, H, T, Limit(x, T))
  BY <1>4, <1>10, HistoryFacts
<1>12. Quiet(H, T)
  BY <1>1, <1>4, <1>5, <1>8 DEF Quiet
<1>13. CASE ~Up(to)
  <2>1. \A x \in Nodes : Data(x, node'[x], inbox'[x], disk'[x], last, S, H, T, Limit(x, T))
    BY <1>1, <1>11, <1>13
  <2> QED BY <1>12, <2>1, QuietStep DEF StepSame
<1>14. CASE Up(to)
  <2>1. \A x \in Nodes : inbox'[x] = IF x = to THEN Append(inbox[x], m) ELSE inbox[x]
    BY <1>1, <1>2, <1>6, <1>14
  <2>2. m.com # "WRITE"
    BY <1>7
  <2> QED BY <1>1, <1>6, <1>7, <1>9, <1>11, <1>12, <2>1, <2>2, SendData
<1> QED BY <1>13, <1>14

------------------------------------------------------------------------------
(* A write, from its client to the last member.                            *)

\* A member gets the write that is being forwarded.
LEMMA DataWritten ==
    ASSUME NEW n, NEW d, d.seq \in Nat, NEW q, NEW dk, NEW la, NEW S, n \in S, NEW H, NEW T \in Nat,
           Data(n, d, q, dk, la, S, H, T, T), NEW r, NEW m, Grown(q, r, m), m.com = "WRITE",
           m.write.val = H[T + 1], m.write.prev \in {None, H[T]}, Rising(H, T + 1)
    PROVE  Data(n, d, r, dk, la, S, H, T, T + 1)
<1>1. Backlog(n, d, r, S, H, T, T + 1)
  <2>1. Backlog(n, d, q, S, H, T, T)
    BY DEF Data
  <2> QED BY <2>1, BacklogWrite
<1>2. Memory(d, dk, H, T, T + 1)
  <2>1. d.seq <= T => d.seq <= T + 1
    OBVIOUS
  <2> QED BY <2>1 DEF Data, Memory
<1> QED BY <1>1, <1>2 DEF Data

LEMMA ForwardsWriteData ==
    ASSUME Orderly, NEW H \in [Nat -> Nat], NEW T \in Nat, Consistent(H, T), NEW n \in Nodes,
           ForwardOne(n), node[n].conn = "forward", StepSame
    PROVE  Consistent(H, T)'
<1> PICK to : to = Head(node[n].todo)
  OBVIOUS
<1> DEFINE d == node[n]
           m == Copied(n)
           e == [d EXCEPT !.todo = Tail(d.todo)]
           S == Recovered(alive)
<1>1. /\ d.conn = "forward" /\ d.todo # <<>>
      /\ inbox' = (IF Up(to) THEN [inbox EXCEPT ![to] = Append(inbox[to], m)] ELSE inbox)
      /\ node' = [node EXCEPT ![n].todo = Tail(@)]
      /\ alive' = alive /\ last' = last /\ disk' = disk /\ sent' = sent /\ acked' = acked
  BY DEF ForwardOne, Copied
<1>2. /\ Basic /\ Proc(d, sent) /\ DOMAIN node = Nodes /\ DOMAIN inbox = Nodes
  BY BasicFacts DEF Orderly
<1>3. d \in Process /\ d.todo \in Seq(Nodes)
  BY <1>2, FieldTypes DEF Proc
<1>4. /\ node'[n] = e /\ \A x \in Nodes : x # n => node'[x] = node[x]
  BY <1>1, <1>2
<1>5. /\ e.main = d.main /\ e.stage = d.stage /\ e.killed = d.killed /\ SameCache(e, d) /\ e.link = d.link
      /\ e.conn = d.conn /\ e.cur = d.cur /\ e.todo = Tail(d.todo)
  BY <1>3 DEF Process, SameCache
<1> HIDE DEF e
<1>6. /\ Distinct(d.todo) /\ n \notin Range(d.todo)
  BY <1>1, OrderlyFacts DEF Place, Forwards
<1>7. /\ to \in Nodes /\ to \in Range(d.todo) /\ to # n
      /\ \A x : x \in Range(Tail(d.todo)) => x \in Range(d.todo)
      /\ to \notin Range(Tail(d.todo)) /\ \A x \in Range(d.todo) : x # to => x \in Range(Tail(d.todo))
  BY <1>1, <1>3, <1>6, ListTail
<1>8. \A p \in Nodes : node[p].conn = "forward" => p = n
  BY <1>1, OneForwards
<1>9. \A p \in Nodes : node'[p].conn = "forward" <=> p = n
  BY <1>1, <1>4, <1>5, <1>8
<1>10. Recovered(alive)' = S
  BY DEF StepSame
<1>11. \A x \in Nodes : Ahead(x) <=> x \in S /\ x # n /\ x \notin Range(d.todo)
  BY <1>1, <1>8 DEF Ahead
<1>12. \A x \in Nodes : Ahead(x)' <=> x \in S /\ x # n /\ x \notin Range(Tail(d.todo))
  BY <1>4, <1>5, <1>9, <1>10 DEF Ahead
<1>13. \A x \in Nodes : x # to => Limit(x, T)' = Limit(x, T)
  BY <1>7, <1>11, <1>12 DEF Limit
<1>14. History(H, T)'
  <2>1. History(H, T)
    BY DEF Consistent
  <2>2. \A p \in Nodes : node'[p].conn = "forward" => node[p].conn = "forward" /\ node'[p].cur = node[p].cur
    BY <1>1, <1>4, <1>5, <1>9
  <2> QED BY <1>1, <1>10, <2>1, <2>2 DEF History
<1>15. \A x \in Nodes : Data(x, node'[x], inbox[x], disk[x], last, S, H, T, Limit(x, T))
  <2> SUFFICES ASSUME NEW x \in Nodes PROVE Data(x, node'[x], inbox[x], disk[x], last, S, H, T, Limit(x, T))
    OBVIOUS
  <2>1. Data(x, node[x], inbox[x], disk[x], last, S, H, T, Limit(x, T))
    BY HistoryFacts
  <2>2. CASE x = n
    BY <1>4, <1>5, <2>1, <2>2, DataFrame
  <2> QED BY <1>4, <2>1, <2>2
<1>16. Data(to, node'[to], inbox'[to], disk'[to], last, S, H, T, Limit(to, T)')
  <2>1. Limit(to, T) = T
    BY <1>7, <1>11 DEF Limit
  <2>2. CASE ~Up(to)
    <3>1. to \notin S
      <4>1. alive \in Seq(Nodes)
        BY OrderlyFacts
      <4> QED BY <1>7, <2>2, <4>1, RecoveredIs DEF In, Up
    <3>2. Limit(to, T)' = T
      <4>1. ~Ahead(to)'
        BY <1>7, <1>12, <3>1
      <4> QED BY <4>1 DEF Limit
    <3> QED BY <1>1, <1>7, <1>15, <2>1, <2>2, <3>2
  <2>3. CASE Up(to)
    <3>1. to \in S
      BY <1>1, <1>7, <2>3, ReachedIs
    <3>2. Limit(to, T)' = T + 1
      BY <1>7, <1>12, <3>1 DEF Limit
    <3>3. inbox'[to] = Append(inbox[to], m)
      BY <1>1, <1>2, <1>7, <2>3
    <3>4. m \in Letter /\ Sensible(m, sent) /\ m.com = "WRITE" /\ m.write.val = d.cur.val /\ m.write.prev = d.cur.prev
      BY <1>1, <1>2, CopiedIs
    <3> HIDE DEF m
    <3>5. Grown(inbox[to], Append(inbox[to], m), m)
      BY <1>2, <1>7, <3>4, BasicFacts, AppendFacts
    <3>6. H[T + 1] = d.cur.val /\ d.cur.prev \in {None, H[T]}
      BY <1>1 DEF Consistent, History
    <3>7. Rising(H, T + 1) /\ node[to].seq \in Nat
      BY <1>1, <1>7, HistoryFacts
    <3>8. Data(to, node[to], inbox[to], disk[to], last, S, H, T, T)
      BY <1>4, <1>7, <1>15, <2>1
    <3>9. m.write.val = H[T + 1] /\ m.write.prev \in {None, H[T]}
      BY <3>4, <3>6
    <3>a. m.com = "WRITE"
      BY <3>4
    <3> HIDE DEF d, S
    <3>10. Data(to, node[to], Append(inbox[to], m), disk[to], last, S, H, T, T + 1)
      BY <3>a, <3>1, <3>5, <3>7, <3>8, <3>9, DataWritten
    <3> QED BY <1>1, <1>4, <1>7, <3>2, <3>3, <3>10
  <2> QED BY <2>2, <2>3
<1>17. \A x \in Nodes : x # to => inbox'[x] = inbox[x]
  BY <1>1
<1>18. \A x \in Nodes : Data(x, node'[x], inbox'[x], disk'[x], last', Recovered(alive)', H, T, Limit(x, T)')
  <2> SUFFICES ASSUME NEW x \in Nodes
               PROVE Data(x, node'[x], inbox'[x], disk'[x], last, S, H, T, Limit(x, T)')
    BY <1>1, <1>10
  <2>1. CASE x = to
    BY <1>16, <2>1
  <2>2. CASE x # to
    BY <1>1, <1>13, <1>15, <1>17, <2>2
  <2> QED BY <2>1, <2>2
<1> QED BY <1>14, <1>18 DEF Consistent

\* G is H up to the number T.
Agrees(G, H, T) == \A i \in Nat : i <= T => G[i] = H[i]

LEMMA ContentsAgrees ==
    ASSUME NEW dk \in DiskType, NEW H, NEW G, NEW T \in Nat, Agrees(G, H, T),
           Contents(dk, H, T), Top(dk.log) <= T
    PROVE  Contents(dk, G, T)
<1>1. PICK log \in LogType : log = dk.log
  BY DEF DiskType
<1>2. /\ log.ckpt \in Nat /\ Len(log.ents) \in Nat /\ DOMAIN log.ents = 1 .. Len(log.ents)
  BY LogFacts
<1>3. Replays(log, H) /\ Top(log) <= T
  BY <1>1 DEF Contents
<1>4. Replays(log, G)
  <2> SUFFICES ASSUME NEW i \in DOMAIN log.ents PROVE log.ents[i].val = G[log.ckpt + i]
    BY <1>3 DEF Replays
  <2>1. log.ckpt + i \in Nat /\ log.ckpt + i <= T
    BY <1>2, <1>3 DEF Top
  <2> QED BY <1>3, <2>1 DEF Replays, Agrees
<1>5. \E b \in Nat : dk.log.ckpt <= b /\ b <= T /\ b <= Top(dk.log) /\ dk.base = G[b]
  BY DEF Contents, Agrees
<1> QED BY <1>1, <1>4, <1>5 DEF Contents

LEMMA OwesAgrees ==
    ASSUME NEW q, NEW H, NEW G, NEW T \in Nat, Agrees(G, H, T), NEW s \in Nat, NEW l \in Nat, l <= T,
           Owes(q, H, s, l)
    PROVE  Owes(q, G, s, l)
<1>1. \A k \in Nat : s < k /\ k <= l => G[k] = H[k] /\ G[k - 1] = H[k - 1]
  BY DEF Agrees
<1>2. \A k \in Nat : s < k /\ k <= l => \E i \in DOMAIN q : q[i].com = "WRITE" /\ q[i].write.val = G[k]
  BY <1>1 DEF Owes
<1>3. \A i \in DOMAIN q : q[i].com = "WRITE" =>
          \E k \in Nat : s < k /\ k <= l /\ q[i].write.val = G[k] /\ q[i].write.prev \in {None, G[k - 1]}
  BY <1>1 DEF Owes
<1> QED BY <1>2, <1>3 DEF Owes

\* The data depends on the history no further than it has got.
LEMMA DataAgrees ==
    ASSUME NEW w, NEW d, Proc(d, w), NEW dk \in DiskType, NEW n, NEW q, NEW la, NEW S,
           NEW H, NEW G, NEW T \in Nat, Agrees(G, H, T), Data(n, d, q, dk, la, S, H, T, T)
    PROVE  Data(n, d, q, dk, la, S, G, T, T)
<1>0. d.seq \in Nat /\ (d.link # None /\ d.stage = "full" => d.link \in DiskType)
      /\ (d.link # None /\ d.stage = "log" => d.link.log \in LogType)
  BY FieldTypes DEF Proc
<1>1. Stale(dk, G, T)
  BY DEF Data, Stale, Agrees
<1>2. Memory(d, dk, G, T, T)
  <2> SUFFICES ASSUME d.main = "run", d.stage = "no"
               PROVE  /\ Contents(dk, G, T)
                      /\ d.seq = Top(dk.log) /\ d.seq <= T
                      /\ d.update # None => d.update = G[d.seq]
                      /\ d.update = None => dk.log.ents = <<>>
    BY DEF Memory
  <2>1. /\ Contents(dk, H, T)
        /\ d.seq = Top(dk.log) /\ d.seq <= T
        /\ d.update # None => d.update = H[d.seq]
        /\ d.update = None => dk.log.ents = <<>>
    BY DEF Data, Memory
  <2>2. Contents(dk, G, T)
    BY <2>1, ContentsAgrees
  <2> QED BY <1>0, <2>1, <2>2 DEF Agrees
<1>3. Backlog(n, d, q, S, G, T, T)
  <2> SUFFICES ASSUME d.main = "run", d.stage = "no", ~d.killed
               PROVE  \E l \in Nat : /\ d.seq <= l /\ l <= T /\ (n \in S => l = T)
                                     /\ Owes(q, G, d.seq, l)
                                     /\ l > T => Late(q, G[T + 1])
    BY DEF Backlog
  <2>1. PICK l \in Nat : d.seq <= l /\ l <= T /\ (n \in S => l = T) /\ Owes(q, H, d.seq, l)
    BY DEF Data, Backlog
  <2>2. Owes(q, G, d.seq, l) /\ ~(l > T)
    BY <1>0, <2>1, OwesAgrees
  <2> QED BY <2>1, <2>2
<1>4. Copy(d, G, T)
  <2>1. ASSUME d.stage = "log", d.link # None PROVE Replays(d.link.log, G) /\ Top(d.link.log) = T
    <3>1. PICK log \in LogType : log = d.link.log
      BY <1>0, <2>1
    <3>2. Replays(log, H) /\ Top(log) = T
      BY <2>1, <3>1 DEF Data, Copy
    <3>3. /\ log.ckpt \in Nat /\ Len(log.ents) \in Nat /\ DOMAIN log.ents = 1 .. Len(log.ents)
      BY LogFacts
    <3>4. \A i \in DOMAIN log.ents : log.ckpt + i \in Nat /\ log.ckpt + i <= T
      BY <3>2, <3>3 DEF Top
    <3>5. Replays(log, G)
      BY <3>2, <3>4 DEF Replays, Agrees
    <3> QED BY <3>1, <3>2, <3>5
  <2>2. ASSUME d.stage = "full", d.link # None PROVE Contents(d.link, G, T) /\ Top(d.link.log) = T
    <3>1. Contents(d.link, H, T) /\ Top(d.link.log) = T /\ Top(d.link.log) <= T
      BY <2>2 DEF Data, Copy
    <3> QED BY <1>0, <2>2, <3>1, ContentsAgrees
  <2> QED BY <2>1, <2>2 DEF Copy
<1>5. Legacy(n, dk, la, S, G, T)
  <2> SUFFICES ASSUME Left(n, la, S) PROVE Contents(dk, G, T) /\ Top(dk.log) = T
    BY DEF Legacy
  <2>1. Contents(dk, H, T) /\ Top(dk.log) = T /\ Top(dk.log) <= T
    BY DEF Data, Legacy
  <2> QED BY <2>1, ContentsAgrees
<1> QED BY <1>1, <1>2, <1>3, <1>4, <1>5 DEF Data

\* A client's write goes to the end of the history.
LEMMA ClientWriteData ==
    ASSUME {"overlap", "stale"} \cap Hazards = {}, Orderly, NEW H \in [Nat -> Nat], NEW T \in Nat, Consistent(H, T),
           NEW n \in Nodes, ClientWrite(n), StepSame
    PROVE  \E G \in [Nat -> Nat] : Consistent(G, T)'
<1> PICK S : S = Recovered(alive)
  OBVIOUS
<1> PICK d : d = node[n]
  OBVIOUS
<1> PICK w : w = sent
  OBVIOUS
<1> DEFINE G == [H EXCEPT ![T + 1] = w + 1]
<1>1. /\ Stable /\ IsFirst(n, alive) /\ d.primary /\ d.conn = "idle" /\ sent' = sent + 1
      /\ alive' = alive /\ last' = last /\ inbox' = inbox /\ acked' = acked
  BY DEF ClientWrite, Serves, IsFirst
<1>2. PICK x, e : Begins(n, x, e)
  BY BeginsIs DEF Orderly
<1>3. n \in Range(alive) /\ alive \in Seq(Nodes) /\ Distinct(alive)
  BY <1>1, OrderlyFacts, BehindFirst
<1>4. n \in S /\ S \subseteq Range(alive) /\ d.view = alive
  BY <1>1, <1>3, StableIs, RecoveredIs
<1>5. /\ SameRole(e, d) /\ SameSync(e, d) /\ SameCache(e, d) /\ e.conn = "forward" /\ e.cur = x
      /\ e.todo = Without(alive, n)
  BY <1>2, <1>4 DEF Begins, Forwarding, Others
<1>6. Range(e.todo) = Range(alive) \ {n}
  BY <1>3, <1>5, ListLeave, WithoutIs
<1>7. /\ node'[n] = e /\ disk' = disk /\ \A y \in Nodes : y # n => node'[y] = node[y]
  <2>1. disk' = disk
    BY <1>1 DEF ClientWrite, RunWrite
  <2>2. DOMAIN node = Nodes
    BY BasicFacts DEF Orderly
  <2> QED BY <1>2, <2>1, <2>2 DEF Begins
<1>8. x.val = w + 1 /\ x.prev \in {None, H[T]}
  <2>1. Table(n) = H[T]
    BY <1>1, <1>4, FirstHolds
  <2> QED BY <1>2, <2>1 DEF Begins, Expected
<1>9. \A p \in Nodes : node[p].conn # "forward"
  BY <1>1, NoForwarder
<1>10. w \in Nat /\ \A y \in Nodes : Limit(y, T) = T
  BY <1>9, HistoryFacts
<1>11. G \in [Nat -> Nat] /\ Agrees(G, H, T) /\ G[T + 1] = w + 1
  BY <1>10 DEF Agrees
<1> HIDE DEF G
<1>12. Recovered(alive)' = S
  BY DEF StepSame
<1>13. \A y \in Nodes : Limit(y, T)' = T
  <2>1. \A p \in Nodes : node'[p].conn = "forward" => p = n
    BY <1>7, <1>9
  <2>2. \A y \in Nodes : ~Ahead(y)'
    BY <1>4, <1>6, <1>7, <1>12, <2>1 DEF Ahead
  <2> QED BY <2>2 DEF Limit
<1>14. History(G, T)'
  <2>1. /\ H[0] = 0 /\ acked <= H[T] /\ H[T] <= w
        /\ \A i, j \in Nat : i < j /\ j <= T => H[i] < H[j]
        /\ Virgin(last, S) => T = 0
    BY DEF Consistent, History
  <2>2. G[0] = 0 /\ acked <= G[T] /\ G[T] <= w /\ G[T] = H[T] /\ G[T] \in Nat
    BY <1>11, <2>1 DEF Agrees
  <2>3. \A i, j \in Nat : i < j /\ j <= T => G[i] < G[j]
    BY <1>11, <2>1 DEF Agrees
  <2>4. \A p \in Nodes : node'[p].conn = "forward" => node'[p].cur = x
    BY <1>5, <1>7, <1>9
  <2>5. G[T] < x.val /\ G[T + 1] = x.val /\ x.prev \in {None, G[T]} /\ G[T] <= w + 1
    BY <1>8, <1>10, <1>11, <2>2
  <2> QED BY <1>1, <1>12, <2>1, <2>2, <2>3, <2>4, <2>5 DEF History
<1>15. \A y \in Nodes : Data(y, node'[y], inbox'[y], disk'[y], last', Recovered(alive)', G, T, Limit(y, T)')
  <2> SUFFICES ASSUME NEW y \in Nodes PROVE Data(y, node'[y], inbox[y], disk[y], last, S, G, T, T)
    BY <1>1, <1>7, <1>12, <1>13
  <2>1. /\ Data(y, node[y], inbox[y], disk[y], last, S, H, T, T)
        /\ Proc(node[y], sent) /\ disk[y] \in DiskType
    BY <1>10, HistoryFacts
  <2>2. Data(y, node[y], inbox[y], disk[y], last, S, G, T, T)
    BY <1>11, <2>1, DataAgrees
  <2>3. CASE y = n
    <3>1. /\ e.main = d.main /\ e.stage = d.stage /\ e.killed = d.killed /\ e.link = d.link
      BY <1>5 DEF SameRole, SameSync
    <3>2. Data(y, e, inbox[y], disk[y], last, S, G, T, T)
      BY <1>5, <2>2, <2>3, <3>1, DataFrame
    <3> QED BY <1>7, <2>3, <3>2
  <2>4. CASE y # n
    BY <1>7, <2>2, <2>4
  <2> QED BY <2>3, <2>4
<1>16. Consistent(G, T)'
  BY <1>14, <1>15 DEF Consistent
<1> QED BY <1>11, <1>16

\* A node when the write that was under way counts as made.
LEMMA DataGrows ==
    ASSUME NEW n, NEW d, d.stage = "no", NEW q, NEW dk \in DiskType, NEW la, NEW S, NEW H, NEW T \in Nat,
           NEW lim \in {T, T + 1}, Data(n, d, q, dk, la, S, H, T, lim), d.seq \in Nat,
           NEW lb, NEW Z, ~Left(n, lb, Z), n \in Z => n \in S /\ lim = T + 1
    PROVE  Data(n, d, q, dk, lb, Z, H, T + 1, T + 1)
<1>1. Stale(dk, H, T + 1)
  <2>1. dk.log.state # "bare" /\ \E b \in Nat : dk.log.ckpt <= b /\ b <= T /\ dk.base = H[b]
    BY DEF Data, Stale
  <2>2. \A b \in Nat : b <= T => b <= T + 1
    OBVIOUS
  <2> QED BY <2>1, <2>2 DEF Stale
<1>2. Contents(dk, H, T) => Contents(dk, H, T + 1)
  <2>1. \A b \in Nat : b <= T => b <= T + 1
    OBVIOUS
  <2> QED BY <2>1 DEF Contents
<1>3. Memory(d, dk, H, T + 1, T + 1)
  <2>1. d.seq <= lim => d.seq <= T + 1
    OBVIOUS
  <2> QED BY <1>2, <2>1 DEF Data, Memory
<1>4. Backlog(n, d, q, Z, H, T + 1, T + 1)
  <2> SUFFICES ASSUME d.main = "run", ~d.killed
               PROVE  \E l \in Nat : /\ d.seq <= l /\ l <= T + 1 /\ (n \in Z => l = T + 1)
                                     /\ Owes(q, H, d.seq, l)
                                     /\ l > T + 1 => Late(q, H[T + 1 + 1])
    BY DEF Backlog
  <2>1. PICK l \in Nat : d.seq <= l /\ l <= lim /\ (n \in S => l = lim) /\ Owes(q, H, d.seq, l)
    BY DEF Data, Backlog
  <2>2. l <= T + 1 /\ ~(l > T + 1) /\ (n \in Z => l = T + 1)
    BY <2>1
  <2> QED BY <2>1, <2>2
<1>5. Copy(d, H, T + 1) /\ Legacy(n, dk, lb, Z, H, T + 1)
  BY DEF Copy, Legacy
<1> QED BY <1>1, <1>3, <1>4, <1>5 DEF Data

LEMMA ApplyWriteData ==
    ASSUME Orderly, NEW H \in [Nat -> Nat], NEW T \in Nat, Consistent(H, T),
           NEW n \in Nodes, ApplyWrite(n), StepSame
    PROVE  Consistent(H, T + 1)'
<1> PICK S : S = Recovered(alive)
  OBVIOUS
<1> PICK d : d = node[n]
  OBVIOUS
<1> PICK dk : dk = disk[n]
  OBVIOUS
<1> PICK q : q = inbox[n]
  OBVIOUS
<1> PICK x : x = node[n].cur
  OBVIOUS
<1> DEFINE nd == Applied(d, dk, x)
           dn == Logged(d, dk, x)
<1>1. /\ EndMessage(n, nd, dn) /\ d.conn = "forward" /\ d.todo = <<>>
      /\ alive' = alive /\ last' = last /\ inbox' = inbox /\ sent' = sent
      /\ acked' \in {x.val, acked}
  BY DEF ApplyWrite
<1>2. Proc(d, sent) /\ dk \in DiskType /\ x \in Write /\ x.val <= sent
  <2>1. Proc(d, sent) /\ dk \in DiskType /\ x \in Write
    BY <1>1, BasicFacts, Forwarder DEF Orderly
  <2>2. x.val <= sent
    BY <1>1, <2>1 DEF Proc
  <2> QED BY <2>1, <2>2
<1>3. /\ IsFirst(n, alive) /\ n \in S /\ Range(alive) \subseteq S
      /\ \A y \in Nodes : y \in S <=> y \in Range(alive)
      /\ \A p \in Nodes : node[p].conn = "forward" => p = n
      /\ d.main = "run" /\ d.stage = "no" /\ d.primary
  BY <1>1, OneForwards
<1>4. d.seq = T /\ ~d.killed
  BY <1>3, FirstHolds
<1>5. x.val = H[T + 1] /\ x.prev \in {None, H[T]} /\ H[T] < x.val
  BY <1>1 DEF Consistent, History
<1>6. /\ Data(n, d, q, dk, last, S, H, T, T) /\ Rising(H, T + 1)
  BY <1>1, <1>3, HistoryFacts
<1> HIDE DEF nd, dn
<1>7. Proc(nd, sent) /\ SameRole(nd, d) /\ SameSync(nd, d)
  BY ONLY <1>2, AppliedIs DEF nd
<1>8. Memory(nd, dn, H, T + 1, T + 1) /\ nd.seq = T + 1
  <2>1. Memory(d, dk, H, T, T) /\ SameCache(nd, Applied(d, dk, x)) /\ T <= T + 1 /\ d.seq + 1 <= T + 1
        /\ T + 1 \in Nat
    BY <1>4, <1>6 DEF Data, SameCache, nd
  <2>2. Memory(nd, Logged(d, dk, x), H, T + 1, T + 1) /\ nd.seq = d.seq + 1
    BY <1>2, <1>3, <1>4, <1>5, <2>1, MemoryApplied
  <2> QED BY <1>4, <2>2 DEF dn
<1>9. Data(n, nd, q, dn, last, S, H, T + 1, T + 1)
  <2>1. nd.main = "run" /\ nd.stage = "no"
    BY <1>3, <1>7 DEF SameRole, SameSync
  <2>2. Stale(dn, H, T + 1)
    BY <1>8, <2>1, ContentsStale DEF Memory
  <2>3. ~Holds(q, "WRITE")
    BY <1>3, OrderlyFacts DEF Place, Writes, Holds
  <2>4. Owes(q, H, T + 1, T + 1)
    BY <2>3 DEF Owes, Holds
  <2>5. Backlog(n, nd, q, S, H, T + 1, T + 1)
    <3>1. nd.seq <= T + 1 /\ T + 1 <= T + 1 /\ ~(T + 1 > T + 1) /\ T + 1 \in Nat
      BY <1>8
    <3> QED BY <1>8, <2>4, <3>1 DEF Backlog
  <2>6. Copy(nd, H, T + 1) /\ Legacy(n, dn, last, S, H, T + 1)
    BY <1>3, <2>1 DEF Copy, Legacy, Left
  <2> QED BY <1>8, <2>2, <2>5, <2>6 DEF Data
<1>10. DOMAIN node = Nodes /\ DOMAIN disk = Nodes
  BY BasicFacts DEF Orderly
<1> PICK w : w = sent
  OBVIOUS
<1>11. PICK e : /\ Proc(e, w) /\ Ended(n, e, nd)
                /\ node' = [node EXCEPT ![n] = e] /\ disk' = [disk EXCEPT ![n] = dn]
  <2>1. EndMessage(n, nd, dn) /\ Proc(nd, w)
    BY <1>1, <1>7
  <2> PICK a : a = nd
    OBVIOUS
  <2> PICK b : b = dn
    OBVIOUS
  <2>2. EndMessage(n, a, b) /\ Proc(a, w)
    BY <2>1
  <2>3. \E e : /\ Proc(e, w) /\ Ended(n, e, a)
                /\ node' = [node EXCEPT ![n] = e] /\ disk' = [disk EXCEPT ![n] = b]
    BY ONLY SMTT(30), <2>2, n \in Nodes, EndMessageIs
  <2> QED BY <2>3
<1>12. /\ node'[n] = e /\ disk'[n] = dn
       /\ \A y \in Nodes : y # n => node'[y] = node[y] /\ disk'[y] = disk[y]
  BY <1>10, <1>11
<1>13. e.conn # "forward" /\ SameRole(e, nd) /\ SameSync(e, nd) /\ SameCache(e, nd)
  BY <1>11 DEF Ended
<1>14. Data(n, e, q, dn, last, S, H, T + 1, T + 1)
  BY <1>9, <1>13, DataFrame DEF SameRole, SameSync
<1>15. \A p \in Nodes : node'[p].conn # "forward"
  BY <1>3, <1>12, <1>13
<1>16. \A y \in Nodes : Limit(y, T + 1)' = T + 1
  <2>1. \A y \in Nodes : ~Ahead(y)'
    BY <1>15 DEF Ahead
  <2> QED BY <2>1 DEF Limit
<1>17. Recovered(alive)' = S
  BY DEF StepSame
<1>18. \A y \in Nodes : Data(y, node'[y], inbox'[y], disk'[y], last', Recovered(alive)', H, T + 1, Limit(y, T + 1)')
  <2> SUFFICES ASSUME NEW y \in Nodes PROVE Data(y, node'[y], inbox[y], disk'[y], last, S, H, T + 1, T + 1)
    BY <1>1, <1>16, <1>17
  <2>1. CASE y = n
    BY <1>12, <1>14, <2>1
  <2>2. CASE y # n
    <3>1. /\ Data(y, node[y], inbox[y], disk[y], last, S, H, T, Limit(y, T)) /\ disk[y] \in DiskType
          /\ node[y].seq \in Nat
      BY HistoryFacts
    <3>2. y \in S => Limit(y, T) = T + 1
      <4>1. n \in Nodes /\ node[n].conn = "forward" /\ node[n].todo = <<>> /\ y # n
        BY <1>1, <2>2
      <4>2. y \notin Range(node[n].todo)
        BY <4>1, RangeEmpty
      <4>3. y \in S => Ahead(y)
        BY <4>1, <4>2 DEF Ahead
      <4> QED BY <4>3 DEF Limit
    <3>3. Limit(y, T) \in {T, T + 1}
      BY DEF Limit
    <3>4. node[y].stage = "no"
      <4>1. Shape(y, node[y], inbox[y], Member(y)) /\ alive \in Seq(Nodes)
        BY BasicFacts, OrderlyFacts DEF Orderly
      <4>2. y \in S => In(y, node[y], inbox[y], alive)
        BY <4>1, RecoveredIs
      <4> QED BY <1>3, <4>1, <4>2 DEF In, Shape, Called, Member
    <3>5. ~Left(y, last, S)
      BY <1>3 DEF Left
    <3>6. y \in S => y \in S /\ Limit(y, T) = T + 1
      BY <3>2
    <3>7. Data(y, node[y], inbox[y], disk[y], last, S, H, T + 1, T + 1)
      BY <3>1, <3>3, <3>4, <3>5, <3>6, DataGrows
    <3> QED BY <1>12, <2>2, <3>7
  <2> QED BY <2>1, <2>2
<1>19. History(H, T + 1)'
  <2>1. H[0] = 0 /\ acked <= H[T]
    BY DEF Consistent, History
  <2>2. acked \in Nat /\ H[T] \in Nat /\ H[T + 1] \in Nat
    <3>1. Basic
      BY DEF Orderly
    <3>2. acked \in Nat
      BY <3>1, BasicScalars
    <3>3. \A i \in Nat : H[i] \in Nat
      OBVIOUS
    <3>4. T \in Nat /\ T + 1 \in Nat
      OBVIOUS
    <3> QED BY <3>2, <3>3, <3>4
  <2>3. acked' <= H[T + 1] /\ H[T + 1] <= sent
    <3> PICK a \in Nat : a = H[T]
      BY <2>2
    <3> PICK c \in Nat : c = H[T + 1]
      BY <2>2
    <3>1. acked <= a /\ a < c /\ c <= sent /\ (acked' = c \/ acked' = acked) /\ acked \in Nat
      BY <1>1, <1>2, <1>5, <2>1, <2>2
    <3>2. acked' <= c
      BY ONLY <3>1, a \in Nat, c \in Nat
    <3> QED BY <3>1, <3>2
  <2>4. \A i, j \in Nat : i < j /\ j <= T + 1 => H[i] < H[j]
    BY <1>6 DEF Rising
  <2>5. ~Virgin(last, S)
    BY <1>3 DEF Virgin
  <2> QED BY <1>1, <1>15, <1>17, <2>1, <2>3, <2>4, <2>5 DEF History
<1> QED BY <1>18, <1>19 DEF Consistent

------------------------------------------------------------------------------
(* Processes end.                                                          *)

\* A node gets a message that is neither a write nor a checkpoint.
LEMMA DataTold ==
    ASSUME NEW n, NEW d, NEW q, NEW dk, NEW la, NEW S, NEW H, NEW T \in Nat, NEW lim,
           Data(n, d, q, dk, la, S, H, T, lim),
           NEW r, NEW m, Grown(q, r, m), m.com \notin {"WRITE", "CKPT"}
    PROVE  Data(n, d, r, dk, la, S, H, T, lim)
<1>1. m.com # "WRITE" /\ (m.com = "CKPT" => lim = T) /\ Backlog(n, d, q, S, H, T, lim)
  BY DEF Data
<1>2. Backlog(n, d, r, S, H, T, lim)
  BY <1>1, BacklogGrown
<1> QED BY <1>2 DEF Data

\* What the end of the process n leaves of the data of another one.
LEMMA DataParted ==
    ASSUME NEW w \in Nat, NEW x, NEW d, Proc(d, w), NEW q, Queue(q, w), NEW dk, NEW la, NEW S, NEW H,
           NEW T \in Nat, NEW lim, Data(x, d, q, dk, la, S, H, T, lim), NEW n
    PROVE  Data(x, Parted(d, n), Unasked(q, n), dk, la, S, H, T, lim) /\ Queue(Unasked(q, n), w)
<1>1. Queue(Unasked(q, n), w)
  BY QueuePick
<1>2. Thin(q, Unasked(q, n), {"WRITE"})
  BY UnaskedThin
<1>3. Backlog(x, d, Unasked(q, n), S, H, T, lim)
  <2>1. "WRITE" \in {"WRITE"} /\ Backlog(x, d, q, S, H, T, lim)
    BY DEF Data
  <2> QED BY <1>1, <1>2, <2>1, BacklogThin
<1>4. Data(x, d, Unasked(q, n), dk, la, S, H, T, lim)
  BY <1>3 DEF Data
<1>5. /\ SameRole(Parted(d, n), d) /\ SameCache(Parted(d, n), d)
      /\ Parted(d, n).stage = d.stage /\ Parted(d, n).link = d.link
  BY PartedIs
<1>6. Data(x, Parted(d, n), Unasked(q, n), dk, la, S, H, T, lim)
  BY <1>4, <1>5, DataFrame DEF SameRole
<1> QED BY <1>1, <1>6

LEMMA DieOthers ==
    ASSUME Orderly, NEW n \in Nodes, Die(n, node), NEW x \in Nodes, x # n,
           NEW H, NEW T \in Nat, NEW lim,
           Data(x, node[x], inbox[x], disk[x], last, Recovered(alive), H, T, lim),
           NEW S, S = Recovered(alive), NEW Z, Z = S \ {n}, NEW lb, lb = last'
    PROVE  /\ Data(x, node'[x], inbox'[x], disk[x], lb, Z, H, T, lim)
           /\ SameWork(node'[x], node[x]) /\ node'[x].stage = node[x].stage
           /\ SameCache(node'[x], node[x])
<1> PICK w : w = sent
  OBVIOUS
<1> PICK bl : bl = alive'
  OBVIOUS
<1> PICK d : d = node[x]
  OBVIOUS
<1> PICK q : q = inbox[x]
  OBVIOUS
<1> DEFINE u == Unasked(q, n)
<1>1. DieEffect(n) /\ Basic
  BY DieIs DEF Orderly
<1>2. alive \in Seq(Nodes) /\ w \in Nat /\ Proc(d, w) /\ Queue(q, w) /\ Distinct(alive)
  BY <1>1, OrderlyFacts, BasicFacts
<1>3. /\ node'[x] = Parted(d, n)
      /\ inbox'[x] = IF Member(n) /\ x \in Range(bl) THEN Append(u, News(bl)) ELSE u
      /\ bl = (IF Member(n) THEN Without(alive, n) ELSE alive)
      /\ lb = (IF Member(n) /\ S = {n} THEN n ELSE last)
  BY <1>1 DEF DieEffect
<1>4. Data(x, Parted(d, n), u, disk[x], last, S, H, T, lim) /\ Queue(u, w)
  <2>1. Data(x, d, q, disk[x], last, S, H, T, lim)
    OBVIOUS
  <2> QED BY <1>2, <2>1, DataParted
<1>5. /\ SameCache(Parted(d, n), d) /\ SameWork(Parted(d, n), d)
      /\ Parted(d, n).stage = d.stage
  BY <1>2, PartedIs
<1> HIDE DEF u
<1>6. Data(x, Parted(d, n), inbox'[x], disk[x], last, S, H, T, lim)
  <2>1. CASE Member(n) /\ x \in Range(bl)
    <3>1. bl \in Seq(Nodes) /\ bl # <<>>
      BY <1>2, <1>3, <2>1, ListLeave, ListFacts
    <3>2. News(bl) \in Letter /\ Sensible(News(bl), w)
      BY <3>1, Letters
    <3>3. Grown(u, Append(u, News(bl)), News(bl)) /\ News(bl).com = "CLUSTER"
      BY <1>2, <1>4, <3>2, AppendFacts DEF News, Message
    <3>4. News(bl).com \notin {"WRITE", "CKPT"}
      BY <3>3
    <3>5. Data(x, Parted(d, n), Append(u, News(bl)), disk[x], last, S, H, T, lim)
      BY <1>4, <3>3, <3>4, DataTold
    <3> QED BY <1>3, <2>1, <3>5
  <2>2. CASE ~(Member(n) /\ x \in Range(bl))
    BY <1>3, <1>4, <2>2
  <2> QED BY <2>1, <2>2
<1>7. Left(x, lb, Z) => Left(x, last, S)
  <2>1. S = {n} => Member(n)
    BY <1>2, RecoveredIs DEF Member
  <2> QED BY <1>3, <2>1 DEF Left
<1>8. Data(x, Parted(d, n), inbox'[x], disk[x], lb, Z, H, T, lim)
  <2> PICK r : r = inbox'[x]
    OBVIOUS
  <2> PICK dk : dk = disk[x]
    OBVIOUS
  <2> PICK e : e = Parted(d, n)
    OBVIOUS
  <2>1. Data(x, e, r, dk, last, S, H, T, lim) /\ (x \in Z => x \in S) /\ SameCache(e, e)
    BY <1>6 DEF SameCache
  <2>2. Data(x, e, r, dk, lb, Z, H, T, lim)
    BY <1>7, <2>1, DataFrame
  <2> QED BY <2>2
<1> QED BY <1>3, <1>5, <1>8

DiesStep(n) ==
    /\ Die(n, node) /\ disk' = disk /\ sent' = sent /\ acked' = acked
    /\ Orderly' /\ Recovered(alive)' = Recovered(alive) \ {n}

\* The last member that has recovered, with no write to read, has everything.
LEMMA LastHolds ==
    ASSUME Orderly, NEW H \in [Nat -> Nat], NEW T \in Nat, Consistent(H, T), NEW n \in Nodes,
           Recovered(alive) = {n}, ~Holds(inbox[n], "WRITE")
    PROVE  Contents(disk[n], H, T) /\ Top(disk[n].log) = T
<1>1. In(n, node[n], inbox[n], alive)
  <2>1. alive \in Seq(Nodes)
    BY OrderlyFacts
  <2> QED BY <2>1, RecoveredIs
<1>2. ~Ahead(n)
  BY OneForwards DEF Ahead
<1>3. /\ Data(n, node[n], inbox[n], disk[n], last, Recovered(alive), H, T, T) /\ node[n].seq \in Nat
  BY <1>2, HistoryFacts DEF Limit
<1>4. Backlog(n, node[n], inbox[n], Recovered(alive), H, T, T) /\ Memory(node[n], disk[n], H, T, T)
  BY <1>3 DEF Data
<1>5. node[n].seq = T
  <2>1. n \in Recovered(alive)
    OBVIOUS
  <2> QED BY <1>1, <1>3, <1>4, <2>1, BacklogNone DEF In
<1> QED BY <1>1, <1>4, <1>5 DEF Memory, In

\* A process ends, and no write goes with it.
LEMMA DieKeeps ==
    ASSUME Orderly, NEW H \in [Nat -> Nat], NEW T \in Nat, Consistent(H, T), NEW n \in Nodes, DiesStep(n),
           \/ node[n].conn # "forward"
           \/ \A x \in Recovered(alive) : x # n => x \in Range(node[n].todo),
           Recovered(alive) = {n} => ~Holds(inbox[n], "WRITE")
    PROVE  Consistent(H, T)'
<1> PICK S : S = Recovered(alive)
  OBVIOUS
<1> PICK Z : Z = S \ {n}
  OBVIOUS
<1> PICK lb : lb = last'
  OBVIOUS
<1>1. /\ Die(n, node) /\ disk' = disk /\ sent' = sent /\ acked' = acked /\ Recovered(alive)' = Z
  BY DEF DiesStep
<1>2. DieEffect(n) /\ Basic
  BY <1>1, DieIs DEF Orderly
<1>3. alive \in Seq(Nodes) /\ S \subseteq Range(alive)
  BY OrderlyFacts, RecoveredIs
<1>4. node'[n] = Down /\ lb = (IF S = {n} THEN n ELSE last)
  BY <1>2, <1>3 DEF DieEffect, Member
<1>5. Down.main = "down" /\ Down.conn = "idle" /\ Down.stage = "no"
  BY DEF Down, Fresh
<1>6. \A x \in Nodes : x # n =>
         /\ Data(x, node'[x], inbox'[x], disk[x], lb, Z, H, T, Limit(x, T))
         /\ SameWork(node'[x], node[x])
  <2> SUFFICES ASSUME NEW x \in Nodes, x # n
               PROVE  /\ Data(x, node'[x], inbox'[x], disk[x], lb, Z, H, T, Limit(x, T))
                      /\ SameWork(node'[x], node[x])
    OBVIOUS
  <2> PICK lim : lim = Limit(x, T)
    OBVIOUS
  <2>1. Data(x, node[x], inbox[x], disk[x], last, Recovered(alive), H, T, lim)
    BY HistoryFacts
  <2> QED BY <1>1, <2>1, DieOthers
<1>7. \A p \in Nodes : node'[p].conn = "forward" => p # n /\ node[p].conn = "forward" /\ SameWork(node'[p], node[p])
  BY <1>4, <1>5, <1>6 DEF SameWork
<1>8. \A x \in Nodes : x # n => (Ahead(x)' <=> Ahead(x))
  <2> SUFFICES ASSUME NEW x \in Nodes, x # n PROVE Ahead(x)' <=> Ahead(x)
    OBVIOUS
  <2>1. x \in Z <=> x \in S
    OBVIOUS
  <2>2. Ahead(x)' => Ahead(x)
    BY <1>1, <1>7, <2>1 DEF Ahead, SameWork
  <2>3. ASSUME Ahead(x) PROVE Ahead(x)'
    <3>1. PICK p \in Nodes : node[p].conn = "forward" /\ x # p /\ x \notin Range(node[p].todo) /\ x \in S
      BY <2>3 DEF Ahead
    <3>2. p # n
      BY <3>1
    <3>3. node'[p].conn = "forward" /\ node'[p].todo = node[p].todo
      BY <1>6, <3>1, <3>2 DEF SameWork
    <3> QED BY <1>1, <2>1, <3>1, <3>3 DEF Ahead
  <2> QED BY <2>2, <2>3
<1>9. \A x \in Nodes : x # n => Limit(x, T)' = Limit(x, T)
  BY <1>8 DEF Limit
<1>10. Data(n, node'[n], inbox'[n], disk[n], lb, Z, H, T, Limit(n, T)')
  <2>1. Stale(disk[n], H, T) /\ Legacy(n, disk[n], last, S, H, T)
    BY HistoryFacts DEF Data
  <2>2. Legacy(n, disk[n], lb, Z, H, T)
    <3> SUFFICES ASSUME Left(n, lb, Z) PROVE Contents(disk[n], H, T) /\ Top(disk[n].log) = T
      BY DEF Legacy
    <3>1. CASE S = {n}
      BY <3>1, LastHolds
    <3>2. CASE S # {n}
      <4>1. Left(n, last, S)
        BY <1>4, <3>2 DEF Left
      <4> QED BY <2>1, <4>1 DEF Legacy
    <3> QED BY <3>1, <3>2
  <2> PICK lim : lim = Limit(n, T)'
    OBVIOUS
  <2> PICK r : r = inbox'[n]
    OBVIOUS
  <2> PICK dk : dk = disk[n]
    OBVIOUS
  <2>3. Data(n, Down, r, dk, lb, Z, H, T, lim)
    BY <1>5, <2>1, <2>2, DataIdle
  <2> QED BY <1>4, <2>3
<1>11. \A x \in Nodes : Data(x, node'[x], inbox'[x], disk'[x], last', Recovered(alive)', H, T, Limit(x, T)')
  BY <1>1, <1>6, <1>9, <1>10
<1>12. History(H, T)'
  <2>1. History(H, T)
    BY DEF Consistent
  <2>2. Virgin(lb, Z) => Virgin(last, S)
    <3>1. n # None
      BY GroupNone
    <3> QED BY <1>4, <3>1 DEF Virgin
  <2>3. \A p \in Nodes : node'[p].conn = "forward" => node[p].conn = "forward" /\ node'[p].cur = node[p].cur
    BY <1>7 DEF SameWork
  <2> QED BY <1>1, <2>1, <2>2, <2>3 DEF History
<1> QED BY <1>11, <1>12 DEF Consistent

\* A primary ends when all others have been sent the write: it counts as made.
LEMMA DieMoves ==
    ASSUME Orderly, NEW H \in [Nat -> Nat], NEW T \in Nat, Consistent(H, T), NEW n \in Nodes, DiesStep(n),
           node[n].conn = "forward", node[n].todo = <<>>, Recovered(alive) # {n}
    PROVE  Consistent(H, T + 1)'
<1> PICK S : S = Recovered(alive)
  OBVIOUS
<1> PICK Z : Z = S \ {n}
  OBVIOUS
<1> PICK lb : lb = last'
  OBVIOUS
<1>1. /\ Die(n, node) /\ disk' = disk /\ sent' = sent /\ acked' = acked /\ Recovered(alive)' = Z
  BY DEF DiesStep
<1>2. DieEffect(n) /\ Basic
  BY <1>1, DieIs DEF Orderly
<1>3. /\ IsFirst(n, alive) /\ n \in S /\ \A y \in Nodes : y \in S <=> y \in Range(alive)
      /\ \A p \in Nodes : node[p].conn = "forward" => p = n
  BY OneForwards
<1>4. Z # {}
  BY <1>3
<1>5. node'[n] = Down /\ Down.main = "down" /\ Down.conn = "idle" /\ Down.stage = "no"
  BY <1>2 DEF DieEffect, Down, Fresh
<1>6. ASSUME NEW x \in Nodes, x # n
      PROVE  /\ Data(x, node'[x], inbox'[x], disk[x], lb, Z, H, T + 1, T + 1)
             /\ SameWork(node'[x], node[x])
  <2> PICK lim : lim = Limit(x, T)
    OBVIOUS
  <2>1. /\ Data(x, node[x], inbox[x], disk[x], last, Recovered(alive), H, T, lim) /\ disk[x] \in DiskType
        /\ node[x].seq \in Nat
    BY HistoryFacts
  <2>2. /\ Data(x, node'[x], inbox'[x], disk[x], lb, Z, H, T, lim)
        /\ SameWork(node'[x], node[x]) /\ node'[x].stage = node[x].stage /\ SameCache(node'[x], node[x])
    BY <1>1, <1>6, <2>1, DieOthers
  <2>3. lim \in {T, T + 1} /\ (x \in Z => x \in S /\ lim = T + 1)
    <3>1. x \notin Range(node[n].todo)
      BY RangeEmpty
    <3>2. x \in Z => x \in S /\ Ahead(x)
      BY <1>6, <3>1 DEF Ahead
    <3> QED BY <3>2 DEF Limit
  <2>4. node[x].stage = "no"
    <3>1. Shape(x, node[x], inbox[x], Member(x)) /\ alive \in Seq(Nodes)
      BY <1>2, BasicFacts, OrderlyFacts
    <3>2. x \in S => In(x, node[x], inbox[x], alive)
      BY <3>1, RecoveredIs
    <3> QED BY <1>3, <3>1, <3>2 DEF In, Shape, Called, Member
  <2>5. ~Left(x, lb, Z) /\ node'[x].stage = "no" /\ node'[x].seq \in Nat /\ (x \in Z => x \in Z /\ lim = T + 1)
    BY <1>4, <2>1, <2>2, <2>3, <2>4 DEF Left, SameCache
  <2> PICK e : e = node'[x]
    OBVIOUS
  <2> PICK r : r = inbox'[x]
    OBVIOUS
  <2> PICK dk : dk = disk[x]
    OBVIOUS
  <2>6. Data(x, e, r, dk, lb, Z, H, T, lim)
    BY <2>2
  <2>7. Data(x, e, r, dk, lb, Z, H, T + 1, T + 1)
    <3>1. e.stage = "no" /\ dk \in DiskType /\ lim \in {T, T + 1} /\ e.seq \in Nat /\ ~Left(x, lb, Z)
          /\ (x \in Z => x \in Z /\ lim = T + 1)
      BY <2>1, <2>3, <2>5
    <3> QED BY ONLY <2>6, <3>1, T \in Nat, DataGrows
  <2> QED BY <2>2, <2>7
<1>7. \A p \in Nodes : node'[p].conn # "forward"
  BY <1>3, <1>5, <1>6 DEF SameWork
<1>8. \A x \in Nodes : Limit(x, T + 1)' = T + 1
  <2>1. \A x \in Nodes : ~Ahead(x)'
    BY <1>7 DEF Ahead
  <2> QED BY <2>1 DEF Limit
<1>9. Data(n, node'[n], inbox'[n], disk[n], lb, Z, H, T + 1, T + 1)
  <2>1. disk[n].log.state # "bare" /\ \E b \in Nat : disk[n].log.ckpt <= b /\ b <= T /\ disk[n].base = H[b]
    BY HistoryFacts DEF Data, Stale
  <2>2. \A b \in Nat : b <= T => b <= T + 1
    OBVIOUS
  <2>3. Stale(disk[n], H, T + 1)
    BY <2>1, <2>2 DEF Stale
  <2>4. Legacy(n, disk[n], lb, Z, H, T + 1)
    BY <1>4 DEF Legacy, Left
  <2> PICK r : r = inbox'[n]
    OBVIOUS
  <2> PICK dk : dk = disk[n]
    OBVIOUS
  <2>5. Data(n, Down, r, dk, lb, Z, H, T + 1, T + 1)
    BY <1>5, <2>3, <2>4, DataIdle
  <2> QED BY <1>5, <2>5
<1>10. \A x \in Nodes : Data(x, node'[x], inbox'[x], disk'[x], last', Recovered(alive)', H, T + 1, Limit(x, T + 1)')
  BY <1>1, <1>6, <1>8, <1>9
<1>11. History(H, T + 1)'
  <2>1. /\ H[0] = 0 /\ acked <= H[T]
        /\ H[T] < node[n].cur.val /\ H[T + 1] = node[n].cur.val
    BY DEF Consistent, History
  <2>2. node[n].cur.val <= sent
    BY BasicFacts DEF Orderly, Proc
  <2>3. acked \in Nat
    BY <1>2, BasicScalars
  <2>4. H[T] \in Nat /\ H[T + 1] \in Nat
    OBVIOUS
  <2>5. acked <= H[T + 1] /\ H[T + 1] <= sent
    <3> PICK a \in Nat : a = H[T]
      BY <2>4
    <3> PICK c \in Nat : c = H[T + 1]
      BY <2>4
    <3>1. acked <= a /\ a < c /\ c <= sent /\ acked \in Nat
      BY <2>1, <2>2, <2>3
    <3>2. acked <= c
      BY ONLY <3>1, a \in Nat, c \in Nat
    <3> QED BY <3>1, <3>2
  <2>6. \A i, j \in Nat : i < j /\ j <= T + 1 => H[i] < H[j]
    BY HistoryFacts DEF Rising
  <2> QED BY <1>1, <1>4, <1>7, <2>1, <2>5, <2>6 DEF History, Virgin
<1> QED BY <1>10, <1>11 DEF Consistent

LEMMA ListAppend ==
    ASSUME NEW al \in Seq(Nodes), NEW n \in Nodes
    PROVE  Append(al, n) \in Seq(Nodes) /\ Append(al, n) # <<>>
<1>1. \A i \in 1 .. Len(al) : al[i] \in Nodes
  OBVIOUS
<1>2. Append(al, n) \in Seq(Nodes)
  OBVIOUS
<1>3. Len(Append(al, n)) = Len(al) + 1 /\ Len(al) \in Nat
  OBVIOUS
<1> QED BY <1>2, <1>3

LEMMA LenNat ==
    ASSUME NEW s \in Seq(Nodes)
    PROVE  Len(s) \in Nat
OBVIOUS

LEMMA NotLess ==
    ASSUME NEW s \in Nat, NEW v \in Nat, s <= v - 1, ~(s < v - 1)
    PROVE  s = v - 1
OBVIOUS

LosesStep(n) == Orderly' /\ Recovered(alive)' = Recovered(alive) \ {n}

LEMMA CrashData ==
    ASSUME {"takeover", "partial", "backlog"} \cap Hazards = {}, Orderly,
           NEW H \in [Nat -> Nat], NEW T \in Nat, Consistent(H, T), NEW n \in Nodes, Crash(n), LosesStep(n)
    PROVE  \E U \in Nat : Consistent(H, U)'
<1> PICK S : S = Recovered(alive)
  OBVIOUS
<1>1. /\ Die(n, node) /\ ~HalfForwarded(n) /\ (~(S \subseteq {n}) \/ ~Pending(n, "WRITE"))
      /\ disk' = disk /\ sent' = sent /\ acked' = acked
  BY DEF Crash
<1>2. DiesStep(n)
  BY <1>1 DEF DiesStep, LosesStep
<1>3. S = {n} => ~Holds(inbox[n], "WRITE")
  BY <1>1 DEF Pending, Holds
<1>4. CASE node[n].conn # "forward"
  <2>1. Consistent(H, T)'
    BY <1>2, <1>3, <1>4, DieKeeps
  <2> QED BY <2>1
<1>5. CASE node[n].conn = "forward" /\ S = {n}
  <2>1. \A x \in S : x # n => x \in Range(node[n].todo)
    BY <1>5
  <2>2. Consistent(H, T)'
    BY <1>2, <1>3, <2>1, DieKeeps
  <2> QED BY <2>2
<1>6. CASE node[n].conn = "forward" /\ S # {n} /\ node[n].todo = <<>>
  <2>1. Consistent(H, T + 1)'
    BY <1>2, <1>6, DieMoves
  <2> QED BY <2>1
<1>7. CASE node[n].conn = "forward" /\ node[n].todo # <<>>
  <2>1. /\ Len(node[n].todo) <= Len(node[n].view) - 1
        /\ Len(node[n].todo) = Len(node[n].view) - 1 =>
              \A m \in Range(alive) : m # n => m \in Range(node[n].todo)
    BY <1>7, OrderlyFacts DEF Place, Forwards
  <2>2. Len(node[n].todo) \in Nat /\ Len(node[n].view) \in Nat
    <3> PICK s : s = node[n].todo
      OBVIOUS
    <3> PICK v : v = node[n].view
      OBVIOUS
    <3>1. s \in Seq(Nodes) /\ v \in Seq(Nodes)
      BY BasicFacts, FieldTypes DEF Orderly, Proc
    <3>2. Len(s) \in Nat /\ Len(v) \in Nat
      BY <3>1, LenNat
    <3> QED BY <3>2
  <2>3. ~(Len(node[n].todo) < Len(node[n].view) - 1)
    BY <1>1, <1>7 DEF HalfForwarded
  <2>4. Len(node[n].todo) = Len(node[n].view) - 1
    <3> PICK s : s = Len(node[n].todo)
      OBVIOUS
    <3> PICK v : v = Len(node[n].view)
      OBVIOUS
    <3>1. s \in Nat /\ v \in Nat /\ s <= v - 1 /\ ~(s < v - 1)
      BY <2>1, <2>2, <2>3
    <3>2. s = v - 1
      BY <3>1, NotLess
    <3> QED BY <3>2
  <2>5. \A x \in S : x # n => x \in Range(node[n].todo)
    <3>1. S \subseteq Range(alive)
      BY OrderlyFacts, RecoveredIs
    <3> QED BY <2>1, <2>4, <3>1
  <2>6. Consistent(H, T)'
    BY <1>2, <1>3, <2>5, DieKeeps
  <2> QED BY <2>6
<1> QED BY <1>4, <1>5, <1>6, <1>7

LEMMA ExitData ==
    ASSUME Orderly, NEW H \in [Nat -> Nat], NEW T \in Nat, Consistent(H, T), NEW n \in Nodes,
           n \notin Recovered(alive), Exit(n, disk[n]), sent' = sent, acked' = acked, StepSame
    PROVE  Consistent(H, T)'
<1>1. Die(n, node) /\ disk' = disk
  <2>1. disk \in [Nodes -> DiskType]
    BY BasicScalars DEF Orderly
  <2> QED BY <2>1 DEF Exit
<1>2. DiesStep(n)
  BY <1>1 DEF DiesStep, StepSame
<1>3. node[n].conn # "forward"
  BY OneForwards
<1>4. Recovered(alive) # {n}
  OBVIOUS
<1> QED BY <1>2, <1>3, <1>4, DieKeeps

------------------------------------------------------------------------------
(* The list of members grows, or an idle member leaves it.                 *)

LEMMA CalmData ==
    ASSUME Orderly, NEW H \in [Nat -> Nat], NEW T \in Nat, Consistent(H, T),
           \A p \in Nodes : node'[p].conn # "forward",
           sent' = sent, acked' = acked, disk' = disk, NEW Z, Z = Recovered(alive)', NEW lb, lb = last',
           Virgin(lb, Z) => Virgin(last, Recovered(alive)),
           \A x \in Nodes : Data(x, node'[x], inbox'[x], disk[x], lb, Z, H, T, T)
    PROVE  Consistent(H, T)'
<1>1. \A x \in Nodes : Limit(x, T)' = T
  <2>1. \A x \in Nodes : ~Ahead(x)'
    BY DEF Ahead
  <2> QED BY <2>1 DEF Limit
<1>2. \A x \in Nodes : Data(x, node'[x], inbox'[x], disk'[x], last', Recovered(alive)', H, T, Limit(x, T)')
  BY <1>1
<1>3. History(H, T)'
  BY DEF Consistent, History
<1> QED BY <1>2, <1>3 DEF Consistent

LEMMA StartData ==
    ASSUME {"takeover", "overlap"} \cap Hazards = {}, Orderly,
           NEW H \in [Nat -> Nat], NEW T \in Nat, Consistent(H, T), NEW n \in Nodes, Start(n), StepSame
    PROVE  Consistent(H, T)'
<1> PICK S : S = Recovered(alive)
  OBVIOUS
<1> PICK la : la = last
  OBVIOUS
<1> PICK w : w = sent
  OBVIOUS
<1> PICK bl : bl = Append(alive, n)
  OBVIOUS
<1>1. /\ node[n].main = "down" /\ MayJoin(n) /\ node' = [node EXCEPT ![n] = Fresh]
      /\ alive' = bl /\ inbox' = Announce(bl, inbox) /\ last' = last /\ disk' = disk
      /\ sent' = sent /\ acked' = acked
  BY DEF Start, Up
<1>2. alive \in Seq(Nodes) /\ w \in Nat /\ DOMAIN node = Nodes /\ Basic
  BY OrderlyFacts, BasicFacts DEF Orderly
<1>3. \A p \in Nodes : node[p].conn # "forward"
  BY <1>1, HeirIs
<1>4. bl \in Seq(Nodes) /\ bl # <<>>
  BY <1>2, ListAppend
<1>5. \A x \in Nodes : inbox'[x] = IF x \in Range(bl) THEN Append(inbox[x], News(bl)) ELSE inbox[x]
  BY <1>1, <1>4, AnnounceIs
<1>6. /\ node'[n] = Fresh /\ \A x \in Nodes : x # n => node'[x] = node[x]
  BY <1>1, <1>2
<1>7. News(bl) \in Letter /\ Sensible(News(bl), w) /\ News(bl).com \notin {"WRITE", "CKPT"}
  BY <1>4, Letters DEF News, Message
<1>8. Fresh.main = "wait" /\ Fresh.conn = "idle" /\ Fresh.stage = "no"
  BY DEF Fresh
<1>9. \A x \in Nodes : Data(x, node'[x], inbox'[x], disk[x], la, S, H, T, T)
  <2> SUFFICES ASSUME NEW x \in Nodes PROVE Data(x, node'[x], inbox'[x], disk[x], la, S, H, T, T)
    OBVIOUS
  <2>1. Data(x, node[x], inbox[x], disk[x], la, S, H, T, T) /\ Queue(inbox[x], w)
    BY <1>3, HistoryFacts
  <2>2. CASE x = n
    <3>1. Stale(disk[n], H, T) /\ Legacy(n, disk[n], la, S, H, T)
      BY <2>1, <2>2 DEF Data
    <3> PICK r : r = inbox'[n]
      OBVIOUS
    <3> PICK dk : dk = disk[n]
      OBVIOUS
    <3>2. Data(n, Fresh, r, dk, la, S, H, T, T)
      BY <1>8, <3>1, DataIdle
    <3> QED BY <1>6, <2>2, <3>2
  <2>3. CASE x # n
    <3> PICK d : d = node[x]
      OBVIOUS
    <3> PICK q : q = inbox[x]
      OBVIOUS
    <3> PICK dk : dk = disk[x]
      OBVIOUS
    <3>1. Grown(q, Append(q, News(bl)), News(bl))
      BY <1>2, <1>7, <2>1, AppendFacts
    <3>2. Data(x, d, q, dk, la, S, H, T, T)
      BY <2>1
    <3>3. Data(x, d, Append(q, News(bl)), dk, la, S, H, T, T)
      BY <1>7, <3>1, <3>2, DataTold
    <3> QED BY <1>5, <1>6, <2>3, <3>2, <3>3
  <2> QED BY <2>2, <2>3
<1>10. \A p \in Nodes : node'[p].conn # "forward"
  BY <1>3, <1>6, <1>8
<1>11. S = Recovered(alive)' /\ la = last'
  BY <1>1 DEF StepSame
<1> QED BY <1>1, <1>9, <1>10, <1>11, CalmData

LEMMA RestartData ==
    ASSUME {"takeover", "overlap"} \cap Hazards = {}, Orderly,
           NEW H \in [Nat -> Nat], NEW T \in Nat, Consistent(H, T), NEW n \in Nodes, Restart(n), StepSame
    PROVE  Consistent(H, T)'
<1> PICK S : S = Recovered(alive)
  OBVIOUS
<1> PICK la : la = last
  OBVIOUS
<1> PICK w : w = sent
  OBVIOUS
<1> PICK bl : bl = Append(alive, n)
  OBVIOUS
<1> PICK m : m = Message("RESTART", <<>>, None, None)
  OBVIOUS
<1> PICK told : told = Announce(bl, inbox)
  OBVIOUS
<1>1. /\ MayJoin(n) /\ node' = node /\ alive' = bl /\ last' = last /\ disk' = disk
      /\ sent' = sent /\ acked' = acked /\ inbox' = [told EXCEPT ![n] = Append(told[n], m)]
  BY DEF Restart
<1>2. alive \in Seq(Nodes) /\ w \in Nat /\ Basic
  BY OrderlyFacts, BasicFacts DEF Orderly
<1>3. \A p \in Nodes : node[p].conn # "forward"
  BY <1>1, HeirIs
<1>4. bl \in Seq(Nodes) /\ bl # <<>>
  BY <1>2, ListAppend
<1>5. /\ DOMAIN told = Nodes
      /\ \A x \in Nodes : told[x] = IF x \in Range(bl) THEN Append(inbox[x], News(bl)) ELSE inbox[x]
  BY <1>4, AnnounceIs
<1>6. News(bl) \in Letter /\ Sensible(News(bl), w) /\ News(bl).com \notin {"WRITE", "CKPT"}
  BY <1>4, Letters DEF News, Message
<1>7. m \in Letter /\ Sensible(m, w) /\ m.com \notin {"WRITE", "CKPT"}
  BY Letters DEF Message
<1>8. \A x \in Nodes : Data(x, node'[x], inbox'[x], disk[x], la, S, H, T, T)
  <2> SUFFICES ASSUME NEW x \in Nodes PROVE Data(x, node[x], inbox'[x], disk[x], la, S, H, T, T)
    BY <1>1
  <2> PICK d : d = node[x]
    OBVIOUS
  <2> PICK q : q = inbox[x]
    OBVIOUS
  <2> PICK dk : dk = disk[x]
    OBVIOUS
  <2> PICK u : u = told[x]
    OBVIOUS
  <2>1. Data(x, d, q, dk, la, S, H, T, T) /\ Queue(q, w)
    BY <1>3, HistoryFacts
  <2>2. Data(x, d, u, dk, la, S, H, T, T) /\ Queue(u, w)
    <3>1. Grown(q, Append(q, News(bl)), News(bl)) /\ Queue(Append(q, News(bl)), w)
      BY <1>2, <1>6, <2>1, AppendFacts
    <3>2. Data(x, d, Append(q, News(bl)), dk, la, S, H, T, T)
      BY <1>6, <2>1, <3>1, DataTold
    <3> QED BY <1>5, <2>1, <3>1, <3>2
  <2>3. Data(x, d, Append(u, m), dk, la, S, H, T, T)
    <3>1. Grown(u, Append(u, m), m)
      BY <1>2, <1>7, <2>2, AppendFacts
    <3> QED BY <1>7, <2>2, <3>1, DataTold
  <2>4. inbox'[x] = IF x = n THEN Append(u, m) ELSE u
    BY <1>1, <1>5
  <2> QED BY <2>2, <2>3, <2>4
<1>9. \A p \in Nodes : node'[p].conn # "forward"
  BY <1>1, <1>3
<1>10. S = Recovered(alive)' /\ la = last'
  BY <1>1 DEF StepSame
<1> QED BY <1>1, <1>8, <1>9, <1>10, CalmData

LEMMA KillData ==
    ASSUME "killBusy" \notin Hazards, Orderly,
           NEW H \in [Nat -> Nat], NEW T \in Nat, Consistent(H, T), NEW n \in Nodes, Kill(n), LosesStep(n)
    PROVE  Consistent(H, T)'
<1> PICK S : S = Recovered(alive)
  OBVIOUS
<1> PICK Z : Z = S \ {n}
  OBVIOUS
<1> PICK la : la = last
  OBVIOUS
<1> PICK lb : lb = last'
  OBVIOUS
<1> PICK w : w = sent
  OBVIOUS
<1> PICK bl : bl = Without(alive, n)
  OBVIOUS
<1> PICK m : m = Message("KILL", <<>>, None, None)
  OBVIOUS
<1> PICK boxes : boxes = [inbox EXCEPT ![n] = Append(inbox[n], m)]
  OBVIOUS
<1>1. /\ n \in Range(alive) /\ Stable /\ \A x \in Nodes : node[x].conn = "idle"
      /\ alive' = bl /\ inbox' = Announce(bl, boxes) /\ lb = (IF S = {n} THEN n ELSE la)
      /\ node' = node /\ disk' = disk /\ sent' = sent /\ acked' = acked
  BY DEF Kill, Leave
<1>2. alive \in Seq(Nodes) /\ Distinct(alive) /\ w \in Nat /\ DOMAIN inbox = Nodes /\ Basic
  BY OrderlyFacts, BasicFacts DEF Orderly
<1>3. bl \in Seq(Nodes) /\ Range(bl) = Range(alive) \ {n}
  BY <1>1, <1>2, ListLeave
<1>4. \A x \in Nodes : inbox'[x] = IF x \in Range(bl) THEN Append(boxes[x], News(bl)) ELSE boxes[x]
  <2> PICK told : told = inbox'
    OBVIOUS
  <2>1. told = Announce(bl, boxes) /\ bl \in Seq(Nodes)
    BY <1>1, <1>3
  <2>2. \A x \in Nodes : told[x] = IF x \in Range(bl) THEN Append(boxes[x], News(bl)) ELSE boxes[x]
    BY ONLY <2>1, AnnounceIs
  <2> QED BY <2>2
<1>5. /\ inbox'[n] = Append(inbox[n], m)
      /\ \A x \in Nodes : x # n =>
            inbox'[x] = IF x \in Range(bl) THEN Append(inbox[x], News(bl)) ELSE inbox[x]
  BY <1>2, <1>3, <1>4
<1>6. m \in Letter /\ Sensible(m, w) /\ m.com \notin {"WRITE", "CKPT"}
  BY Letters DEF Message
<1>7. /\ n \in S /\ Range(alive) \subseteq S /\ node[n].view = alive
  BY <1>1, StableIs
<1>8. \A p \in Nodes : node'[p].conn # "forward"
  BY <1>1
<1>9. ASSUME NEW x \in Nodes, x # n PROVE Data(x, node[x], inbox'[x], disk[x], lb, Z, H, T, T)
  <2> PICK d : d = node[x]
    OBVIOUS
  <2> PICK q : q = inbox[x]
    OBVIOUS
  <2> PICK dk : dk = disk[x]
    OBVIOUS
  <2>1. Data(x, d, q, dk, la, S, H, T, T) /\ Queue(q, w)
    BY <1>1, HistoryFacts
  <2>2. Data(x, d, inbox'[x], dk, la, S, H, T, T)
    <3>1. CASE x \in Range(bl)
      <4>1. bl # <<>>
        BY <1>3, <3>1, ListFacts
      <4>2. News(bl) \in Letter /\ Sensible(News(bl), w) /\ News(bl).com \notin {"WRITE", "CKPT"}
        BY <1>3, <4>1, Letters DEF News, Message
      <4>3. Grown(q, Append(q, News(bl)), News(bl))
        BY <1>2, <2>1, <4>2, AppendFacts
      <4>4. Data(x, d, Append(q, News(bl)), dk, la, S, H, T, T)
        BY <2>1, <4>2, <4>3, DataTold
      <4> QED BY <1>5, <1>9, <3>1, <4>4
    <3>2. CASE x \notin Range(bl)
      BY <1>5, <1>9, <2>1, <3>2
    <3> QED BY <3>1, <3>2
  <2>3. (x \in Z => x \in S) /\ (Left(x, lb, Z) => Left(x, la, S))
    BY <1>1, <1>9 DEF Left
  <2> PICK r : r = inbox'[x]
    OBVIOUS
  <2>4. Data(x, d, r, dk, la, S, H, T, T) /\ SameCache(d, d)
    BY <2>2 DEF SameCache
  <2>5. Data(x, d, r, dk, lb, Z, H, T, T)
    BY <2>3, <2>4, DataFrame
  <2> QED BY <2>5
<1>10. Data(n, node[n], inbox'[n], disk[n], lb, Z, H, T, T)
  <2> PICK d : d = node[n]
    OBVIOUS
  <2> PICK q : q = inbox[n]
    OBVIOUS
  <2> PICK dk : dk = disk[n]
    OBVIOUS
  <2> PICK r : r = Append(q, m)
    OBVIOUS
  <2>1. Data(n, d, q, dk, la, S, H, T, T) /\ Queue(q, w)
    BY <1>1, HistoryFacts
  <2>2. Grown(q, r, m)
    BY <1>2, <1>6, <2>1, AppendFacts
  <2>3. Data(n, d, r, dk, la, S, H, T, T)
    BY <1>6, <2>1, <2>2, DataTold
  <2>4. Legacy(n, dk, lb, Z, H, T)
    <3> SUFFICES ASSUME Left(n, lb, Z) PROVE Contents(dk, H, T) /\ Top(dk.log) = T
      BY DEF Legacy
    <3>1. S = {n}
      BY <1>7 DEF Left
    <3>2. alive # <<>> /\ Head(alive) = n
      BY <1>1, <1>2, <1>7, <3>1, ListFacts
    <3>3. Place(n, d, q, dk, alive, la, S) /\ d.main # "down" /\ ~d.killed
      <4>1. In(n, node[n], inbox[n], alive)
        BY <1>2, <1>7, RecoveredIs
      <4> QED BY <4>1, OrderlyFacts DEF In
    <3>4. d.primary
      BY <1>7, <3>2, <3>3 DEF Place, Roles
    <3>5. ~Holds(inbox[n], "WRITE")
      BY <3>3, <3>4 DEF Place, Writes, Holds
    <3>6. Recovered(alive) = {n}
      BY <3>1
    <3> QED BY <3>5, <3>6, LastHolds
  <2>5. Backlog(n, d, r, Z, H, T, T)
    BY <2>3 DEF Data, Backlog
  <2>6. Data(n, d, r, dk, lb, Z, H, T, T)
    BY <2>3, <2>4, <2>5 DEF Data
  <2> QED BY <1>5, <2>6
<1>11. \A x \in Nodes : Data(x, node'[x], inbox'[x], disk[x], lb, Z, H, T, T)
  BY <1>1, <1>9, <1>10
<1>12. Virgin(lb, Z) => Virgin(last, Recovered(alive))
  BY <1>1, <1>7, GroupNone DEF Virgin
<1>13. Z = Recovered(alive)'
  BY DEF LosesStep
<1> QED BY <1>1, <1>8, <1>11, <1>12, <1>13, CalmData

LEMMA InitData ==
    ASSUME Init PROVE OneHistory
<1> DEFINE H == [i \in Nat |-> 0]
<1>1. /\ alive = <<>> /\ last = None /\ sent = 0 /\ acked = 0
      /\ \A n \in Nodes : node[n] = Down /\ inbox[n] = <<>> /\ disk[n] = BlankDisk
  BY DEF Init
<1>2. Recovered(alive) = {}
  BY <1>1, RangeEmpty DEF Recovered
<1>3. Down.main = "down" /\ Down.stage = "no" /\ Down.conn = "idle"
  BY DEF Down, Fresh
<1>4. H \in [Nat -> Nat] /\ \A i \in Nat : H[i] = 0
  OBVIOUS
<1> HIDE DEF H
<1>5. Stale(BlankDisk, H, 0)
  BY <1>4 DEF Stale, BlankDisk, BlankLog, Empty
<1>6. \A n \in Nodes : ~Left(n, last, Recovered(alive))
  BY <1>1, GroupNone DEF Left
<1>7. History(H, 0)
  BY <1>1, <1>3, <1>4 DEF History
<1>8. ASSUME NEW n \in Nodes
      PROVE  Data(n, node[n], inbox[n], disk[n], last, Recovered(alive), H, 0, Limit(n, 0))
  <2>1. Legacy(n, BlankDisk, last, Recovered(alive), H, 0)
    BY <1>6 DEF Legacy
  <2>2. Data(n, Down, inbox[n], BlankDisk, last, Recovered(alive), H, 0, Limit(n, 0))
    BY <1>3, <1>5, <2>1, DataIdle
  <2> QED BY <1>1, <2>2
<1>9. Consistent(H, 0)
  BY <1>7, <1>8 DEF Consistent
<1> QED BY <1>4, <1>9 DEF OneHistory

------------------------------------------------------------------------------
(* Every step.                                                             *)

\* The history H is right after the step, too.
Kept(H, T) == Orderly' /\ Consistent(H, T)'

LEMMA ExitKept ==
    ASSUME Orderly, Basic', NEW H \in [Nat -> Nat], NEW T \in Nat, Consistent(H, T), NEW n \in Nodes,
           n \notin Recovered(alive), Exit(n, disk[n]), sent' = sent, acked' = acked
    PROVE  Kept(H, T)
<1>1. Virgin(last, Recovered(alive)) => disk[n] = BlankDisk
  BY OrderlyFacts DEF Place, Pristine
<1>2. StepSame
  <2> PICK dk : dk = disk[n]
    OBVIOUS
  <2>1. Exit(n, dk) /\ (Virgin(last, Recovered(alive)) => dk = BlankDisk)
    BY <1>1
  <2> QED BY <2>1, ExitOrder
<1>3. Consistent(H, T)'
  BY <1>2, ExitData
<1> QED BY <1>2, <1>3 DEF Kept, StepSame

\* A process that has not recovered.
LEMMA NotIn ==
    ASSUME Orderly, NEW n \in Nodes, node[n].main # "run" \/ node[n].stage # "no" \/ node[n].killed
    PROVE  n \notin Recovered(alive)
<1>1. alive \in Seq(Nodes)
  BY OrderlyFacts
<1> QED BY <1>1, RecoveredIs DEF In

LEMMA RunServerKept ==
    ASSUME Orderly, Basic', NEW H \in [Nat -> Nat], NEW T \in Nat, Consistent(H, T), NEW n \in Nodes,
           RunServer(n)
    PROVE  Kept(H, T)
<1>1. \/ RunsPrimary(n) \/ RunsSecondary(n)
      \/ Exit(n, disk[n]) /\ sent' = sent /\ acked' = acked
  BY DEF RunServer, RunsPrimary, RunsSecondary
<1>2. CASE RunsPrimary(n)
  <2>1. RecoversStep(n) /\ (Virgin(last, Recovered(alive)) \/ Left(n, last, Recovered(alive)))
    BY <1>2, RunsPrimaryOrder DEF RecoversStep
  <2>2. Consistent(H, T)'
    BY <1>2, <2>1, RunsPrimaryData
  <2> QED BY <2>1, <2>2 DEF Kept, RecoversStep
<1>3. CASE RunsSecondary(n)
  <2>1. StepSame
    BY <1>3, RunsSecondaryOrder
  <2>2. Consistent(H, T)'
    BY <1>3, <2>1, RunsSecondaryData
  <2> QED BY <2>1, <2>2 DEF Kept, StepSame
<1>4. CASE Exit(n, disk[n]) /\ sent' = sent /\ acked' = acked
  <2>1. node[n].main # "run"
    BY DEF RunServer
  <2> QED BY <1>4, <2>1, NotIn, ExitKept
<1> QED BY <1>1, <1>2, <1>3, <1>4

LEMMA AskKept ==
    ASSUME Orderly, Basic', NEW H \in [Nat -> Nat], NEW T \in Nat, Consistent(H, T), NEW n \in Nodes,
           Ask(n)
    PROVE  Kept(H, T)
<1>1. AskSync(n) \/ (Exit(n, disk[n]) /\ sent' = sent /\ acked' = acked)
  BY DEF Ask, AskSync
<1>2. CASE AskSync(n)
  <2>1. StepSame
    BY <1>2, AskSyncOrder
  <2>2. Consistent(H, T)'
    BY <1>2, <2>1, AskSyncData
  <2> QED BY <2>1, <2>2 DEF Kept, StepSame
<1>3. CASE Exit(n, disk[n]) /\ sent' = sent /\ acked' = acked
  <2>1. node[n].stage # "no"
    BY DEF Ask
  <2> QED BY <1>3, <2>1, NotIn, ExitKept
<1> QED BY <1>1, <1>2, <1>3

\* What a node that asked its primary ends up with, and from which stage.
Ends(n, dk) ==
    \/ /\ node[n].stage = "log" /\ ~NeedFullSync(disk[n].log, node[n].link.log)
       /\ dk = [disk[n] EXCEPT !.log = node[n].link.log]
    \/ node[n].stage = "full" /\ dk = node[n].link

LEMMA EndsIs ==
    ASSUME Orderly, NEW H \in [Nat -> Nat], NEW T \in Nat, Consistent(H, T), NEW n \in Nodes,
           node[n].link # None, NEW dk, Ends(n, dk)
    PROVE  /\ dk \in DiskType /\ Contents(dk, H, T) /\ Top(dk.log) = T /\ Replayable(dk.log)
           /\ node[n].stage \in {"log", "full"}
<1> PICK d : d = node[n]
  OBVIOUS
<1> PICK own : own = disk[n]
  OBVIOUS
<1> PICK lim : lim = Limit(n, T)
  OBVIOUS
<1> PICK q : q = inbox[n]
  OBVIOUS
<1> PICK la : la = last
  OBVIOUS
<1> PICK S : S = Recovered(alive)
  OBVIOUS
<1>1. /\ Data(n, d, q, own, la, S, H, T, lim)
      /\ Proc(d, sent) /\ own \in DiskType /\ d.link # None
  BY HistoryFacts
<1>2. CASE d.stage = "log" /\ ~NeedFullSync(own.log, d.link.log) /\ dk = [own EXCEPT !.log = d.link.log]
  <2>1. d.link.log \in LogType
    BY <1>1, <1>2 DEF Proc
  <2>2. dk \in DiskType
    BY <1>1, <1>2, <2>1 DEF DiskType
  <2>3. dk.log = d.link.log /\ dk.base = own.base
    BY <1>1, <1>2 DEF DiskType
  <2>4. /\ Replays(d.link.log, H) /\ Top(d.link.log) = T
        /\ own.log.state # "bare" /\ ~(d.link.log.ckpt > own.log.ckpt)
    BY <1>1, <1>2 DEF Data, Copy, NeedFullSync
  <2>5. PICK b \in Nat : own.log.ckpt <= b /\ b <= T /\ own.base = H[b]
    BY <1>1 DEF Data, Stale
  <2>6. own.log.ckpt \in Nat /\ d.link.log.ckpt \in Nat
    BY <1>1, <2>1 DEF DiskType, LogType
  <2>7. dk.log.ckpt <= b /\ b <= T /\ b <= Top(dk.log) /\ dk.base = H[b]
    BY <2>3, <2>4, <2>5, <2>6
  <2>8. Contents(dk, H, T) /\ Top(dk.log) = T
    BY <2>3, <2>4, <2>7 DEF Contents
  <2> QED BY <1>2, <2>2, <2>8 DEF Contents, Replays
<1>3. CASE d.stage = "full" /\ dk = d.link
  <2>1. dk \in DiskType
    BY <1>1, <1>3 DEF Proc
  <2>2. Contents(dk, H, T) /\ Top(dk.log) = T
    BY <1>1, <1>3 DEF Data, Copy
  <2> QED BY <1>3, <2>1, <2>2 DEF Contents, Replays
<1> QED BY <1>2, <1>3 DEF Ends

LEMMA JoinedKept ==
    ASSUME Orderly, Basic', NEW H \in [Nat -> Nat], NEW T \in Nat, Consistent(H, T), NEW n \in Nodes,
           node[n].link # None, NEW dk, Ends(n, dk), Joined(n, dk), sent' = sent, acked' = acked
    PROVE  Kept(H, T) /\ JoinedWell(n, dk)
<1>1. /\ dk \in DiskType /\ Contents(dk, H, T) /\ Top(dk.log) = T /\ Replayable(dk.log)
      /\ node[n].stage \in {"log", "full"}
  BY EndsIs
<1>2. JoinedWell(n, dk)
  BY <1>1 DEF Joined, JoinedWell, Ready
<1>3. RecoversStep(n)
  BY <1>1, <1>2, JoinedWellOrder DEF RecoversStep
<1>4. Consistent(H, T)'
  BY <1>1, <1>2, <1>3, JoinedWellData
<1> QED BY <1>2, <1>3, <1>4 DEF Kept, RecoversStep

LEMMA ReadLogKept ==
    ASSUME Orderly, Basic', NEW H \in [Nat -> Nat], NEW T \in Nat, Consistent(H, T), NEW n \in Nodes,
           ReadLog(n)
    PROVE  /\ Kept(H, T)
           /\ Forgets(n) \/ \E dk : Ends(n, dk) /\ JoinedWell(n, dk) /\ node[n].link # None
<1> PICK dk : dk = [disk[n] EXCEPT !.log = node[n].link.log]
  OBVIOUS
<1>1. /\ node[n].stage = "log" /\ node[n].link # None /\ sent' = sent /\ acked' = acked
      /\ (Joined(n, dk) /\ ~NeedFullSync(disk[n].log, node[n].link.log)) \/ Forgets(n)
  BY DEF ReadLog, Forgets
<1>2. CASE Forgets(n)
  <2>1. StepSame
    BY <1>2, ForgetsOrder
  <2>2. Consistent(H, T)'
    BY <1>2, <2>1, ForgetsData
  <2> QED BY <1>2, <2>1, <2>2 DEF Kept, StepSame
<1>3. CASE Joined(n, dk) /\ ~NeedFullSync(disk[n].log, node[n].link.log)
  <2>1. Ends(n, dk)
    BY <1>1, <1>3 DEF Ends
  <2> QED BY <1>1, <1>3, <2>1, JoinedKept
<1> QED BY <1>1, <1>2, <1>3

LEMMA ReadFilesKept ==
    ASSUME Orderly, Basic', NEW H \in [Nat -> Nat], NEW T \in Nat, Consistent(H, T), NEW n \in Nodes,
           ReadFiles(n)
    PROVE  /\ Kept(H, T)
           /\ \E dk : Ends(n, dk) /\ JoinedWell(n, dk) /\ node[n].link # None
<1> PICK dk : dk = node[n].link
  OBVIOUS
<1>1. node[n].stage = "full" /\ node[n].link # None /\ sent' = sent /\ acked' = acked /\ Joined(n, dk)
  BY DEF ReadFiles
<1>2. Ends(n, dk)
  BY <1>1 DEF Ends
<1> QED BY <1>1, <1>2, JoinedKept

LEMMA SyncBrokenKept ==
    ASSUME Orderly, Basic', NEW H \in [Nat -> Nat], NEW T \in Nat, Consistent(H, T), NEW n \in Nodes,
           SyncBroken(n)
    PROVE  Kept(H, T)
<1>1. node[n].stage # "no" /\ Exit(n, disk[n]) /\ sent' = sent /\ acked' = acked
  BY DEF SyncBroken
<1> QED BY <1>1, NotIn, ExitKept

LEMMA ReceiveKept ==
    ASSUME Orderly, Basic', NEW H \in [Nat -> Nat], NEW T \in Nat, Consistent(H, T), NEW n \in Nodes,
           Receive(n)
    PROVE  Kept(H, T)
<1>1. PICK m : m = Head(inbox[n])
  OBVIOUS
<1>2. Reads(n, m)
  BY <1>1 DEF Receive, Reads
<1>3. \/ Cluster(n, m) \/ Restarted(n, m) \/ Killed(n, m) \/ Forwarded(n, m)
      \/ CheckpointSecondary(n, m) \/ PrimarySyncSecondary(n, m) \/ Ignored(n, m)
  BY <1>1 DEF Receive
<1>4. CASE Cluster(n, m)
  <2>1. StepSame
    BY <1>2, <1>4, ClusterOrder
  <2>2. Consistent(H, T)'
    BY <1>2, <1>4, <2>1, ClusterData
  <2> QED BY <2>1, <2>2 DEF Kept, StepSame
<1>5. CASE Killed(n, m)
  <2>1. StepSame
    BY <1>2, <1>5, KilledOrder
  <2>2. Consistent(H, T)'
    BY <1>2, <1>5, <2>1, KilledData
  <2> QED BY <2>1, <2>2 DEF Kept, StepSame
<1>6. CASE Forwarded(n, m)
  <2>1. StepSame
    BY <1>2, <1>6, ForwardedOrder
  <2>2. Consistent(H, T)'
    BY <1>2, <1>6, <2>1, ForwardedData
  <2> QED BY <2>1, <2>2 DEF Kept, StepSame
<1>7. CASE CheckpointSecondary(n, m)
  <2>1. StepSame
    BY <1>2, <1>7, CheckpointSecondaryOrder
  <2>2. Consistent(H, T)'
    BY <1>2, <1>7, <2>1, CheckpointSecondaryData
  <2> QED BY <2>1, <2>2 DEF Kept, StepSame
<1>8. CASE Ignored(n, m)
  <2>1. StepSame
    BY <1>2, <1>8, IgnoredOrder
  <2>2. Consistent(H, T)'
    BY <1>2, <1>8, <2>1, IgnoredData
  <2> QED BY <2>1, <2>2 DEF Kept, StepSame
<1>9. CASE Restarted(n, m)
  <2>1. \/ RestartedPrimary(n, m) \/ RestartedSecondary(n, m)
        \/ Exit(n, disk[n]) /\ node[n].killed /\ sent' = sent /\ acked' = acked
    BY <1>9 DEF Restarted, RestartedPrimary, RestartedSecondary
  <2>2. CASE RestartedPrimary(n, m)
    <3>1. RecoversStep(n) /\ Left(n, last, Recovered(alive))
      BY <1>2, <2>2, RestartedPrimaryOrder DEF RecoversStep
    <3>2. Consistent(H, T)'
      BY <1>2, <2>2, <3>1, RestartedPrimaryData
    <3> QED BY <3>1, <3>2 DEF Kept, RecoversStep
  <2>3. CASE RestartedSecondary(n, m)
    <3>1. StepSame
      BY <1>2, <2>3, RestartedSecondaryOrder
    <3>2. Consistent(H, T)'
      BY <1>2, <2>3, <3>1, RestartedSecondaryData
    <3> QED BY <3>1, <3>2 DEF Kept, StepSame
  <2>4. CASE Exit(n, disk[n]) /\ node[n].killed /\ sent' = sent /\ acked' = acked
    BY <2>4, NotIn, ExitKept
  <2> QED BY <2>1, <2>2, <2>3, <2>4
<1>10. CASE PrimarySyncSecondary(n, m)
  <2>1. \/ SyncStarts(n, m)
        \/ Exit(n, disk[n]) /\ disk[n].log.state = "absent" /\ sent' = sent /\ acked' = acked
    BY <1>10 DEF PrimarySyncSecondary, SyncStarts
  <2>2. CASE SyncStarts(n, m)
    <3>1. StepSame
      BY <1>2, <2>2, SyncStartsOrder
    <3>2. Consistent(H, T)'
      BY <1>2, <2>2, <3>1, SyncStartsData
    <3> QED BY <3>1, <3>2 DEF Kept, StepSame
  <2>3. CASE Exit(n, disk[n]) /\ disk[n].log.state = "absent" /\ sent' = sent /\ acked' = acked
    <3>1. node[n].main # "run" \/ node[n].stage # "no"
      <4>1. Memory(node[n], disk[n], H, T, Limit(n, T))
        BY HistoryFacts DEF Data
      <4> QED BY <2>3, <4>1 DEF Memory, Contents, Replays, Replayable
    <3> QED BY <2>3, <3>1, NotIn, ExitKept
  <2> QED BY <2>1, <2>2, <2>3
<1> QED BY <1>3, <1>4, <1>5, <1>6, <1>7, <1>8, <1>9, <1>10

LEMMA HistoryGoesOn ==
    ASSUME Orderly', NEW H \in [Nat -> Nat], NEW T \in Nat, Consistent(H, T)'
    PROVE  GroupInv'
BY DEF GroupInv, OneHistory

LEMMA KeptIs ==
    ASSUME NEW H \in [Nat -> Nat], NEW T \in Nat, Kept(H, T)
    PROVE  GroupInv'
BY HistoryGoesOn DEF Kept

LEMMA ConnectionStep ==
    ASSUME Orderly, Basic', NEW H \in [Nat -> Nat], NEW T \in Nat, Consistent(H, T), NEW n \in Nodes,
           Connection(n)
    PROVE  GroupInv'
<1>1. CASE Receive(n)
  BY <1>1, ReceiveKept, KeptIs
<1>2. CASE ForwardOne(n)
  <2>1. StepSame
    BY <1>2, ForwardOneOrder
  <2>2. Consistent(H, T)'
    <3>1. node[n].conn = "forward" \/ node[n].conn = "ckpt"
      BY <1>2 DEF ForwardOne
    <3> QED BY <1>2, <2>1, <3>1, ForwardsWriteData, TellsCheckpointData
  <2> QED BY <2>1, <2>2, HistoryGoesOn DEF StepSame
<1>3. CASE ApplyWrite(n)
  <2>1. StepSame
    BY <1>3, ApplyWriteOrder
  <2>2. PICK U \in Nat : U = T + 1
    OBVIOUS
  <2>3. Consistent(H, T + 1)'
    BY <1>3, <2>1, ApplyWriteData
  <2>4. Consistent(H, U)'
    BY <2>2, <2>3
  <2> QED BY <2>1, <2>4, HistoryGoesOn DEF StepSame
<1>4. CASE Checkpoint(n)
  <2>1. StepSame
    BY <1>4, CheckpointOrder
  <2>2. Consistent(H, T)'
    BY <1>4, <2>1, CheckpointData
  <2> QED BY <2>1, <2>2, HistoryGoesOn DEF StepSame
<1>5. CASE SendFiles(n)
  <2>1. StepSame
    BY <1>5, SendFilesOrder
  <2>2. Consistent(H, T)'
    BY <1>5, <2>1, SendFilesData
  <2> QED BY <2>1, <2>2, HistoryGoesOn DEF StepSame
<1>6. CASE EndServe(n)
  <2>1. StepSame
    BY <1>6, EndServeOrder
  <2>2. Consistent(H, T)'
    BY <1>6, <2>1, EndServeData
  <2> QED BY <2>1, <2>2, HistoryGoesOn DEF StepSame
<1> QED BY <1>1, <1>2, <1>3, <1>4, <1>5, <1>6 DEF Connection

LEMMA RecoveryStep ==
    ASSUME Orderly, Basic', NEW H \in [Nat -> Nat], NEW T \in Nat, Consistent(H, T), NEW n \in Nodes,
           Recovery(n)
    PROVE  GroupInv'
<1>1. Kept(H, T)
  BY RunServerKept, AskKept, ReadLogKept, ReadFilesKept, SyncBrokenKept DEF Recovery
<1> QED BY <1>1, KeptIs

LEMMA MasterStep ==
    ASSUME Hazards = {}, Orderly, Basic', NEW H \in [Nat -> Nat], NEW T \in Nat, Consistent(H, T),
           NEW n \in Nodes, Start(n) \/ Crash(n) \/ Kill(n) \/ Restart(n)
    PROVE  GroupInv'
<1>1. /\ {"takeover", "overlap"} \cap Hazards = {} /\ {"takeover", "partial", "backlog"} \cap Hazards = {}
      /\ "takeover" \notin Hazards /\ "killBusy" \notin Hazards
  OBVIOUS
<1>2. CASE Start(n)
  <2>1. StepSame
    BY <1>1, <1>2, StartOrder
  <2>2. Consistent(H, T)'
    BY <1>1, <1>2, <2>1, StartData
  <2> QED BY <2>1, <2>2, HistoryGoesOn DEF StepSame
<1>3. CASE Restart(n)
  <2>1. StepSame
    BY <1>1, <1>3, RestartOrder
  <2>2. Consistent(H, T)'
    BY <1>1, <1>3, <2>1, RestartData
  <2> QED BY <2>1, <2>2, HistoryGoesOn DEF StepSame
<1>4. CASE Kill(n)
  <2>1. LosesStep(n)
    BY <1>1, <1>4, KillOrder DEF LosesStep
  <2>2. Consistent(H, T)'
    BY <1>1, <1>4, <2>1, KillData
  <2> QED BY <2>1, <2>2, HistoryGoesOn DEF LosesStep
<1>5. CASE Crash(n)
  <2>1. LosesStep(n)
    BY <1>1, <1>5, CrashOrder DEF LosesStep
  <2>2. PICK U \in Nat : Consistent(H, U)'
    BY <1>1, <1>5, <2>1, CrashData
  <2> QED BY <2>1, <2>2, HistoryGoesOn DEF LosesStep
<1> QED BY <1>2, <1>3, <1>4, <1>5

LEMMA ClientStep ==
    ASSUME Hazards = {}, Orderly, Basic', NEW H \in [Nat -> Nat], NEW T \in Nat, Consistent(H, T),
           NEW n \in Nodes, ClientWrite(n) \/ ClientRead(n)
    PROVE  GroupInv'
<1>1. CASE ClientWrite(n)
  <2>1. "overlap" \notin Hazards /\ {"overlap", "stale"} \cap Hazards = {}
    OBVIOUS
  <2>2. StepSame
    BY <1>1, <2>1, ClientWriteOrder
  <2>3. PICK G \in [Nat -> Nat] : Consistent(G, T)'
    BY <1>1, <2>1, <2>2, ClientWriteData
  <2> QED BY <2>2, <2>3, HistoryGoesOn DEF StepSame
<1>2. CASE ClientRead(n)
  <2>1. StepSame
    BY <1>2, ClientReadOrder
  <2>2. Consistent(H, T)'
    BY <1>2, <2>1, ClientReadData
  <2> QED BY <2>1, <2>2, HistoryGoesOn DEF StepSame
<1> QED BY <1>1, <1>2

LEMMA GroupStep == ASSUME Hazards = {}, GroupInv, [Next]_vars PROVE GroupInv'
<1>1. PICK H \in [Nat -> Nat], T \in Nat : Consistent(H, T)
  BY DEF GroupInv, OneHistory
<1>2. Orderly /\ Basic
  BY DEF GroupInv, Orderly
<1>3. Basic'
  <2>1. "killBusy" \notin Hazards
    OBVIOUS
  <2> QED BY <1>2, <2>1, BasicStep
<1>4. CASE UNCHANGED vars
  <2>1. /\ alive' = alive /\ last' = last /\ inbox' = inbox /\ node' = node /\ disk' = disk
        /\ sent' = sent /\ acked' = acked
    BY <1>4 DEF vars
  <2>2. Recovered(alive)' = Recovered(alive)
    BY <2>1 DEF Recovered, Up, Joining, Pending
  <2>3. Orderly'
    <3>1. Reaches(alive)'
      BY <1>2, <2>1 DEF Orderly, Reaches
    <3>2. Distinct(alive)'
      BY <1>2, <2>1 DEF Orderly
    <3>3. \A n \in Nodes : Place(n, node'[n], inbox'[n], disk'[n], alive', last', Recovered(alive)')
      BY <1>2, <2>1, <2>2 DEF Orderly
    <3> QED BY <1>3, <3>1, <3>2, <3>3 DEF Orderly
  <2>4. \A n \in Nodes : Limit(n, T)' = Limit(n, T)
    BY <2>1, <2>2 DEF Limit, Ahead
  <2>5. History(H, T)'
    BY <1>1, <2>1, <2>2 DEF Consistent, History
  <2>6. \A n \in Nodes : Data(n, node'[n], inbox'[n], disk'[n], last', Recovered(alive)', H, T, Limit(n, T)')
    BY <1>1, <2>1, <2>2, <2>4 DEF Consistent
  <2>7. Consistent(H, T)'
    BY <2>5, <2>6 DEF Consistent
  <2> QED BY <2>3, <2>7, HistoryGoesOn
<1>5. CASE Next
  <2>1. PICK n \in Nodes :
        \/ Start(n) \/ Crash(n) \/ Kill(n) \/ Restart(n)
        \/ ClientWrite(n) \/ ClientRead(n)
        \/ Recovery(n) \/ Connection(n)
    BY <1>5 DEF Next
  <2> QED BY <1>1, <1>2, <1>3, <2>1, MasterStep, ClientStep, RecoveryStep, ConnectionStep
<1> QED BY <1>4, <1>5

\* Without the situations of Hazards every reachable state of a group comes
\* from one history of writes: member for member, what a node has applied and
\* logged, copied or not yet read is the piece of it that its place in the
\* group allows (forward_to_secondary, SecondaryRecoverFromPrimary, RunServer).
THEOREM GroupHistory == ASSUME Hazards = {} PROVE Spec => []GroupInv
<1>1. Init => GroupInv
  BY InitOrder, InitData DEF GroupInv
<1>2. GroupInv /\ [Next]_vars => GroupInv'
  BY GroupStep
<1> QED BY <1>1, <1>2, PTL DEF Spec

------------------------------------------------------------------------------
(* What the history says of the tables.                                    *)

LEMMA SettledHolds ==
    ASSUME Orderly, NEW H \in [Nat -> Nat], NEW T \in Nat, Consistent(H, T), Settled,
           NEW n \in Nodes, n \in Range(alive)
    PROVE  /\ Table(n) = H[T] /\ node[n].seq = T
           /\ Contents(disk[n], H, T) /\ Top(disk[n].log) = T /\ disk[n] \in DiskType
<1>1. /\ Stable /\ inbox[n] = <<>>
      /\ \A x \in Nodes : x \in Range(alive) => node[x].conn = "idle"
  BY DEF Settled
<1>2. n \in Recovered(alive) /\ node[n].main = "run" /\ node[n].stage = "no" /\ ~node[n].killed
  BY <1>1, StableIs
<1>3. \A p \in Nodes : node[p].conn # "forward"
  <2> SUFFICES ASSUME NEW p \in Nodes, node[p].conn = "forward" PROVE FALSE
    OBVIOUS
  <2>1. p \in Range(alive)
    BY OneForwards
  <2> QED BY <1>1, <2>1
<1>4. /\ Data(n, node[n], inbox[n], disk[n], last, Recovered(alive), H, T, T)
      /\ node[n].seq \in Nat /\ disk[n] \in DiskType
  BY <1>3, HistoryFacts
<1>5. Memory(node[n], disk[n], H, T, T) /\ Backlog(n, node[n], inbox[n], Recovered(alive), H, T, T)
  BY <1>4 DEF Data
<1>6. node[n].seq = T
  <2>1. ~Holds(inbox[n], "WRITE")
    BY <1>1 DEF Holds
  <2> QED BY <1>2, <1>4, <1>5, <2>1, BacklogNone
<1>7. Table(n) = H[T]
  BY <1>2, <1>4, <1>5, <1>6, MemoryValue DEF Table
<1>8. Contents(disk[n], H, T) /\ node[n].seq = Top(disk[n].log)
  BY <1>2, <1>5 DEF Memory
<1> QED BY <1>4, <1>6, <1>7, <1>8

\* Replaying a log over the chunk files it belongs to gives the history's end.
LEMMA ReplayedHolds ==
    ASSUME NEW dk \in DiskType, NEW H, NEW T \in Nat, Contents(dk, H, T), Top(dk.log) = T,
           NEW e, e.seq = T, e.update = LastOf(dk.log)
    PROVE  Value(e, dk) = H[T]
<1>1. PICK d : d = [main |-> "run", stage |-> "no", seq |-> T, update |-> LastOf(dk.log)]
  OBVIOUS
<1>2. d.main = "run" /\ d.stage = "no" /\ d.seq = T /\ d.update = LastOf(dk.log)
  BY <1>1
<1> HIDE <1>1
<1>3. Memory(d, dk, H, T, T)
  <2>1. d.seq = Top(dk.log) /\ Top(dk.log) <= T
    BY <1>2
  <2> QED BY <1>2, <2>1, MemoryReplayed
<1>4. Value(d, dk) = H[T]
  BY <1>2, <1>3, MemoryValue
<1> QED BY <1>2, <1>4 DEF Value

LEMMA GroupAgreesHolds == ASSUME GroupInv PROVE GroupAgrees
<1> SUFFICES ASSUME Settled, NEW n \in Range(alive), NEW m \in Range(alive)
             PROVE  /\ Table(n) = Table(m) /\ node[n].seq = node[m].seq
                    /\ Replayable(disk[n].log)
                    /\ Value(Replayed(Fresh, disk[n].log), disk[n]) = Table(n)
                    /\ Replayed(Fresh, disk[n].log).seq = node[n].seq
  BY DEF GroupAgrees
<1>1. PICK H \in [Nat -> Nat], T \in Nat : Consistent(H, T)
  BY DEF GroupInv, OneHistory
<1>2. Orderly /\ Basic
  BY DEF GroupInv, Orderly
<1>3. n \in Nodes /\ m \in Nodes
  <2>1. alive \in Seq(Nodes)
    BY <1>2, BasicScalars
  <2> QED BY <2>1, ListFacts
<1>4. /\ Table(n) = H[T] /\ node[n].seq = T /\ Contents(disk[n], H, T) /\ Top(disk[n].log) = T
      /\ disk[n] \in DiskType
  BY <1>1, <1>2, <1>3, SettledHolds
<1>5. Table(m) = H[T] /\ node[m].seq = T
  BY <1>1, <1>2, <1>3, SettledHolds
<1> PICK dk : dk = disk[n]
  OBVIOUS
<1> PICK e : e = Replayed(Fresh, dk.log)
  OBVIOUS
<1>6. e.seq = Top(dk.log) /\ e.update = LastOf(dk.log)
  <2>1. dk.log \in LogType
    BY <1>4 DEF DiskType
  <2>2. /\ Replayed(Fresh, dk.log).seq = dk.log.ckpt + Len(dk.log.ents)
        /\ Replayed(Fresh, dk.log).update =
              IF dk.log.ents = <<>> THEN None ELSE dk.log.ents[Len(dk.log.ents)].val
    BY <2>1, DownProc, ReplayedIs
  <2> QED BY <2>2 DEF Top, LastOf
<1>7. Value(e, dk) = H[T] /\ e.seq = T
  BY <1>4, <1>6, ReplayedHolds
<1>8. Replayable(dk.log)
  BY <1>4 DEF Contents, Replays
<1> QED BY <1>4, <1>5, <1>7, <1>8

LEMMA AckedKeptHolds == ASSUME GroupInv PROVE AckedKept
<1> SUFFICES ASSUME NEW n \in Nodes, Serves(n), alive # <<>>, n = Head(alive), inbox[n] = <<>>
             PROVE  Table(n) >= acked
  BY DEF AckedKept
<1>1. PICK H \in [Nat -> Nat], T \in Nat : Consistent(H, T)
  BY DEF GroupInv, OneHistory
<1>2. Orderly /\ Basic /\ alive \in Seq(Nodes)
  BY OrderlyFacts DEF GroupInv
<1>3. node[n].main = "run" /\ node[n].conn = "idle" /\ node[n].primary /\ ~node[n].killed
  BY DEF Serves
<1>4. node[n].stage = "no"
  BY <1>2, <1>3, BasicFacts DEF Shape, Stages
<1>5. n \in Range(alive) /\ ~Holds(inbox[n], "KILL")
  <2>1. Head(alive) \in Range(alive)
    BY <1>2, ListFacts
  <2> QED BY <2>1 DEF Holds
<1>6. n \in Recovered(alive) /\ IsFirst(n, alive)
  <2>1. In(n, node[n], inbox[n], alive)
    BY <1>3, <1>4, <1>5 DEF In
  <2> QED BY <1>2, <2>1, RecoveredIs DEF IsFirst
<1>7. Table(n) = H[T]
  <2>1. node[n].conn # "forward" /\ ~Holds(inbox[n], "WRITE")
    BY <1>3 DEF Holds
  <2> QED BY <1>1, <1>2, <1>3, <1>6, <2>1, FirstHolds
<1>8. acked <= H[T] /\ acked \in Nat /\ H[T] \in Nat
  BY <1>1, <1>2, BasicFacts DEF Consistent, History
<1> QED BY <1>7, <1>8

\* Once everything sent has been handled, the members of a group agree, in
\* memory and on disk (forward_to_secondary, SecondaryRecoverFromPrimary).
THEOREM GroupConverges == ASSUME Hazards = {} PROVE Spec => []GroupAgrees
<1>1. GroupInv => GroupAgrees
  BY GroupAgreesHolds
<1> QED BY <1>1, GroupHistory, PTL

\* No write that was answered FINISHED is lost by a primary that has read its
\* messages, whichever nodes crashed, took over or were copied to before.
THEOREM GroupKeepsAcked == ASSUME Hazards = {} PROVE Spec => []AckedKept
<1>1. GroupInv => AckedKept
  BY AckedKeptHolds
<1> QED BY <1>1, GroupHistory, PTL

------------------------------------------------------------------------------
(* What a node copies comes from the primary, until it has read it.        *)

Hosted == \A n \in Nodes : node[n].link # None /\ node[n].peer # None => node[node[n].peer].primary

\* n is through with its SYNC.
Through(n) == \E dk : Ends(n, dk) /\ JoinedWell(n, dk) /\ node[n].link # None

Syncs ==
    /\ Hosted => Hosted'
    /\ \A n \in Nodes : node[n].stage \in {"log", "full"} /\ node'[n].main = "run" /\ node'[n].stage = "no"
                        => Through(n)

\* A process stays where it is in a SYNC, or asks for one.
Calm(e, d) ==
    /\ e.link # None => e.link = d.link /\ e.peer \in {d.peer, None}
    /\ d.stage \in {"log", "full"} => e.stage # "no"
    /\ d.primary => e.primary

LEMMA PeerIs ==
    ASSUME Basic, NEW n \in Nodes
    PROVE  /\ node[n].peer \in Nodes \cup {None}
           /\ node[n].link # None => node[n].stage \in {"log", "full"}
<1>1. Proc(node[n], sent)
  BY BasicFacts
<1> QED BY <1>1, FieldTypes DEF Proc

LEMMA AllCalm ==
    ASSUME Basic, \A x \in Nodes : Calm(node'[x], node[x])
    PROVE  Syncs
<1>1. ASSUME Hosted, NEW x \in Nodes, node'[x].link # None, node'[x].peer # None
      PROVE  node'[node'[x].peer].primary
  <2>1. node[x].link # None /\ node'[x].peer = node[x].peer
    BY <1>1 DEF Calm
  <2>2. node[x].peer \in Nodes /\ node[node[x].peer].primary
    BY <1>1, <2>1, PeerIs DEF Hosted
  <2> QED BY <2>1, <2>2 DEF Calm
<1>2. Hosted => Hosted'
  BY <1>1 DEF Hosted
<1> QED BY <1>2 DEF Syncs, Calm

LEMMA OneCalm ==
    ASSUME Basic, NEW n \in Nodes, NEW e, node' = [node EXCEPT ![n] = e], Calm(e, node[n])
    PROVE  Syncs
<1>1. DOMAIN node = Nodes
  BY BasicScalars
<1>2. node'[n] = e /\ \A x \in Nodes : x # n => node'[x] = node[x]
  BY <1>1
<1>3. \A x \in Nodes : Calm(node[x], node[x])
  BY DEF Calm
<1>4. \A x \in Nodes : Calm(node'[x], node[x])
  BY <1>2, <1>3
<1> QED BY <1>4, AllCalm

LEMMA SameCalm ==
    ASSUME NEW e, NEW d, SameSync(e, d), d.primary => e.primary
    PROVE  Calm(e, d)
BY DEF Calm, SameSync

LEMMA EndCalm ==
    ASSUME Basic, NEW n \in Nodes, NEW nd, NEW w, Proc(nd, w), SameSync(nd, node[n]), node[n].primary => nd.primary,
           NEW dk, EndMessage(n, nd, dk)
    PROVE  Syncs
<1>1. PICK e : Ended(n, e, nd) /\ node' = [node EXCEPT ![n] = e]
  BY EndMessageIs
<1>2. SameSync(e, node[n]) /\ (node[n].primary => e.primary)
  BY <1>1 DEF Ended, SameSync, SameRole
<1> QED BY <1>1, <1>2, SameCalm, OneCalm

LEMMA DieCalm ==
    ASSUME Basic, NEW n \in Nodes, Die(n, node)
    PROVE  Syncs
<1>1. /\ node'[n] = Down /\ \A x \in Nodes : x # n => node'[x] = Parted(node[x], n)
  BY DieIs DEF DieEffect
<1>2. Down.main = "down" /\ Down.link = None
  BY DEF Down, Fresh
<1>3. ASSUME NEW x \in Nodes, x # n
      PROVE  /\ node'[x].link = node[x].link /\ node'[x].stage = node[x].stage
             /\ node'[x].peer = (IF node[x].peer = n /\ node[x].stage # "ask" THEN None ELSE node[x].peer)
             /\ node'[x].primary = node[x].primary
  <2> PICK d : d = node[x]
    OBVIOUS
  <2>1. Proc(d, sent)
    BY BasicFacts
  <2>2. /\ Parted(d, n).link = d.link /\ Parted(d, n).stage = d.stage /\ SameRole(Parted(d, n), d)
        /\ Parted(d, n).peer = (IF d.peer = n /\ d.stage # "ask" THEN None ELSE d.peer)
    BY <2>1, PartedIs
  <2> QED BY <1>1, <1>3, <2>2 DEF SameRole
<1>4. ASSUME Hosted, NEW x \in Nodes, node'[x].link # None, node'[x].peer # None
      PROVE  node'[node'[x].peer].primary
  <2>1. x # n
    BY <1>1, <1>2, <1>4
  <2>2. node[x].link # None /\ node[x].stage \in {"log", "full"} /\ node[x].peer \in Nodes \cup {None}
    BY <1>3, <1>4, <2>1, PeerIs
  <2>3. node'[x].peer = node[x].peer /\ node[x].peer # n /\ node[x].peer \in Nodes
    BY <1>3, <1>4, <2>1, <2>2
  <2>4. node[node[x].peer].primary
    BY <1>4, <2>2, <2>3, GroupNone DEF Hosted
  <2> QED BY <1>3, <2>3, <2>4
<1>5. Hosted => Hosted'
  BY <1>4 DEF Hosted
<1>6. \A x \in Nodes : node[x].stage \in {"log", "full"} /\ node'[x].main = "run" => node'[x].stage # "no"
  BY <1>1, <1>2, <1>3
<1> QED BY <1>5, <1>6 DEF Syncs

LEMMA KilledSyncs ==
    ASSUME Orderly, NEW n \in Nodes, NEW m, Reads(n, m), Killed(n, m)
    PROVE  Syncs
<1> PICK w : w = sent
  OBVIOUS
<1> PICK d : d = node[n]
  OBVIOUS
<1> PICK nd : nd = [d EXCEPT !.killed = TRUE, !.primary = FALSE]
  OBVIOUS
<1>0. Basic
  BY DEF Orderly
<1>1. m.com = "KILL" /\ EndMessage(n, nd, disk[n]) /\ Proc(d, w)
  BY <1>0, BasicFacts DEF Killed
<1>2. nd \in Process /\ SameSync(nd, d) /\ SameWork(nd, d)
  BY ONLY ZenonT(60), nd = [d EXCEPT !.killed = TRUE, !.primary = FALSE], <1>1
     DEF Proc, Process, SameSync, SameWork
<1>3. Proc(nd, w)
  BY <1>1, <1>2 DEF Proc, SameSync, SameWork
<1>4. PICK e : Ended(n, e, nd) /\ node' = [node EXCEPT ![n] = e]
  BY <1>1, <1>3, EndMessageIs
<1>5. DOMAIN node = Nodes
  BY <1>0, BasicScalars
<1>6. node'[n] = e /\ SameSync(e, node[n]) /\ \A x \in Nodes : x # n => node'[x] = node[x]
  BY <1>2, <1>4, <1>5 DEF Ended, SameSync
<1>7. \A x \in Nodes : node[x].link # None => node[x].peer # n
  <2>1. n \notin Recovered(alive)
    <3>1. Holds(inbox[n], "KILL")
      BY <1>1, ReadHead DEF Holds
    <3>2. alive \in Seq(Nodes)
      BY OrderlyFacts
    <3> QED BY <3>1, <3>2, RecoveredIs DEF In
  <2>2. \A x \in Nodes : Linked(node[x], alive, Recovered(alive))
    BY OrderlyFacts DEF Place
  <2> QED BY <2>1, <2>2, GroupNone DEF Linked
<1>8. \A x \in Nodes : SameSync(node'[x], node[x])
  BY <1>6, SameProcess
<1>9. ASSUME Hosted, NEW x \in Nodes, node'[x].link # None, node'[x].peer # None
      PROVE  node'[node'[x].peer].primary
  <2>1. node[x].link # None /\ node[x].peer # None /\ node'[x].peer = node[x].peer
    BY <1>8, <1>9 DEF SameSync
  <2>2. node[x].peer \in Nodes /\ node[x].peer # n /\ node[node[x].peer].primary
    BY <1>0, <1>7, <1>9, <2>1, PeerIs DEF Hosted
  <2> QED BY <1>6, <2>1, <2>2
<1>10. Hosted => Hosted'
  BY <1>9 DEF Hosted
<1> QED BY <1>8, <1>10 DEF Syncs, SameSync

\* The primary n gives s something to read.
LEMMA GivesSyncs ==
    ASSUME Basic, NEW n \in Nodes, node[n].primary, NEW s \in Nodes, s # n,
           node[s].peer = n, node'[s].peer = n, node'[s].stage = node[s].stage, node'[s].primary = node[s].primary,
           SameSync(node'[n], node[n]), node'[n].primary,
           \A x \in Nodes : x # n /\ x # s => node'[x] = node[x]
    PROVE  Syncs
<1>1. \A x \in Nodes : node'[x].stage = node[x].stage /\ node'[x].peer = node[x].peer /\ (node[x].primary => node'[x].primary)
  BY DEF SameSync
<1>2. ASSUME Hosted, NEW x \in Nodes, node'[x].link # None, node'[x].peer # None
      PROVE  node'[node'[x].peer].primary
  <2>1. CASE x = s
    BY <2>1
  <2>2. CASE x # s
    <3>1. node'[x].link = node[x].link
      BY <2>2 DEF SameSync
    <3> QED BY <1>1, <1>2, <3>1, PeerIs DEF Hosted
  <2> QED BY <2>1, <2>2
<1>3. Hosted => Hosted'
  BY <1>2 DEF Hosted
<1> QED BY <1>1, <1>3 DEF Syncs

LEMMA SyncStartsSyncs ==
    ASSUME Basic, NEW n \in Nodes, NEW m, Reads(n, m), SyncStarts(n, m)
    PROVE  Syncs
<1> PICK s : s = m.from
  OBVIOUS
<1> PICK w : w = sent
  OBVIOUS
<1> PICK l : l = [log |-> disk[n].log]
  OBVIOUS
<1>1. SyncLink(n, s) /\ node[n].primary
  BY SyncStartsIs DEF SyncStarts
<1>2. /\ s \in Nodes /\ s # n /\ node[s].stage = "log" /\ node[s].peer = n
      /\ node'[n] = ServingOf(node[n], s) /\ node'[s] = [node[s] EXCEPT !.link = l]
      /\ \A x \in Nodes : x # n /\ x # s => node'[x] = node[x]
  BY <1>1 DEF SyncLink, ServingOf
<1>3. /\ SameSync(ServingOf(node[n], s), node[n]) /\ SameRole(ServingOf(node[n], s), node[n])
  <2>1. Proc(node[n], w)
    BY BasicFacts
  <2> QED BY <1>2, <2>1, ServingIs
<1>4. /\ node'[s].peer = n /\ node'[s].stage = node[s].stage /\ node'[s].primary = node[s].primary
  <2> PICK d : d = node[s]
    OBVIOUS
  <2>1. Proc(d, w)
    BY <1>2, BasicFacts
  <2>2. disk[n].log \in LogType
    BY BasicFacts DEF DiskType
  <2>3. /\ SameRole([d EXCEPT !.link = l], d) /\ [d EXCEPT !.link = l].peer = d.peer
        /\ [d EXCEPT !.link = l].stage = d.stage
    BY <1>2, <2>1, <2>2, LinkedIs
  <2> QED BY <1>2, <2>3 DEF SameRole
<1>5. SameSync(node'[n], node[n]) /\ node'[n].primary
  BY <1>1, <1>2, <1>3 DEF SameRole
<1>6. /\ node[n].primary /\ s \in Nodes /\ s # n
      /\ node[s].peer = n /\ node'[s].peer = n /\ node'[s].stage = node[s].stage
      /\ node'[s].primary = node[s].primary
      /\ SameSync(node'[n], node[n]) /\ node'[n].primary
      /\ \A x \in Nodes : x # n /\ x # s => node'[x] = node[x]
  BY <1>1, <1>2, <1>4, <1>5
<1> QED BY ONLY <1>6, Basic, n \in Nodes, GivesSyncs

LEMMA SendFilesSyncs ==
    ASSUME Orderly, NEW n \in Nodes, SendFiles(n)
    PROVE  Syncs
<1> PICK s : s = node[n].serving
  OBVIOUS
<1> PICK w : w = sent
  OBVIOUS
<1> PICK l : l = disk[n]
  OBVIOUS
<1>1. /\ node[n].conn = "serve" /\ s # None /\ node[s].stage = "full" /\ node[s].peer = n
      /\ node' = [node EXCEPT ![s].link = l]
  BY DEF SendFiles
<1>2. Basic /\ DOMAIN node = Nodes /\ l \in DiskType
  BY BasicFacts DEF Orderly
<1>3. s \in Nodes
  BY <1>1, <1>2, BasicFacts, FieldTypes
<1>4. node[n].primary /\ node[n].stage = "no"
  BY <1>1, OrderlyFacts DEF Place, Roles
<1>5. s # n
  BY <1>1, <1>4
<1>6. node'[s] = [node[s] EXCEPT !.link = l] /\ \A x \in Nodes : x # s => node'[x] = node[x]
  BY <1>1, <1>2, <1>3
<1>7. node'[s].peer = n /\ node'[s].stage = node[s].stage /\ node'[s].primary = node[s].primary
  <2> PICK d : d = node[s]
    OBVIOUS
  <2>1. Proc(d, w)
    BY <1>2, <1>3, BasicFacts
  <2>2. /\ SameRole([d EXCEPT !.link = l], d) /\ [d EXCEPT !.link = l].peer = d.peer
        /\ [d EXCEPT !.link = l].stage = d.stage
    BY <1>1, <1>2, <2>1, LinkedIs
  <2> QED BY <1>1, <1>6, <2>2 DEF SameRole
<1>8. SameSync(node'[n], node[n]) /\ node'[n].primary
  BY <1>4, <1>5, <1>6, SameProcess
<1>9. \A x \in Nodes : x # n /\ x # s => node'[x] = node[x]
  BY <1>6
<1> QED BY <1>1, <1>2, <1>3, <1>4, <1>5, <1>7, <1>8, <1>9, GivesSyncs

LEMMA JoinedSyncs ==
    ASSUME Basic, NEW n \in Nodes, NEW dk \in DiskType, Ends(n, dk), JoinedWell(n, dk), node[n].link # None
    PROVE  Syncs
<1> PICK w : w = sent
  OBVIOUS
<1> PICK e : e = Ready(node[n], dk.log)
  OBVIOUS
<1>1. node'[n] = LetGo(e, n) /\ \A x \in Nodes : x # n => node'[x] = LetGo(node[x], n)
  BY JoinedWellIs DEF JoinedEffect
<1>2. Proc(e, w) /\ e.link = None /\ e.primary = node[n].primary
  <2>1. Proc(node[n], w) /\ dk.log \in LogType
    BY BasicFacts DEF DiskType
  <2> QED BY <2>1, ReadyIs
<1>3. node'[n].link = None /\ node'[n].primary = node[n].primary
  BY <1>1, <1>2, LetGoIs DEF SameSync, SameRole
<1>4. \A x \in Nodes : x # n => SameSync(node'[x], node[x]) /\ node'[x].primary = node[x].primary
  <2> SUFFICES ASSUME NEW x \in Nodes, x # n
               PROVE  SameSync(node'[x], node[x]) /\ node'[x].primary = node[x].primary
    OBVIOUS
  <2> PICK d : d = node[x]
    OBVIOUS
  <2>1. Proc(d, w)
    BY BasicFacts
  <2> QED BY <1>1, <2>1, LetGoIs DEF SameRole
<1>5. ASSUME Hosted, NEW x \in Nodes, node'[x].link # None, node'[x].peer # None
      PROVE  node'[node'[x].peer].primary
  <2>1. x # n
    BY <1>3, <1>5
  <2>2. node[x].link # None /\ node[x].peer # None /\ node'[x].peer = node[x].peer
    BY <1>4, <1>5, <2>1 DEF SameSync
  <2>3. node[x].peer \in Nodes /\ node[node[x].peer].primary
    BY <1>5, <2>2, PeerIs DEF Hosted
  <2> QED BY <1>3, <1>4, <2>2, <2>3
<1>6. Hosted => Hosted'
  BY <1>5 DEF Hosted
<1>7. Through(n)
  BY DEF Through
<1>8. \A x \in Nodes : x # n => node'[x].stage = node[x].stage
  BY <1>4 DEF SameSync
<1> QED BY <1>6, <1>7, <1>8 DEF Syncs

LEMMA KeptSync == \A d : SameSync(d, d)
BY DEF SameSync

\* The messages of handle_connect, the reads and writes of the clients.
LEMMA ReceiveSyncs ==
    ASSUME Orderly, NEW n \in Nodes, Receive(n)
    PROVE  Syncs
<1> PICK w : w = sent
  OBVIOUS
<1> PICK d : d = node[n]
  OBVIOUS
<1> PICK own : own = disk[n]
  OBVIOUS
<1>1. PICK m : m = Head(inbox[n])
  OBVIOUS
<1>2. Reads(n, m) /\ Basic /\ Proc(d, w) /\ own \in DiskType
  BY <1>1, BasicFacts DEF Receive, Reads, Orderly
<1>3. \/ Cluster(n, m) \/ Restarted(n, m) \/ Killed(n, m) \/ Forwarded(n, m)
      \/ CheckpointSecondary(n, m) \/ PrimarySyncSecondary(n, m) \/ Ignored(n, m)
  BY <1>1 DEF Receive
<1>4. CASE Cluster(n, m)
  <2> PICK b : b = (d.primary \/ Head(m.list) = n)
    OBVIOUS
  <2> PICK l : l = m.list
    OBVIOUS
  <2> PICK nd : nd = [d EXCEPT !.view = l, !.primary = b]
    OBVIOUS
  <2>1. EndMessage(n, nd, own) /\ l \in Seq(Nodes)
    <3>1. EndMessage(n, [node[n] EXCEPT !.view = m.list, !.primary = @ \/ Head(m.list) = n], disk[n])
      BY <1>4 DEF Cluster
    <3>2. [d EXCEPT !.view = l, !.primary = @ \/ Head(m.list) = n] = nd
      BY <1>2 DEF Proc, Process
    <3> QED BY <1>2, <3>1, <3>2, ReadFacts DEF Letter
  <2>2. b \in BOOLEAN /\ (d.primary => b) /\ d \in Process
    BY <1>2, FieldTypes DEF Proc
  <2>3. nd \in Process /\ SameSync(nd, d) /\ SameWork(nd, d) /\ nd.primary = b
    BY ONLY ZenonT(60), nd = [d EXCEPT !.view = l, !.primary = b], <2>1, <2>2 DEF Process, SameSync, SameWork
  <2>4. Proc(nd, w)
    BY <1>2, <2>3 DEF Proc, SameSync, SameWork
  <2> QED BY <1>2, <2>1, <2>2, <2>3, <2>4, EndCalm
<1>5. CASE Restarted(n, m)
  <2>1. RestartedPrimary(n, m) \/ RestartedSecondary(n, m) \/ Exit(n, disk[n])
    BY <1>5 DEF Restarted, RestartedPrimary, RestartedSecondary
  <2> PICK f : f = Revived(d)
    OBVIOUS
  <2>2. Proc(f, w) /\ SameSync(f, d) /\ f.primary = d.primary
    BY <1>2, RevivedIs
  <2>3. CASE RestartedPrimary(n, m)
    <3>1. PICK nd : nd = Initial(f, own)
      OBVIOUS
    <3>2. EndMessage(n, nd, WithLog(f, own))
      BY <2>3, <3>1 DEF RestartedPrimary, Revived
    <3>3. Proc(nd, w) /\ SameSync(nd, f) /\ nd.primary = f.primary
      BY <1>2, <2>2, <3>1, InitialIs DEF SameRole
    <3>4. SameSync(nd, node[n]) /\ nd.primary = node[n].primary
      BY <2>2, <3>3 DEF SameSync
    <3> QED BY <1>2, <3>2, <3>3, <3>4, EndCalm
  <2>4. CASE RestartedSecondary(n, m)
    <3>1. PICK e : e = [f EXCEPT !.conn = "join", !.stage = "ask", !.peer = Head(f.view)]
      OBVIOUS
    <3>2. node' = [node EXCEPT ![n] = e] /\ ~f.primary
      BY <2>4, <3>1 DEF RestartedSecondary, Revived
    <3>3. d.stage = "no" /\ d.link = None
      BY <1>2, <2>4, RestartFacts DEF RestartedSecondary
    <3>4. f \in Process
      BY <2>2 DEF Proc
    <3>5. e.link = f.link /\ e.stage = "ask" /\ e.primary = f.primary
      BY <3>1, <3>4 DEF Process
    <3>6. Calm(e, node[n])
      BY <2>2, <3>2, <3>3, <3>5 DEF Calm, SameSync
    <3> QED BY <1>2, <3>2, <3>6, OneCalm
  <2>5. CASE Exit(n, disk[n])
    BY <1>2, <2>5, DieCalm DEF Exit
  <2> QED BY <2>1, <2>3, <2>4, <2>5
<1>6. CASE Killed(n, m)
  BY <1>2, <1>6, KilledSyncs
<1>7. CASE Forwarded(n, m)
  <2> PICK x : x = m.write
    OBVIOUS
  <2>1. RunWrite(n, x) /\ m.com = "WRITE"
    BY <1>7 DEF Forwarded
  <2>2. x \in Write
    BY <1>2, <2>1, ReadFacts DEF Sensible
  <2>3. ~d.primary
    <3>1. 1 \in DOMAIN inbox[n] /\ inbox[n][1] = m
      BY <1>2, ReadHead
    <3> QED BY <2>1, <3>1, OrderlyFacts DEF Place, Writes
  <2>4. EndMessage(n, Applied(d, own, x), Logged(d, own, x))
    BY <2>1, <2>3 DEF RunWrite
  <2>5. PICK nd : nd = Applied(d, own, x)
    OBVIOUS
  <2>6. Proc(nd, w) /\ SameSync(nd, node[n])
    BY <1>2, <2>2, <2>5, AppliedIs
  <2> QED BY <1>2, <2>3, <2>4, <2>5, <2>6, EndCalm
<1>8. CASE CheckpointSecondary(n, m)
  <2>1. EndMessage(n, d, Checkpointed(d, own))
    BY <1>8 DEF CheckpointSecondary
  <2> QED BY <1>2, <2>1, KeptSync, EndCalm
<1>9. CASE PrimarySyncSecondary(n, m)
  <2>1. SyncStarts(n, m) \/ Exit(n, disk[n])
    BY <1>9 DEF PrimarySyncSecondary, SyncStarts
  <2> QED BY <1>2, <2>1, SyncStartsSyncs, DieCalm DEF Exit
<1>10. CASE Ignored(n, m)
  <2>1. EndMessage(n, d, own)
    BY <1>10 DEF Ignored
  <2> QED BY <1>2, <2>1, KeptSync, EndCalm
<1> QED BY <1>3, <1>4, <1>5, <1>6, <1>7, <1>8, <1>9, <1>10

LEMMA ConnectionSyncs ==
    ASSUME Orderly, NEW n \in Nodes, Connection(n)
    PROVE  Syncs
<1> PICK w : w = sent
  OBVIOUS
<1> PICK d : d = node[n]
  OBVIOUS
<1> PICK own : own = disk[n]
  OBVIOUS
<1>1. Basic /\ Proc(d, w) /\ own \in DiskType /\ DOMAIN node = Nodes /\ d \in Process
  BY BasicFacts DEF Orderly, Proc
<1>2. CASE ForwardOne(n)
  <2>1. PICK e : e = [d EXCEPT !.todo = Tail(d.todo)]
    OBVIOUS
  <2>2. node' = [node EXCEPT ![n].todo = Tail(@)]
    BY <1>2 DEF ForwardOne
  <2>3. node' = [node EXCEPT ![n] = e]
    BY <1>1, <2>1, <2>2
  <2>4. SameSync(e, d) /\ e.primary = d.primary
    BY <1>1, <2>1 DEF Process, SameSync
  <2> QED BY <1>1, <2>3, <2>4, SameCalm, OneCalm
<1>3. CASE ApplyWrite(n)
  <2>1. PICK x : x = d.cur
    OBVIOUS
  <2>2. x \in Write /\ EndMessage(n, Applied(d, own, x), Logged(d, own, x))
    BY <1>1, <1>3, <2>1 DEF ApplyWrite, Proc
  <2>3. PICK nd : nd = Applied(d, own, x)
    OBVIOUS
  <2>4. Proc(nd, w) /\ SameSync(nd, node[n]) /\ nd.primary = node[n].primary
    <3>1. Proc(d, w) /\ own \in DiskType /\ x \in Write
      BY <1>1, <2>2
    <3>2. /\ Proc(Applied(d, own, x), w) /\ SameSync(Applied(d, own, x), d)
          /\ SameRole(Applied(d, own, x), d)
      BY ONLY <3>1, AppliedIs
    <3> QED BY <2>3, <3>2 DEF SameRole
  <2> QED BY <1>1, <2>2, <2>3, <2>4, EndCalm
<1>4. CASE Checkpoint(n)
  <2>1. PICK e : e = [d EXCEPT !.conn = "idle"]
    OBVIOUS
  <2>2. node' = [node EXCEPT ![n].conn = "idle"]
    BY <1>4 DEF Checkpoint
  <2>3. node' = [node EXCEPT ![n] = e]
    BY <1>1, <2>1, <2>2
  <2>4. SameSync(e, d) /\ e.primary = d.primary
    BY <1>1, <2>1 DEF Process, SameSync
  <2> QED BY <1>1, <2>3, <2>4, SameCalm, OneCalm
<1>5. CASE EndServe(n)
  <2>1. EndMessage(n, d, own)
    BY <1>5 DEF EndServe
  <2> QED BY <1>1, <2>1, KeptSync, EndCalm
<1> QED BY <1>2, <1>3, <1>4, <1>5, ReceiveSyncs, SendFilesSyncs DEF Connection

LEMMA RecoverySyncs ==
    ASSUME Orderly, Basic', NEW H \in [Nat -> Nat], NEW T \in Nat, Consistent(H, T), NEW n \in Nodes, Recovery(n)
    PROVE  Syncs
<1> PICK w : w = sent
  OBVIOUS
<1> PICK d : d = node[n]
  OBVIOUS
<1> PICK own : own = disk[n]
  OBVIOUS
<1>1. /\ Basic /\ Proc(d, w) /\ own \in DiskType /\ DOMAIN node = Nodes /\ d \in Process
      /\ Shape(n, d, inbox[n], Member(n))
  BY BasicFacts DEF Orderly, Proc
<1>2. CASE RunServer(n)
  <2>1. RunsPrimary(n) \/ RunsSecondary(n) \/ Exit(n, disk[n])
    BY <1>2 DEF RunServer, RunsPrimary, RunsSecondary
  <2>2. d.main = "wait" /\ d.stage = "no" /\ d.link = None
    BY <1>1, <1>2 DEF RunServer, Shape, Stages, Proc
  <2>3. CASE RunsPrimary(n)
    <3>1. PICK f : f = Initial(d, own)
      OBVIOUS
    <3>2. PICK e : e = [f EXCEPT !.main = "run"]
      OBVIOUS
    <3>3. node' = [node EXCEPT ![n] = e]
      BY <2>3, <3>1, <3>2 DEF RunsPrimary
    <3>4. Proc(f, w) /\ SameSync(f, d) /\ f.primary = d.primary
      BY <1>1, <3>1, InitialIs DEF SameRole
    <3>5. SameSync(e, f) /\ e.primary = f.primary
      BY <3>2, <3>4 DEF Proc, Process, SameSync
    <3>6. SameSync(e, node[n]) /\ e.primary = node[n].primary
      BY <3>4, <3>5 DEF SameSync
    <3> QED BY <1>1, <3>3, <3>6, SameCalm, OneCalm
  <2>4. CASE RunsSecondary(n)
    <3>1. PICK e : e = [d EXCEPT !.main = "join", !.stage = "ask", !.peer = Head(d.view)]
      OBVIOUS
    <3>2. node' = [node EXCEPT ![n].main = "join", ![n].stage = "ask", ![n].peer = Head(d.view)]
      BY <2>4 DEF RunsSecondary
    <3>3. node' = [node EXCEPT ![n] = e]
      BY <1>1, <3>1, <3>2
    <3>4. e.link = d.link /\ e.stage = "ask" /\ e.primary = d.primary
      BY <1>1, <3>1 DEF Process
    <3>5. Calm(e, node[n])
      BY <2>2, <3>4 DEF Calm
    <3> QED BY <1>1, <3>3, <3>5, OneCalm
  <2>5. CASE Exit(n, disk[n])
    BY <1>1, <2>5, DieCalm DEF Exit
  <2> QED BY <2>1, <2>3, <2>4, <2>5
<1>3. CASE Ask(n)
  <2>1. AskSync(n) \/ Exit(n, disk[n])
    BY <1>3 DEF Ask, AskSync
  <2>2. CASE AskSync(n)
    <3>1. PICK e : e = [d EXCEPT !.stage = "log"]
      OBVIOUS
    <3>2. node' = [node EXCEPT ![n].stage = "log"] /\ d.stage = "ask" /\ d.link = None
      BY <1>1, <2>2 DEF AskSync, Proc
    <3>3. node' = [node EXCEPT ![n] = e]
      BY <1>1, <3>1, <3>2
    <3>4. e.link = d.link /\ e.stage = "log" /\ e.primary = d.primary
      BY <1>1, <3>1 DEF Process
    <3>5. Calm(e, node[n])
      BY <3>2, <3>4 DEF Calm
    <3> QED BY <1>1, <3>3, <3>5, OneCalm
  <2> QED BY <1>1, <2>1, <2>2, DieCalm DEF Exit
<1>4. CASE ReadLog(n)
  <2>1. Forgets(n) \/ \E dk : Ends(n, dk) /\ JoinedWell(n, dk) /\ node[n].link # None
    BY <1>4, ReadLogKept
  <2>2. CASE Forgets(n)
    <3>1. PICK e : e = [d EXCEPT !.stage = "full", !.link = None, !.seq = 0, !.update = None]
      OBVIOUS
    <3>2. node' = [node EXCEPT ![n].stage = "full", ![n].link = None, ![n].seq = 0, ![n].update = None]
      BY <2>2 DEF Forgets
    <3>3. node' = [node EXCEPT ![n] = e]
      BY <1>1, <3>1, <3>2
    <3>4. e.link = None /\ e.stage = "full" /\ e.primary = d.primary
      BY <1>1, <3>1 DEF Process
    <3>5. Calm(e, node[n])
      BY <3>4 DEF Calm
    <3> QED BY <1>1, <3>3, <3>5, OneCalm
  <2>3. CASE \E dk : Ends(n, dk) /\ JoinedWell(n, dk) /\ node[n].link # None
    BY <1>1, <2>3, EndsIs, JoinedSyncs
  <2> QED BY <2>1, <2>2, <2>3
<1>5. CASE ReadFiles(n)
  <2>1. PICK dk : Ends(n, dk) /\ JoinedWell(n, dk) /\ node[n].link # None
    BY <1>5, ReadFilesKept
  <2> QED BY <1>1, <2>1, EndsIs, JoinedSyncs
<1>6. CASE SyncBroken(n)
  BY <1>1, <1>6, DieCalm DEF SyncBroken, Exit
<1> QED BY <1>2, <1>3, <1>4, <1>5, <1>6 DEF Recovery

LEMMA MasterSyncs ==
    ASSUME Orderly, NEW n \in Nodes,
           Start(n) \/ Crash(n) \/ Kill(n) \/ Restart(n) \/ ClientWrite(n) \/ ClientRead(n)
    PROVE  Syncs
<1>1. Basic /\ Proc(node[n], sent) /\ DOMAIN node = Nodes /\ Shape(n, node[n], inbox[n], Member(n))
  BY BasicFacts DEF Orderly
<1>2. CASE Start(n)
  <2>1. node[n] = Down /\ node' = [node EXCEPT ![n] = Fresh]
    BY <1>1, <1>2 DEF Start, Up, Shape, Called
  <2>2. Calm(Fresh, Down)
    BY DEF Calm, Down, Fresh
  <2> QED BY <1>1, <2>1, <2>2, OneCalm
<1>3. CASE Crash(n)
  BY <1>1, <1>3, DieCalm DEF Crash
<1>4. CASE Kill(n) \/ Restart(n)
  <2>1. node' = node
    BY <1>4 DEF Kill, Restart
  <2>2. \A x \in Nodes : Calm(node'[x], node[x])
    BY <2>1 DEF Calm
  <2> QED BY <1>1, <2>2, AllCalm
<1>5. CASE ClientRead(n)
  <2>1. EndMessage(n, node[n], disk[n])
    BY <1>5 DEF ClientRead
  <2> QED BY <1>1, <2>1, KeptSync, EndCalm
<1>6. CASE ClientWrite(n)
  <2>1. PICK x : RunWrite(n, x)
    BY <1>6 DEF ClientWrite
  <2>2. PICK t : t = Others(node[n], n)
    OBVIOUS
  <2>3. node' = [node EXCEPT ![n].conn = "forward", ![n].cur = x, ![n].todo = t]
    BY <1>6, <2>1, <2>2 DEF ClientWrite, Serves, RunWrite
  <2>4. PICK e : e = [node[n] EXCEPT !.conn = "forward", !.cur = x, !.todo = t]
    OBVIOUS
  <2>5. node' = [node EXCEPT ![n] = e]
    BY <1>1, <2>3, <2>4
  <2>6. SameSync(e, node[n]) /\ e.primary = node[n].primary
    BY <1>1, <2>4 DEF Proc, Process, SameSync
  <2> QED BY <1>1, <2>5, <2>6, SameCalm, OneCalm
<1> QED BY <1>2, <1>3, <1>4, <1>5, <1>6

LEMMA NextSyncs == ASSUME Hazards = {}, GroupInv, [Next]_vars PROVE Syncs
<1>1. PICK H \in [Nat -> Nat], T \in Nat : Consistent(H, T)
  BY DEF GroupInv, OneHistory
<1>2. Orderly /\ Basic
  BY DEF GroupInv, Orderly
<1>3. Basic'
  <2>1. "killBusy" \notin Hazards
    OBVIOUS
  <2> QED BY <1>2, <2>1, BasicStep
<1>4. CASE UNCHANGED vars
  <2>1. \A x \in Nodes : Calm(node'[x], node[x])
    BY <1>4 DEF Calm, vars
  <2> QED BY <1>2, <2>1, AllCalm
<1>5. CASE Next
  <2>1. PICK n \in Nodes :
        \/ Start(n) \/ Crash(n) \/ Kill(n) \/ Restart(n)
        \/ ClientWrite(n) \/ ClientRead(n)
        \/ Recovery(n) \/ Connection(n)
    BY <1>5 DEF Next
  <2> QED BY <1>1, <1>2, <1>3, <2>1, MasterSyncs, RecoverySyncs, ConnectionSyncs
<1> QED BY <1>4, <1>5

\* A node that is through has the value and the number of the end of the history.
LEMMA ThroughIs ==
    ASSUME Orderly, NEW H \in [Nat -> Nat], NEW T \in Nat, Consistent(H, T), NEW n \in Nodes,
           NEW dk, Ends(n, dk), JoinedWell(n, dk), node[n].link # None
    PROVE  Value(node'[n], disk'[n]) = H[T] /\ node'[n].seq = T
<1> PICK w : w = sent
  OBVIOUS
<1> PICK e : e = Ready(node[n], dk.log)
  OBVIOUS
<1>1. dk \in DiskType /\ Contents(dk, H, T) /\ Top(dk.log) = T
  BY EndsIs
<1>2. Basic /\ Proc(node[n], w) /\ DOMAIN disk = Nodes
  BY BasicFacts DEF Orderly
<1>3. Proc(e, w) /\ e.seq = Top(dk.log) /\ e.update = LastOf(dk.log)
  <2>1. dk.log \in LogType
    BY <1>1 DEF DiskType
  <2> PICK d : d = node[n]
    OBVIOUS
  <2> PICK log : log = dk.log
    OBVIOUS
  <2>2. Proc(d, w) /\ log \in LogType
    BY <1>2, <2>1
  <2>3. /\ Proc(Ready(d, log), w) /\ Ready(d, log).seq = log.ckpt + Len(log.ents)
        /\ Ready(d, log).update = IF log.ents = <<>> THEN None ELSE log.ents[Len(log.ents)].val
    BY ONLY <2>2, ReadyIs
  <2> QED BY <2>3 DEF Top, LastOf
<1>4. node'[n] = LetGo(e, n)
  BY <1>2, JoinedWellIs DEF JoinedEffect
<1>5. SameCache(LetGo(e, n), e)
  BY <1>3, LetGoIs
<1>6. disk'[n] = dk
  BY <1>2 DEF JoinedWell
<1>7. node'[n].seq = T /\ node'[n].update = LastOf(dk.log)
  BY <1>1, <1>3, <1>4, <1>5 DEF SameCache
<1> PICK f : f = node'[n]
  OBVIOUS
<1>8. Value(f, dk) = H[T]
  BY <1>1, <1>7, ReplayedHolds
<1> QED BY <1>6, <1>7, <1>8

LEMMA SyncAlignsStep ==
    ASSUME Hazards = {}, GroupInv, Hosted, [Next]_vars, NEW n \in Nodes, NEW p \in Nodes,
           node[n].peer = p, node[n].stage \in {"log", "full"}, node'[n].main = "run", node'[n].stage = "no"
    PROVE  Value(node'[n], disk'[n]) = Table(p) /\ node'[n].seq = node[p].seq
<1>1. PICK H \in [Nat -> Nat], T \in Nat : Consistent(H, T)
  BY DEF GroupInv, OneHistory
<1>2. Orderly
  BY DEF GroupInv
<1>3. Through(n)
  BY NextSyncs DEF Syncs
<1>4. PICK dk : Ends(n, dk) /\ JoinedWell(n, dk) /\ node[n].link # None
  BY <1>3 DEF Through
<1>5. Value(node'[n], disk'[n]) = H[T] /\ node'[n].seq = T
  BY <1>1, <1>2, <1>4, ThroughIs
<1>6. node[n].peer # None
  BY GroupNone
<1>7. IsFirst(p, alive) /\ p \in Recovered(alive)
  <2>1. Linked(node[n], alive, Recovered(alive))
    BY <1>2, OrderlyFacts DEF Place
  <2> QED BY <1>4, <1>6, <2>1 DEF Linked
<1>8. node[p].primary
  BY <1>4, <1>6 DEF Hosted
<1>9. Table(p) = H[T] /\ node[p].seq = T
  BY <1>1, <1>2, <1>7, <1>8, FirstHolds
<1> QED BY <1>5, <1>9

\* A node leaves SYNC with the table and the sequence number of the primary
\* that served it, by the log alone or by all files (NeedFullSync).
THEOREM GroupSyncAligns == ASSUME Hazards = {} PROVE Spec => SyncAligns
<1> DEFINE Aligns == \A n, p \in Nodes :
                        node[n].peer = p /\ node[n].stage \in {"log", "full"} /\ node'[n].main = "run"
                          /\ node'[n].stage = "no"
                        => Value(node'[n], disk'[n]) = Table(p) /\ node'[n].seq = node[p].seq
<1>1. Init => Hosted
  BY DEF Init, Hosted, Down, Fresh
<1>2. GroupInv /\ Hosted /\ [Next]_vars => Hosted'
  BY NextSyncs DEF Syncs
<1>3. GroupInv /\ Hosted /\ [Next]_vars => [Aligns]_vars
  BY SyncAlignsStep
<1>4. Spec => []GroupInv
  BY GroupHistory
<1> QED BY <1>1, <1>2, <1>3, <1>4, PTL DEF Spec, SyncAligns
==============================================================================
