------------------------------- MODULE KvNode --------------------------------
(***************************************************************************)
(* One backend process (backend/kvstore.cpp, cluster_interface.h,          *)
(* cache.h) that is the only live member, hence the primary, of its group: *)
(* the read cache, the cache of updates, the log file, the checkpoint that *)
(* moves updates to the chunk files, a crash at any point of it, recovery  *)
(* by replay of the log when the process starts or is restarted by the     *)
(* administrator, and the administrator's KILL and RESTART.                *)
(*                                                                         *)
(* Two threads of the process matter: "main" (RunServer), which recovers   *)
(* at start-up, and "conn" (handle_connect), which runs the commands one   *)
(* by one and the checkpoint.  Forwarding to secondaries is empty in a     *)
(* group of one.  The chunk files of a user are a map here (module Chunk   *)
(* models them).                                                           *)
(***************************************************************************)
EXTENDS KvInterface, Integers, Sequences

CONSTANTS
    Period,    \* a checkpoint every Period messages (20 in the code)
    MaxSeq,    \* bound: no write is sent once max_sequence or the log reaches it
    Hazards    \* which of the situations below the environment produces

(***************************************************************************)
(* Situations the code does not handle, each admitted by name:             *)
(*  "stale"      a CPUT whose expected value is not the current one        *)
(*  "window"     the process dies between the truncation of the log and    *)
(*               the write of its new header                               *)
(*  "stray"      a write to a user that has no folder and is not signing   *)
(*               up (mail for an unknown user)                             *)
(*  "early"      clients reach the node before main has finished recovery: *)
(*               main and the connection thread then share KvCache and     *)
(*               max_sequence without a lock                               *)
(*  "earlyKill"  the administrator kills, and may restart, a node whose    *)
(*               main has not finished recovery                            *)
(*  "restartGap" clients reach a killed node between the CLUSTER and the   *)
(*               RESTART with which the master revives it                  *)
(***************************************************************************)
AllHazards == {"stale", "window", "stray", "early", "earlyKill", "restartGap"}

ASSUME PeriodAssumption  == Period \in Nat /\ Period >= 3
ASSUME MaxSeqAssumption  == MaxSeq \in Nat
ASSUME HazardsAssumption == Hazards \subseteq AllHazards

VARIABLES
    main,           \* RunServer: "down" | "failed" | "wait" | "init" | "replay" | "run"
    conn,           \* handle_connect: "idle" | "number" | "replay" | "write" | "header"
    isPrimary,      \* static bool isPrimary
    killed,         \* static bool killed
    max_sequence,   \* static int max_sequence
    sequence_id,    \* KvCache::sequence_id_
    read_cache,     \* KvCache::read_cache_
    updates_cache,  \* KvCache::updates_cache_
    replay,         \* ReplayLoggings of each thread: the text it read, how far it is
    call,           \* a write whose number was taken and not yet compared
    ckpt,           \* the copy of the cache that checkpoint() works on
    msgs,           \* last_checkpoint_time % Period
    dirs,           \* disk: users that have a folder
    store,          \* disk: the chunk files, as a map
    log,            \* disk: the log file
    reply           \* the kv_ret written by the last command, if any

mem  == <<isPrimary, killed, max_sequence, sequence_id, read_cache,
          updates_cache, replay, call, ckpt, msgs>>
disk == <<dirs, store, log>>
vars == <<main, conn, mem, disk, reply>>

NoEntries == [i \in Item |-> NoVal]

\* One FormatPuts / FormatDele record of the log.
Entry == [seq : Nat, item : Item, val : Val]

\* The log file: "absent", "bare" (no checkpoint header) or "ok".
LogFile == [state : {"absent", "bare", "ok"}, ckpt : Nat, ents : Seq(Entry)]

Thread == {"main", "conn"}

NoReplay == [t \in Thread |-> [ents |-> <<>>, pos |-> 0]]
NoCkpt   == [up |-> NoEntries, seq |-> 0, todo |-> {}]

\* prev is the expected value of a CPUT, NoVal for PUTS and DELE.
Call   == [item : Item, prev : MaybeVal, val : Val, num : Nat]
NoCall == [num |-> 0]

Alive == main \notin {"down", "failed"}

\* The node answers clients from a recovered memory.
Serving == main = "run" /\ conn # "replay" /\ ~killed

------------------------------------------------------------------------------
(* KvCache: what a read returns, and what reads and writes leave behind.   *)

Missed(i) == read_cache[i] = NoVal /\ updates_cache[i] = NoVal

\* (wrong on purpose, for the mutation checks, as every operator named Bad...)
BadOnDisk(i) == store[i]

OnDisk(i) == IF store[i] = NoVal THEN Empty ELSE store[i]

\* The value Gets assigns: read cache, then updates, then the chunk files.
Cached(i) == IF read_cache[i] # NoVal THEN read_cache[i]
             ELSE IF updates_cache[i] # NoVal THEN updates_cache[i]
             ELSE OnDisk(i)

GetsStatus(i) ==
    IF ~Missed(i) \/ store[i] # NoVal THEN "FINISHED"
    ELSE IF UserOf(i) \notin dirs THEN "USER_ERROR" ELSE "KEY_ERROR"

\* On a miss the read cache gets an entry before the disk is looked at, and
\* keeps the empty string when there is nothing on the disk.
ReadCacheAfterGets(i) ==
    IF Missed(i) THEN [read_cache EXCEPT ![i] = OnDisk(i)] ELSE read_cache

SeqValid == max_sequence + 1 = sequence_id + 1

\* KvCache::Log: the file is created, without a header, if it is absent.
Logged(i, v) ==
    [log EXCEPT !.ents  = Append(@, [seq |-> sequence_id + 1, item |-> i, val |-> v]),
                !.state = IF @ = "absent" THEN "bare" ELSE @]

------------------------------------------------------------------------------
(* handle_connect: the end of every message.                               *)

\* Users that Checkpoint() iterates over.
Dirty(up) == {u \in Users : \E k \in Keys : up[<<u, k>>] # NoVal}

\* After a message the primary checkpoints every Period messages, on a COPY
\* of the cache (checkpoint() takes its parameter by value).
EndMessage(primary, up, seq) ==
    LET count == (msgs + 1) % Period IN
    /\ msgs' = count
    /\ IF primary /\ count = 0
       THEN /\ conn' = "write"
            /\ ckpt' = [up |-> up, seq |-> seq, todo |-> Dirty(up)]
       ELSE conn' = "idle" /\ ckpt' = ckpt

\* A client's command is read by a node that runs it.
Running ==
    /\ conn = "idle" /\ ~killed /\ isPrimary
    /\ main = "run" \/ "early" \in Hazards
    /\ Alive

WriteBound == max_sequence < MaxSeq /\ Len(log.ents) < MaxSeq

\* Writes go to users that have a folder, unless strays are admitted.
Addressed(i) == UserOf(i) \in dirs \/ "stray" \in Hazards

BadReadCacheAfterPuts(i) == read_cache

\* The private Puts drops the cell from the read cache.
ReadCacheAfterPuts(i) == [read_cache EXCEPT ![i] = NoVal]

\* KvCache::Puts / Dele once the sequence number was accepted.
Apply(i, v) ==
    /\ log' = Logged(i, v)
    /\ updates_cache' = [updates_cache EXCEPT ![i] = v]
    /\ read_cache' = ReadCacheAfterPuts(i)
    /\ sequence_id' = sequence_id + 1

\* Once main has recovered no other thread touches the cache: a write, from
\* ++max_sequence to its answer, is one step.
Write(com, i, v) ==
    /\ Running /\ main = "run" /\ WriteBound /\ Addressed(i)
    /\ max_sequence' = max_sequence + 1
    /\ \/ /\ SeqValid
          /\ Apply(i, v)
          /\ reply' = Answer(com, i, "FINISHED", Empty)
       \/ /\ ~SeqValid
          /\ UNCHANGED <<log, updates_cache, read_cache, sequence_id>>
          /\ reply' = Answer(com, i, "SEQ_ERROR", Empty)
    /\ EndMessage(isPrimary, updates_cache', sequence_id')
    /\ UNCHANGED <<main, isPrimary, killed, replay, call, dirs, store>>

Puts(i, v) == Write("PUTS", i, v)
Dele(i)    == Write("DELE", i, Empty)

\* The folder that a CPUT of "pwd" from the empty string creates: a sign-up.
Created(i, prev) ==
    IF KeyOf(i) = Pwd /\ prev = Empty THEN dirs \cup {UserOf(i)} ELSE dirs

Cput(i, prev, new) ==
    /\ Running /\ main = "run" /\ WriteBound
    /\ Addressed(i) \/ UserOf(i) \in Created(i, prev)
    /\ "stale" \in Hazards \/ Cached(i) = prev
    /\ dirs' = Created(i, prev)
    /\ max_sequence' = max_sequence + 1
    /\ \/ /\ SeqValid /\ Cached(i) = prev
          /\ Apply(i, new)
          /\ reply' = Answer("CPUT", i, "FINISHED", Empty)
       \/ \* VALUE_ERROR: the sequence number is used up and nothing is logged
          /\ SeqValid /\ Cached(i) # prev
          /\ sequence_id' = sequence_id + 1
          /\ read_cache' = ReadCacheAfterGets(i)
          /\ reply' = Answer("CPUT", i, "VALUE_ERROR", Empty)
          /\ UNCHANGED <<log, updates_cache>>
       \/ /\ ~SeqValid
          /\ read_cache' = ReadCacheAfterGets(i)
          /\ reply' = Answer("CPUT", i, "SEQ_ERROR", Empty)
          /\ UNCHANGED <<log, updates_cache, sequence_id>>
    /\ EndMessage(isPrimary, updates_cache', sequence_id')
    /\ UNCHANGED <<main, isPrimary, killed, replay, call, store>>

\* Before that, main's replay may run between ++max_sequence, which the call
\* evaluates first, and the comparison in ValidateAndUpdateSeqNum.
EarlyNumber(i, prev, v) ==
    /\ Running /\ main # "run" /\ WriteBound
    /\ LET made == IF prev = NoVal THEN dirs ELSE Created(i, prev) IN
       /\ Addressed(i) \/ UserOf(i) \in made
       /\ dirs' = made
    /\ read_cache' = IF prev = NoVal THEN read_cache ELSE ReadCacheAfterGets(i)
    /\ max_sequence' = max_sequence + 1
    /\ call' = [item |-> i, prev |-> prev, val |-> v, num |-> max_sequence + 1]
    /\ conn' = "number"
    /\ reply' = NoReply
    /\ UNCHANGED <<main, isPrimary, killed, sequence_id, updates_cache, replay,
                   ckpt, msgs, store, log>>

EarlyWrite ==
    /\ conn = "number"
    /\ LET i == call.item
           com == IF call.prev = NoVal THEN "PUTS" ELSE "CPUT"
           Valid == call.num = sequence_id + 1
           Expected == call.prev \in {NoVal, Cached(i)}
       IN
       \/ /\ Valid /\ Expected
          /\ Apply(i, call.val)
          /\ reply' = Answer(com, i, "FINISHED", Empty)
       \/ /\ Valid /\ ~Expected
          /\ sequence_id' = sequence_id + 1
          /\ read_cache' = ReadCacheAfterGets(i)
          /\ reply' = Answer(com, i, "VALUE_ERROR", Empty)
          /\ UNCHANGED <<log, updates_cache>>
       \/ /\ ~Valid
          /\ reply' = Answer(com, i, "SEQ_ERROR", Empty)
          /\ UNCHANGED <<log, updates_cache, read_cache, sequence_id>>
    /\ EndMessage(isPrimary, updates_cache', sequence_id')
    /\ call' = NoCall
    /\ UNCHANGED <<main, isPrimary, killed, max_sequence, replay, dirs, store>>

Gets(i) ==
    /\ Running
    /\ read_cache' = ReadCacheAfterGets(i)
    /\ reply' = Answer("GETS", i, GetsStatus(i),
                       IF GetsStatus(i) = "FINISHED" THEN Cached(i) ELSE Empty)
    /\ EndMessage(isPrimary, updates_cache, sequence_id)
    /\ UNCHANGED <<main, isPrimary, killed, max_sequence, sequence_id,
                   updates_cache, replay, call, disk>>

BadOverlaid == [i \in Item |-> IF updates_cache[i] \in Values
                               THEN updates_cache[i] ELSE OnDisk(i)]

\* ALL: the chunk files overlaid by the updates; the read cache is not used.
Overlaid == [i \in Item |-> IF updates_cache[i] # NoVal
                            THEN updates_cache[i] ELSE OnDisk(i)]

GetsAll(u) ==
    /\ Running
    /\ reply' = IF u \in dirs THEN AnswerAll(u, "FINISHED", Row(Overlaid, u))
                              ELSE AnswerAll(u, "USER_ERROR", {})
    /\ EndMessage(isPrimary, updates_cache, sequence_id)
    /\ UNCHANGED <<main, isPrimary, killed, max_sequence, sequence_id,
                   read_cache, updates_cache, replay, call, disk>>

------------------------------------------------------------------------------
(* The administrator's KILL and RESTART, sent by the master.               *)

\* The process stays, deaf; memory and disk are left as they are, and so is a
\* replay that main is in.
Kill ==
    /\ Alive /\ conn = "idle" /\ ~killed
    /\ main = "run" \/ "earlyKill" \in Hazards
    /\ killed' = TRUE
    /\ isPrimary' = FALSE
    /\ reply' = NoReply
    /\ EndMessage(FALSE, updates_cache, sequence_id)
    /\ UNCHANGED <<main, max_sequence, sequence_id, read_cache, updates_cache,
                   replay, call, disk>>

\* CLUSTER: the master announces the group at start-up and before a RESTART.
Cluster ==
    /\ conn = "idle" /\ ~isPrimary
    /\ main = "wait" \/ (Alive /\ killed)
    /\ isPrimary' = TRUE
    /\ main' = IF main = "wait" THEN "init" ELSE main
    /\ reply' = NoReply
    /\ EndMessage(TRUE, updates_cache, sequence_id)
    /\ UNCHANGED <<killed, max_sequence, sequence_id, read_cache,
                   updates_cache, replay, call, disk>>

\* A killed node drops the command of a client.  Once CLUSTER made it primary
\* again it nevertheless answers, with the default status FINISHED.
Dropped(default) ==
    /\ Alive /\ conn = "idle" /\ killed
    /\ main = "run" \/ "early" \in Hazards
    /\ isPrimary => "restartGap" \in Hazards
    /\ reply' = IF isPrimary THEN default ELSE NoReply
    /\ EndMessage(isPrimary, updates_cache, sequence_id)
    /\ UNCHANGED <<main, isPrimary, killed, max_sequence, sequence_id,
                   read_cache, updates_cache, replay, call, disk>>

\* kv_ret as handle_connect initialises it.
DefaultReplies ==
    {Answer(com, i, "FINISHED", Empty) : com \in {"PUTS", "CPUT", "DELE", "GETS"}, i \in Item}
    \cup {AnswerAll(u, "FINISHED", {}) : u \in Users}

\* The process ends: its memory is gone; statics of the next process have
\* their initial values (handle_connect sets last_checkpoint_time to 1).
Die ==
    /\ conn' = "idle"
    /\ isPrimary' = FALSE /\ killed' = FALSE
    /\ max_sequence' = 0 /\ sequence_id' = 0
    /\ read_cache' = NoEntries /\ updates_cache' = NoEntries
    /\ replay' = NoReplay /\ call' = NoCall /\ ckpt' = NoCkpt
    /\ msgs' = 1
    /\ reply' = NoReply

\* error() in RunServer and in run_command.
Exit == Die /\ main' = "failed" /\ UNCHANGED disk

\* ReplayLoggings of thread t up to its loop: read the file and its header,
\* clear the caches.  Fails, and the process exits, when there is no header.
BeginReplay(t) ==
    /\ log.state = "ok"
    /\ sequence_id' = log.ckpt
    /\ read_cache' = NoEntries
    /\ updates_cache' = NoEntries
    /\ replay' = [replay EXCEPT ![t] = [ents |-> log.ents, pos |-> 0]]

\* InitCacheForPrimary when there is no log file yet.
CreateLog ==
    /\ log.state = "absent"
    /\ log' = [state |-> "ok", ckpt |-> sequence_id, ents |-> <<>>]
    /\ UNCHANGED <<dirs, store>>

\* RESTART of a killed node, which recovers in the connection thread, also
\* while main is still at its own recovery.
Restart ==
    /\ Alive /\ conn = "idle" /\ killed /\ isPrimary
    /\ \/ /\ BeginReplay("conn")
          /\ killed' = FALSE
          /\ conn' = "replay"
          /\ msgs' = (msgs + 1) % Period
          /\ UNCHANGED <<main, isPrimary, max_sequence, call, ckpt, disk>>
          /\ reply' = NoReply
       \/ /\ CreateLog
          /\ killed' = FALSE
          /\ EndMessage(TRUE, updates_cache, sequence_id)
          /\ UNCHANGED <<main, isPrimary, max_sequence, sequence_id, read_cache,
                         updates_cache, replay, call>>
          /\ reply' = NoReply
       \/ log.state = "bare" /\ Exit

------------------------------------------------------------------------------
(* Start-up and replay.                                                    *)

\* A new process waits for the master to announce the group.
Start ==
    /\ ~Alive
    /\ main' = "wait"
    /\ reply' = NoReply
    /\ UNCHANGED <<conn, mem, disk>>

\* InitCacheForPrimary in main.
InitCache ==
    /\ main = "init"
    /\ \/ CreateLog /\ main' = "run" /\ reply' = NoReply /\ UNCHANGED <<conn, mem>>
       \/ /\ BeginReplay("main")
          /\ main' = "replay"
          /\ reply' = NoReply
          /\ UNCHANGED <<conn, isPrimary, killed, max_sequence, call, ckpt, msgs, disk>>
       \/ log.state = "bare" /\ Exit

ReplayingIn(t) == IF t = "main" THEN main = "replay" ELSE conn = "replay"
Replaying == \E t \in Thread : ReplayingIn(t)

\* One round of the loop of ReplayLoggings in thread t: the entry must carry the
\* next sequence number, else REC_ERROR and the process exits.
ReplayEntry(t) ==
    /\ ReplayingIn(t) /\ replay[t].pos < Len(replay[t].ents)
    /\ LET e == replay[t].ents[replay[t].pos + 1] IN
       \/ /\ e.seq = sequence_id + 1
          /\ sequence_id' = e.seq
          /\ updates_cache' = [updates_cache EXCEPT ![e.item] = e.val]
          /\ read_cache' = ReadCacheAfterPuts(e.item)
          /\ replay' = [replay EXCEPT ![t].pos = @ + 1]
          /\ reply' = NoReply
          /\ UNCHANGED <<main, conn, isPrimary, killed, max_sequence, call, ckpt,
                         msgs, disk>>
       \/ e.seq # sequence_id + 1 /\ Exit

BadRestoredCounter == max_sequence

\* The last assignment of ReplayLoggings.
RestoredCounter == sequence_id

ReplayDone(t) ==
    /\ ReplayingIn(t) /\ replay[t].pos = Len(replay[t].ents)
    /\ max_sequence' = RestoredCounter
    /\ replay' = [replay EXCEPT ![t] = NoReplay[t]]
    /\ reply' = NoReply
    /\ \/ /\ t = "main"
          /\ main' = "run"
          /\ UNCHANGED <<conn, ckpt>>
       \/ \* the RESTART message ends: handle_connect may checkpoint now
          /\ t = "conn"
          /\ main' = main
          /\ IF msgs = 0
             THEN /\ conn' = "write"
                  /\ ckpt' = [up |-> updates_cache, seq |-> sequence_id,
                              todo |-> Dirty(updates_cache)]
             ELSE conn' = "idle" /\ ckpt' = ckpt
    /\ UNCHANGED <<isPrimary, killed, sequence_id, read_cache, updates_cache, call,
                   msgs, disk>>

------------------------------------------------------------------------------
(* Checkpoint(), on the copy: user by user, then the log.                  *)

\* Chunk::append_kvs of user u; a user without a folder gets nothing.
Appended(u) ==
    [i \in Item |->
        IF UserOf(i) = u /\ u \in dirs /\ ckpt.up[i] # NoVal
        THEN IF ckpt.up[i] = Empty THEN NoVal ELSE ckpt.up[i]
        ELSE store[i]]

BadRemaining(u) == ckpt.todo

\* Users still to be written after u.
Remaining(u) == ckpt.todo \ {u}

CheckpointUser(u) ==
    /\ conn = "write" /\ u \in ckpt.todo
    /\ store' = Appended(u)
    /\ ckpt' = [ckpt EXCEPT !.todo = Remaining(u)]
    /\ reply' = NoReply
    /\ UNCHANGED <<main, conn, isPrimary, killed, max_sequence, sequence_id,
                   read_cache, updates_cache, replay, call, msgs, dirs, log>>

BadAllWritten == TRUE

\* The loop over the users is over.
AllWritten == ckpt.todo = {}

CheckpointTruncate ==
    /\ conn = "write" /\ AllWritten
    /\ log' = [log EXCEPT !.state = "bare", !.ents = <<>>]
    /\ conn' = "header"
    /\ reply' = NoReply
    /\ UNCHANGED <<main, mem, dirs, store>>

\* The clears of Checkpoint() empty the copy, which is dropped on return.
CheckpointHeader ==
    /\ conn = "header"
    /\ log' = [log EXCEPT !.state = "ok", !.ckpt = ckpt.seq]
    /\ ckpt' = NoCkpt
    /\ conn' = "idle"
    /\ reply' = NoReply
    /\ UNCHANGED <<main, isPrimary, killed, max_sequence, sequence_id,
                   read_cache, updates_cache, replay, call, msgs, dirs, store>>

------------------------------------------------------------------------------
(* The process dies: between two steps; in a write, between the log record *)
(* and the answer; in a sign-up, after its folder was made.                *)

Crash ==
    /\ Alive
    /\ conn = "header" => "window" \in Hazards
    /\ Die /\ main' = "down"
    /\ UNCHANGED disk

CrashAfterLog(i, v) ==
    /\ Running /\ WriteBound /\ Addressed(i) /\ SeqValid
    /\ log' = Logged(i, v)
    /\ Die /\ main' = "down"
    /\ UNCHANGED <<dirs, store>>

CrashInSignUp(i, v) ==
    /\ Running /\ WriteBound /\ SeqValid
    /\ KeyOf(i) = Pwd /\ Cached(i) = Empty
    /\ dirs' = dirs \cup {UserOf(i)}
    /\ log' \in {log, Logged(i, v)}
    /\ Die /\ main' = "down"
    /\ UNCHANGED store

------------------------------------------------------------------------------
Init ==
    /\ main = "down" /\ conn = "idle"
    /\ isPrimary = FALSE /\ killed = FALSE
    /\ max_sequence = 0 /\ sequence_id = 0
    /\ read_cache = NoEntries /\ updates_cache = NoEntries
    /\ replay = NoReplay /\ call = NoCall /\ ckpt = NoCkpt /\ msgs = 1
    /\ dirs = {} /\ store = NoEntries
    /\ log = [state |-> "absent", ckpt |-> 0, ents |-> <<>>]
    /\ reply = NoReply

Client ==
    \/ \E i \in Item, v \in Val : Puts(i, v)
    \/ \E i \in Item, prev, new \in Val : Cput(i, prev, new)
    \/ \E i \in Item, prev \in MaybeVal, v \in Val : EarlyNumber(i, prev, v)
    \/ EarlyWrite
    \/ \E i \in Item : Dele(i) \/ Gets(i)
    \/ \E u \in Users : GetsAll(u)
    \/ \E default \in DefaultReplies : Dropped(default)

Admin == Kill \/ Cluster \/ Restart

Recovery(t) == (t = "main" /\ InitCache) \/ ReplayEntry(t) \/ ReplayDone(t)

Checkpoint ==
    \/ \E u \in Users : CheckpointUser(u)
    \/ CheckpointTruncate
    \/ CheckpointHeader

Crashes ==
    \/ Crash
    \/ \E i \in Item, v \in Val : CrashAfterLog(i, v) \/ CrashInSignUp(i, v)

Next == Start \/ Client \/ Admin \/ (\E t \in Thread : Recovery(t)) \/ Checkpoint \/ Crashes

Spec == Init /\ [][Next]_vars

\* The two threads keep running; clients, the administrator and crashes are
\* not obliged to do anything.
Fairness == (\A t \in Thread : WF_vars(Recovery(t))) /\ WF_vars(Checkpoint)

FairSpec == Spec /\ Fairness

------------------------------------------------------------------------------
(* Properties.                                                             *)

TypeOK ==
    /\ main \in {"down", "failed", "wait", "init", "replay", "run"}
    /\ conn \in {"idle", "number", "replay", "write", "header"}
    /\ isPrimary \in BOOLEAN /\ killed \in BOOLEAN
    /\ max_sequence \in Nat /\ sequence_id \in Nat
    /\ read_cache \in [Item -> MaybeVal]
    /\ updates_cache \in [Item -> MaybeVal]
    /\ replay \in [Thread -> [ents : Seq(Entry), pos : Nat]]
    /\ call \in Call \cup {NoCall} /\ (conn = "number" => call \in Call)
    /\ ckpt \in [up : [Item -> MaybeVal], seq : Nat, todo : SUBSET Users]
    /\ msgs \in 0 .. Period - 1
    /\ dirs \subseteq Users
    /\ store \in [Item -> Values \cup {NoVal}]
    /\ log \in LogFile
    /\ reply \in Reply

\* Memory has been recovered and not yet been thrown away.
Recovered == main = "run" /\ conn # "replay"

\* The value of cell i after the first p entries of a log, NoVal if none
\* of them writes it.
IsLast(ents, p, i, n) ==
    /\ n \in 1 .. p
    /\ ents[n].item = i
    /\ \A m \in n + 1 .. p : ents[m].item # i
LastWrite(ents, p, i) ==
    IF \E n \in 1 .. p : IsLast(ents, p, i, n)
    THEN ents[CHOOSE n \in 1 .. p : IsLast(ents, p, i, n)].val
    ELSE NoVal

\* What the disk alone says cell i is: the log over the chunk files.
Recoverable(i) ==
    LET w == LastWrite(log.ents, Len(log.ents), i)
    IN  IF w = NoVal THEN OnDisk(i) ELSE w

(***************************************************************************)
(* A node never refuses a client's write for its sequence number:          *)
(* run_command's counter and the one that KvCache validates against agree  *)
(* whenever the memory is recovered, also across failed CPUTs, KILL,       *)
(* RESTART and crashes (kvstore.cpp ++max_sequence, ValidateAndUpdate-     *)
(* SeqNum), and as the last message of ReplayLoggings says.  It fails when *)
(* a client's write overlaps the replay of main ("early").                 *)
(***************************************************************************)
SeqInSync == Recovered /\ conn # "number" => sequence_id = max_sequence

(***************************************************************************)
(* The read cache is never stale: an entry, the negative entries for       *)
(* missing keys included, is shadowed by no update and equals what the     *)
(* chunk files hold, also while a checkpoint is rewriting them.            *)
(***************************************************************************)
ReadCacheFresh ==
    Recovered => \A i \in Item : read_cache[i] # NoVal =>
        updates_cache[i] = NoVal /\ read_cache[i] = OnDisk(i)

(***************************************************************************)
(* Durability: at every moment, in the middle of a checkpoint too, the     *)
(* value a client would read is the value that the disk alone (log over    *)
(* chunk files) would give back after a crash.                             *)
(***************************************************************************)
Durable == Recovered => \A i \in Item : Cached(i) = Recoverable(i)

(***************************************************************************)
(* Recovery by replay never fails: a node that crashed or was killed can   *)
(* be started again (ReplayLoggings, InitCacheForPrimary never make the    *)
(* process exit).                                                          *)
(***************************************************************************)
RecoverySucceeds == main # "failed"

(***************************************************************************)
(* The node implements the durable table of KvMap: every answer is the     *)
(* answer of the table that the disk describes, and no crash, recovery or  *)
(* checkpoint changes that table.                                          *)
(***************************************************************************)
Map == INSTANCE KvMap WITH kv <- [i \in Item |-> Recoverable(i)]
ImplementsKvMap == Map!Spec

(***************************************************************************)
(* A node told its role, or told to restart, eventually has its memory     *)
(* recovered unless the process ends meanwhile, and a checkpoint ends:     *)
(* neither recovery nor Checkpoint() leaves handle_connect stuck.          *)
(***************************************************************************)
RecoveryEnds ==
    /\ (main = "init" \/ Replaying) ~> (Recovered \/ ~Alive)
    /\ (conn \in {"write", "header"}) ~> (conn = "idle")
==============================================================================
