-------------------------------- MODULE Chunk --------------------------------
(***************************************************************************)
(* The chunk files of one user (backend/chunk.h) under KvCache::Checkpoint *)
(* and crashes: append_kvs, write_meta_back and lazy_delete, file by file. *)
(* A file opened for writing without append is empty until it is closed,   *)
(* so that open and close are two steps.  KvNode sees these files as a map *)
(* that a checkpoint updates atomically; this module says when that is so. *)
(*                                                                         *)
(* A record (key, length, value) is written whole or not at all, and the   *)
(* size of a file is its number of records.  The log and its replay are    *)
(* those of KvNode: a crash leaves in memory what the log holds.           *)
(***************************************************************************)
EXTENDS Integers, Sequences, FiniteSets, Pick

CONSTANTS
    Keys, Values,
    Empty,       \* the empty string: as an update, a deletion
    NoVal,       \* no entry
    Limit,       \* SIZE_LIMIT, in records: a longer chunk file is closed
    MaxChunk,    \* bound: no checkpoint is begun once append_index reaches it
    MaxRecords,  \* bound: nor once a chunk file holds more records than this
    CrashAt      \* steps of a checkpoint before which the process may die

Steps == {"idle", "append", "index", "indexed", "meta", "listing",
          "deleting", "rewriting", "truncate"}

ASSUME ChunkValues  == Empty \notin Values /\ NoVal \notin Values \cup {Empty}
ASSUME ChunkBounds  == Limit \in Nat \ {0} /\ MaxChunk \in Nat /\ MaxRecords \in Nat
ASSUME ChunkKeys    == IsFiniteSet(Keys)
ASSUME ChunkCrashes == CrashAt \subseteq Steps

VARIABLES
    pc,             \* where Checkpoint() is
    updates,        \* memory: updates_cache_ of the user
    chunk,          \* memory: the struct Chunk, and the loop it is in
    log,            \* disk: the updates that the log file records
    append_index,   \* disk: chunk_index, Torn while it is empty
    metadata,       \* disk: chunk_metadata
    chunks,         \* disk: the files chunk-0, chunk-1, ...
    delete_list,    \* disk: delete_list, as a bag
    written,        \* history: the value last written to each key
    interrupted     \* history: a crash has left a checkpoint half done

vars == <<pc, updates, chunk, log, append_index, metadata, chunks,
          delete_list, written, interrupted>>

\* A checkpoint closes at most one chunk file for each key.
Ids == 0 .. MaxChunk + Cardinality(Keys)
Torn == -1      \* chunk_index without its two lines: Chunk::init throws
NoChunk == -1   \* a key that chunk_metadata does not list

Record == [key : Keys, val : Values]
NoUpdates  == [k \in Keys |-> NoVal]
NoMetadata == [k \in Keys |-> NoChunk]
NoDeletes  == [d \in Keys \X Ids |-> 0]
NoObject   == [index |-> 0, metadata |-> NoMetadata, del |-> NoDeletes,
               todo |-> {}, rewrite |-> {}, target |-> 0, out |-> <<>>]

------------------------------------------------------------------------------
(* Reading.                                                                *)

\* Positions of key k in the chunk file c.
Copies(c, k) == {n \in 1 .. Len(chunks[c]) : chunks[c][n].key = k}

\* (wrong on purpose, for the mutation checks, as every operator named Bad...)
BadMatch(c, k) == CHOOSE n \in Copies(c, k) : \A m \in Copies(c, k) : n <= m

\* The copy that the loop of get_value ends with: each match overwrites the
\* one before it.
Match(c, k) == CHOOSE n \in Copies(c, k) : \A m \in Copies(c, k) : m <= n

\* Chunk::get_value
GetValue(k) ==
    LET c == metadata[k] IN
    IF append_index = Torn \/ c = NoChunk THEN NoVal
    ELSE IF Copies(c, k) = {} THEN NoVal
    ELSE chunks[c][Match(c, k)].val

------------------------------------------------------------------------------
(* PUTS and DELE between checkpoints, as KvCache leaves them.              *)

Puts(k, v) ==
    /\ pc = "idle"
    /\ updates' = [updates EXCEPT ![k] = v]
    /\ log' = [log EXCEPT ![k] = v]
    /\ written' = [written EXCEPT ![k] = v]
    /\ UNCHANGED <<pc, chunk, append_index, metadata, chunks, delete_list, interrupted>>

------------------------------------------------------------------------------
(* Checkpoint(): Chunk::init, then append_kvs.                             *)

Room == append_index < MaxChunk /\ \A c \in Ids : Len(chunks[c]) <= MaxRecords

InitChunk ==
    /\ pc = "idle" /\ append_index # Torn /\ Room
    /\ chunk' = [NoObject EXCEPT !.index = append_index, !.metadata = metadata,
                                 !.todo = {k \in Keys : updates[k] # NoVal}]
    /\ pc' = "append"
    /\ UNCHANGED <<updates, log, append_index, metadata, chunks, delete_list, written, interrupted>>

BadIsDeletion(k) == FALSE

IsDeletion(k) == updates[k] = Empty

BadMarked(k) == chunk.del

\* The old copy of k goes to del_list.  operator[] makes an entry for chunk 0
\* when a key that has no copy is deleted.
Marked(k) ==
    LET old == chunk.metadata[k] IN
    IF old # NoChunk THEN [chunk.del EXCEPT ![<<k, old>>] = @ + 1]
    ELSE IF IsDeletion(k) THEN [chunk.del EXCEPT ![<<k, 0>>] = @ + 1]
    ELSE chunk.del

\* One round of the loop of append_kvs, over an unordered map.
AppendKv(k) ==
    /\ pc = "append" /\ k \in chunk.todo
    /\ \/ /\ IsDeletion(k)
          /\ chunk' = [chunk EXCEPT !.del = Marked(k), !.metadata[k] = NoChunk,
                                    !.todo = @ \ {k}]
          /\ chunks' = chunks
       \/ /\ ~IsDeletion(k)
          /\ chunks' = [chunks EXCEPT ![chunk.index] =
                           Append(@, [key |-> k, val |-> updates[k]])]
          /\ chunk' = [chunk EXCEPT
                          !.del = Marked(k), !.metadata[k] = chunk.index,
                          !.index = IF Len(chunks'[chunk.index]) > Limit
                                    THEN @ + 1 ELSE @,
                          !.todo = @ \ {k}]
    /\ UNCHANGED <<pc, updates, log, append_index, metadata, delete_list, written, interrupted>>

------------------------------------------------------------------------------
(* write_meta_back: three files, the first two truncated by the open.      *)

OpenIndex ==
    /\ pc = "append" /\ chunk.todo = {}
    /\ append_index' = Torn
    /\ pc' = "index"
    /\ UNCHANGED <<updates, chunk, log, metadata, chunks, delete_list, written, interrupted>>

WriteIndex ==
    /\ pc = "index"
    /\ append_index' = chunk.index
    /\ pc' = "indexed"
    /\ UNCHANGED <<updates, chunk, log, metadata, chunks, delete_list, written, interrupted>>

OpenMetadata ==
    /\ pc = "indexed"
    /\ metadata' = NoMetadata
    /\ pc' = "meta"
    /\ UNCHANGED <<updates, chunk, log, append_index, chunks, delete_list, written, interrupted>>

WriteMetadata ==
    /\ pc = "meta"
    /\ metadata' = chunk.metadata
    /\ pc' = "listing"
    /\ UNCHANGED <<updates, chunk, log, append_index, chunks, delete_list, written, interrupted>>

\* delete_list is appended to, then lazy_delete reads it back as a whole.
AppendDeleteList ==
    /\ pc = "listing"
    /\ delete_list' = [d \in Keys \X Ids |-> delete_list[d] + chunk.del[d]]
    /\ chunk' = [chunk EXCEPT !.rewrite =
                    {c \in Ids : \E k \in Keys : delete_list'[<<k, c>>] > 0}]
    /\ pc' = "deleting"
    /\ UNCHANGED <<updates, log, append_index, metadata, chunks, written, interrupted>>

------------------------------------------------------------------------------
(* lazy_delete: chunk by chunk.                                            *)

\* The positions in c that stay: the loop erases the first copies of a key, as
\* many as delete_list counts.
Stays(c) ==
    {n \in 1 .. Len(chunks[c]) :
        LET k == chunks[c][n].key
        IN  Cardinality({m \in Copies(c, k) : m <= n}) > delete_list[<<k, c>>]}

Pruned(c) == Pick(chunks[c], Stays(c))

OpenChunk(c) ==
    /\ pc = "deleting" /\ c \in chunk.rewrite
    /\ chunk' = [chunk EXCEPT !.out = Pruned(c), !.target = c, !.rewrite = @ \ {c}]
    /\ chunks' = [chunks EXCEPT ![c] = <<>>]
    /\ pc' = "rewriting"
    /\ UNCHANGED <<updates, log, append_index, metadata, delete_list, written, interrupted>>

WriteChunk ==
    /\ pc = "rewriting"
    /\ chunks' = [chunks EXCEPT ![chunk.target] = chunk.out]
    /\ pc' = "deleting"
    /\ UNCHANGED <<updates, chunk, log, append_index, metadata, delete_list, written, interrupted>>

RemoveDeleteList ==
    /\ pc = "deleting" /\ chunk.rewrite = {}
    /\ delete_list' = NoDeletes
    /\ chunk' = NoObject
    /\ pc' = "truncate"
    /\ UNCHANGED <<updates, log, append_index, metadata, chunks, written, interrupted>>

\* Checkpoint() clears the log.  The updates it clears are those of a copy.
TruncateLog ==
    /\ pc = "truncate"
    /\ log' = NoUpdates
    /\ pc' = "idle"
    /\ UNCHANGED <<updates, chunk, append_index, metadata, chunks, delete_list, written, interrupted>>

------------------------------------------------------------------------------
\* The process dies and a new one replays the log.
Crash ==
    /\ pc \in CrashAt
    /\ updates' = log
    /\ chunk' = NoObject
    /\ pc' = "idle"
    /\ interrupted' = (interrupted \/ pc \notin {"idle", "truncate"})
    /\ UNCHANGED <<log, append_index, metadata, chunks, delete_list, written>>

Init ==
    /\ pc = "idle" /\ chunk = NoObject
    /\ updates = NoUpdates /\ log = NoUpdates
    /\ append_index = 0 /\ metadata = NoMetadata
    /\ chunks = [c \in Ids |-> <<>>]
    /\ delete_list = NoDeletes
    /\ written = [k \in Keys |-> Empty] /\ interrupted = FALSE

Next ==
    \/ \E k \in Keys, v \in Values \cup {Empty} : Puts(k, v)
    \/ InitChunk
    \/ \E k \in Keys : AppendKv(k)
    \/ OpenIndex \/ WriteIndex \/ OpenMetadata \/ WriteMetadata
    \/ AppendDeleteList
    \/ \E c \in Ids : OpenChunk(c)
    \/ WriteChunk \/ RemoveDeleteList \/ TruncateLog
    \/ Crash

Spec == Init /\ [][Next]_vars

------------------------------------------------------------------------------
(* Properties.                                                             *)

TypeOK ==
    /\ pc \in Steps
    /\ updates \in [Keys -> Values \cup {Empty, NoVal}]
    /\ log \in [Keys -> Values \cup {Empty, NoVal}]
    /\ chunk \in [index : Ids, metadata : [Keys -> Ids \cup {NoChunk}],
                  del : [Keys \X Ids -> Nat], todo : SUBSET Keys,
                  rewrite : SUBSET Ids, target : Ids, out : Seq(Record)]
    /\ append_index \in Ids \cup {Torn}
    /\ metadata \in [Keys -> Ids \cup {NoChunk}]
    /\ chunks \in [Ids -> Seq(Record)]
    /\ delete_list \in [Keys \X Ids -> Nat]
    /\ written \in [Keys -> Values \cup {Empty}] /\ interrupted \in BOOLEAN

\* What a process that died now would read after its recovery.
Recoverable(k) ==
    IF log[k] # NoVal THEN log[k]
    ELSE IF GetValue(k) = NoVal THEN Empty ELSE GetValue(k)

\* A file has been truncated and not yet been written.
Tearing == pc \in {"index", "meta", "rewriting"}

(***************************************************************************)
(* The chunk files keep what checkpoints moved to them: with the log, they *)
(* give back the last value of every key, at every step of a checkpoint at *)
(* which no file is empty, through roll-over, and whatever duplicates an   *)
(* earlier interrupted checkpoint left behind (append_kvs, get_value,      *)
(* lazy_delete).                                                           *)
(***************************************************************************)
ChunksDurable == ~Tearing => \A k \in Keys : Recoverable(k) = written[k]

(***************************************************************************)
(* Lazy deletion is complete: between checkpoints, a key has one copy if   *)
(* chunk_metadata lists it, in the chunk listed, and none if not, unless a *)
(* crash has cut a checkpoint short (lazy_delete removes the copies that   *)
(* append_kvs marked, also when the log makes it write a key again).       *)
(***************************************************************************)
Compact ==
    pc = "idle" /\ ~interrupted => \A k \in Keys, c \in Ids :
        IF metadata[k] = c THEN \E n \in 1 .. Len(chunks[c]) : Copies(c, k) = {n}
                           ELSE Copies(c, k) = {}
==============================================================================
