# PennCloud in TLA+

A verification project for PennCloud: a cloud platform (mail and file storage in
the browser) on top of a replicated key-value store. It consists of TLA+ modules
translated from the C++ sources, TLC configurations that check them on small
instances, and TLAPS proofs about the key-value node, its group, the master's registries,
the accounts, the mailboxes and the SMTP server.

## 1. The system

| Component | Sources | State | Operations |
|---|---|---|---|
| key-value node | `backend/kvstore.cpp`, `cache.h`, `cluster_interface.h`, `kv_config.h` | read cache, updates cache, two sequence counters, `isPrimary`, `killed`; on disk the log and the users' folders | PUTS, CPUT, DELE, GETS, ALL, CKPT, SYNC, CLUSTER, KILL, RESTART; recovery at start |
| chunk files | `backend/chunk.h` | per user: `chunk_index`, `chunk_metadata`, `delete_list`, `chunk-N` | `init`, `get_value`, `append_kvs`, `write_meta_back`, `lazy_delete` |
| replication in a group | `backend/cache.h`, `cluster_interface.h` | list of the group's members, forwarded writes on their way, the transfer of a SYNC | forwarding of writes and checkpoints, SYNC (log or full copy), takeover |
| master: backends | `master/monitor.h`, `master.cpp`, `admin.h` | `backends`, `alive_backends`, `dead_backends` | a backend connects or disconnects; KILL and RESTART from the console; look-up of the primary of a user |
| master: load balancer | `master/load_balance.h`, `master_request.h` | `frontends`, by descriptor | a frontend joins or leaves; redirect a browser |
| mailbox | `email/mbox.h`, `frontend/mail/mbox.h`, `frontend/email.h`, `email_reply.h` | the value `mbox` of each user; `to_be_deleted` | deliver, list, display, delete |
| SMTP server | `email/smtp.cpp`, `server.h`, `mail.h` | per connection: dialogue state and mail; one connection to the master for all | HELO, MAIL, RCPT, DATA, RSET, NOOP, QUIT |
| mail to other domains | `frontend/mail/relay.h` | none | client of foreign SMTP servers |
| login, sessions | `frontend/login.h`, `reply.h`, `request.h` | cookies in each frontend, passwords in the store | sign up, sign in, change password |
| file storage | `frontend/storage*.h` | directory tree in one metadata value, files beside it | create, upload, move, rename, delete, download |
| frontend process | `frontend/frontend.cpp`, `common/http_operation.h` | registered, listening | connect to the master, listen, serve one request at a time |
| transport, files | `common/*.h` | none | framed messages over TCP, files, hashing |

How they interact. A backend connects to the master and is told its group by a
CLUSTER message; the first member is the primary. Frontends and SMTP workers ask
the master for the primary of a user and send it commands, which it forwards to
the secondaries, applies, logs and answers; every 20 messages it checkpoints. The
administrator kills and restarts backends through the master. Mailboxes, passwords
and directory trees are single values that clients read, change and write back
with CPUT.

What is hard. A node is a log, two caches and a set of files that have to agree
through a crash at any point, with the role and the recovery of the process
decided by messages of the master. The master's registry is changed by two
threads without a lock. Clients race for one value and retry. Nobody waits with a
time limit: a backend that is killed from the console answers no command, and who
has sent one hangs (`kvstore.cpp:66-70`, `kv_interface.h:45`). All of this is hard
to reach by tests; `PROJECT.json` lists the hazards line by line.

What makes each part correct:

- node: a value that was acknowledged is returned until it is overwritten, also
  after crashes; the two sequence counters agree; a node can always recover;
- chunk files: with the log they give back the last value of every key;
- group: members that have handled everything hold the same table in memory and on
  disk; the next primary has every acknowledged write; a SYNC leaves two equal nodes
  and ends;
- registry of backends: a server has one element, its vectors agree, the primary it
  names is alive and knows its role, and keeps it while it is alive;
- registry of frontends: it holds the frontends that run; browsers are served;
- login: an account has both its cells, and nobody's files are reset;
- storage: the tree stays a tree, an upload that was carried out stays readable, what
  was deleted is gone, contents belong to entries, SUCCESS is answered for what was
  done, requests end;
- mailbox: no mail is lost or doubled, ids identify mails, retries end;
- SMTP: a mail reaches its accepted recipients, all of them and no other.

Not all of this is true of the code. Section 5 says where it is not, with the
configurations that show it.

## 2. Modules

| Module | Models | Role |
|---|---|---|
| `KvInterface` | rows, columns, values, answers | shared vocabulary |
| `KvMap` | what `common/kv_interface.h` promises | abstract specification |
| `KvNode` | one backend that is alone in its group | detailed specification, implements `KvMap` |
| `KvNodeProofs` | | theorems about `KvNode`: types, sequence numbers, durability, recovery, it implements `KvMap` |
| `Chunk` | the chunk files of one user under checkpoints and crashes | refines what `KvNode` takes as a map |
| `ChunkProofs` | | theorems about `Chunk`: types, durability, no stale copies |
| `KvGroup` | the members of a group: forwarding, forwarded checkpoints, SYNC, takeover, crashes | composes several nodes, abstracted from `KvNode`, with the master's messages |
| `KvGroupProofs` | | theorems about `KvGroup`: types, calls of the master, the place of each node in its group |
| `KvGroupHistory` | | theorems about the data of a group: members agree, no acknowledged write is lost, SYNC aligns |
| `Monitor` | the registry of backends with one operation at a time, the messages, the backends' reaction | |
| `MonitorProofs` | | theorems about `Monitor`: types, the primary is stable, the vectors agree, servers learn their role |
| `Registry` | the loops over `alive_backends` and `dead_backends`, statement by statement, in two threads | takes apart what `Monitor` does in one step |
| `Frontends` | load balancer, registry of frontends, frontend processes, sign-up, sign-in, cookies, passwords | composes the master, the frontends and the table |
| `FrontendsProofs` | | theorems about `Frontends`: types, registry, accounts, files |
| `Storage` | the requests of `StorageHandler` on one user's tree and files | uses the atomic table of `KvMap` |
| `Mailbox` | delivery and deletion by read-modify-CPUT, the mail pages | uses the atomic table of `KvMap` |
| `MailboxProofs` | | theorems about `Mailbox`: types, no mail twice or lost, ids |
| `Smtp` | the SMTP dialogue and delivery over the shared connection to the master | uses the mailbox as a set |
| `SmtpProofs` | | theorems about `Smtp`: types, who gets a mail |
| `Pick` | what a loop that copies part of a vector leaves | used by `Monitor`, `Mailbox`, `KvGroup` and `Chunk` |
| `MC*` | | instances and symmetry for TLC |

**KvNode.** `main` is the thread of `RunServer` (waiting for its role, replaying,
running), `conn` the thread of `handle_connect`, which runs commands one by one.
`read_cache` and `updates_cache` map cells to values or to `NoVal`; `sequence_id`
is the counter of `KvCache`, `max_sequence` the one of `run_command`; `log` is the
log file with its header (`absent`, `bare` when the header is missing, `ok`),
`store` the chunk files as a map, `dirs` the users with a folder. A command is one
action that includes the sequence check, the log record, both caches, the answer
and the count of messages that may begin a checkpoint (`EndMessage`). That is exact
while `main` does nothing, which is so once it has recovered; a command that comes
earlier (`early`) takes its number from `max_sequence` in one step (`EarlyNumber`) and is
executed in another (`EarlyWrite`), between which `main` may go on. A checkpoint
works on a copy (`ckpt`), as `checkpoint(KvCache cache)` does, and takes one step
per user, one for the truncation and one for the header. Replay takes one step
per record, and is `main`'s at start and `conn`'s at RESTART: `replay[t]` is the place
of each in the log, and both may be under way when a KILL came during the first
(`earlyKill`). `Crash` can happen between any two steps, `CrashAfterLog` between the
log record and the answer, `CrashInSignUp` after the folder was made.

**Chunk.** One step per file operation; a file opened for writing without append
is empty until it is written, which is a step of its own. A record is atomic, and
the size of a file is counted in records. `CrashAt` names the steps at which a
run lets the process die.

**KvGroup.** A node is its two threads again (`main`, `conn`), its sequence number,
its update and its disk; one cell stands for the table, since what is at stake is
which writes a member has. The primary forwards a write to one member after the other
(`ForwardOne`), then applies it (`ApplyWrite`); a secondary reads its messages in the
order they came (`inbox`, one queue because each connection carries one message). A
CPUT is forwarded before its expected value is compared; one that fails (`stale`) uses
up a number at every member and logs nothing, as in `KvNode`. `RunServer` decides from
the list in CLUSTER whether the node is primary (it replays its log) or secondary
(`Ask`, then `ReadLog` or `ReadFiles`, while the primary is in `SendFiles`/`EndServe`
and runs nothing else). `Crash`, `Kill`, `Restart` and `Start` include what the master
does at once: it changes `alive` and sends the list to the group. Without `"takeover"`
in `Hazards` a node only joins behind a member that has recovered (`MayJoin`), and the
first member does not crash while the next one has not recovered and another still
waits for its first CLUSTER (`LeavesNewcomer`): that one would be told to copy from a
member that is itself copying, or be primary with an empty cache. It takes four nodes
and two faults to see the first of these: a node that asks a member which is still
joining gets its old log.

**Monitor.** An operation of the master begins when the one before is over, although
no lock of the code sees to that; what follows if it is otherwise is in `Registry`. Each
loop over one of the vectors is a step, and so is each message, with the backends'
steps in between. `backends[b]` is the element in `backends`, `entry[b]` the copy in
`alive_backends` or `dead_backends`, `alive` the order of `alive_backends`.
`node[b]` is what the process has made of the messages it handled.

**Registry.** `vec` holds the two vectors as sequences of elements, in which a server may
stand twice or not at all. A thread walks with a position: it tests for the end,
compares, changes the element, pushes it to the other vector and erases it, one step
each. An erase moves the elements behind it, so that the position of the other thread
is at another element; a position outside its vector, or a vector that has to grow
(`Capacity`) while it is walked over, is undefined behaviour, after which the
model says nothing (`Undefined`). `seen` records the primaries of a group while
`get_primary` looks for one.

**Frontends.** `conn[fd]` is the connection behind a descriptor of the master with
what it has to read from it; descriptors are used again as soon as they are closed.
`handle_browser` checks the registry and selects in two steps (`Check`,
`SelectFrontend`), between which `handle_connect` may change it when `race` is admitted.
A frontend has one thread for its browsers: it reads and answers one request after
the other, and when a backend never answers it hangs with all that were sent to it
(`Hang`). The password is one CPUT; the tree of a new user is written by
`InitializeUsr`, a step of its own. `create_cookie` empties the table when it has
grown above its limit.

**Storage.** `store` is the metadata as the key-value table holds it, `session[s]`
one request with its own copy of it (`text`, the string it read, and `mem`, the tree
parsed from it). A step ends with at most one command of the table. A failed CPUT
takes the change back, and `Reload` parses the new text *into* the former tree, as
the code does. `HandleDelete` is recursive in the code; here it is a stack of frames.
`answer` is the status of the response: a request that ends early has FAIL only where
the code sets it, and else what `resp.Clear()` has left, the default SUCCESS
(`LinkBreaks`). A frontend that dies answers nothing (`CutOff`), and one whose backend
was killed waits (`Silent`).

**Mailbox.** A mailbox is the sequence of its mails. A worker is one `struct MBox`
in `write` or `del`: GETS, then CPUT, then reload and CPUT again. `LinkError`
covers a connection that breaks, before or after the CPUT was executed, `Refused` a
CPUT that fails for another reason than a changed mailbox, after which the loop goes
on, and `Silent` a command that is never answered. `open[u]` are the pages of mails that
`u` has open; `to_be_deleted` is set by each page (`Display`), read by DELETE
(`DeleteMail`) and reset by nothing.

**Smtp.** A session is the local state of `smtp_worker`; the n-th accepted MAIL of
a session is its n-th mail. The recipients are written one by one, each after a
question to the master on the shared connection. `WriteMbox` writes nothing for a user
whom the backend does not know (`Known`); a look-up, connection, read or write that
fails skips the recipient (`Skip`), whom the history variable `failed` remembers; a
backend that never answers stops the worker (`Silent`).

**Hazards.** Situations that the code does not handle are admitted by name through
the constant `Hazards` (`CrashAt` in `Chunk`), so that a run can show what holds
without them and what breaks with them. They are guards on the environment
(clients, crashes, scheduling), never on what the code does. The table of section
4 says which run admits which, and section 5 what fails with the others. Where a
situation is likely (a user opens a second page, a CPUT fails, a backend is
killed while a client waits) this says nothing for the code: a property that is
checked without it is one that the code has only without it.

**Operators named `Bad...`** are deliberately wrong variants of the definition that
follows them. No specification uses them; they serve to check that each property
notices a plausible bug.

## 3. Runs

| Run | Checks | Bounds |
|---|---|---|
| `kv_node_safe` | `TypeOK`, `SeqInSync`, `ReadCacheFresh`, `Durable`, `ImplementsKvMap` | 2 users, 1 column, 2 values, checkpoint every 3 messages, 4 writes in sequence |
| `kv_node_live` | `RecoveryEnds` | 1 user, 1 column, 1 value, 2 writes, all hazards |
| `kv_stale_cput` | `RecoverySucceeds` is violated | 1 user, 1 column, 1 value |
| `chunk_crash` | `TypeOK`, `ChunksDurable`, `Compact` | 2 keys, 2 values, a new chunk after 2 records, 3 chunks |
| `kv_group` | `TypeOK`, `GroupAgrees`, `AckedKept`, `SyncAligns` | 3 nodes, 2 writes, 1 crash or KILL |
| `kv_group_live` | `SyncEnds` | 2 nodes, 1 write, 2 crashes or KILLs |
| `monitor_serial` | `TypeOK`, `ListsAgree`, `PrimaryServes`, `NodesInformed`, `PrimaryStable`, `NodeJoins` | 3 backends in 2 groups |
| `registry_moves` | `OneElement` is violated | 3 backends in 2 groups, room for 4 elements |
| `mail_work` | `TypeOK`, `NoMailLost`, `NoMailTwice`, `IdsUnique`, `WorkEnds` | 2 users, one of them deleting, 3 mails, 2 threads |
| `smtp_deliver` | `TypeOK`, `OwnRecipients`, `AllRecipients`, `DotAnswered` | 2 sessions, 2 users in different groups, one without an account, 2 recipients, 1 mail each |
| `storage_work` | `TypeOK`, `TreeIntact`, `UploadsKept`, `ContentMatches`, `RequestsEnd`, `DoneUnlessBroken` | 2 sessions, 2 names, 3 requests, 1 retry each, 1 fault |
| `frontends` | `TypeOK`, `RegistryExact`, `AccountWhole`, `FilesNotReset`, `BrowserServed` | 2 frontends, 2 browsers, 2 descriptors, 1 password, 4 forms, 1 fault |

Run one with `tlc -config <run>.cfg <module>`, the module being the `MC` module of
the component. The other configurations are described in section 5.

Why the bounds are enough. A node writes, checkpoints, fails and recovers on a log of
up to four records, which is more than one checkpoint period: records before, in and
after a checkpoint occur together, and so do two crashes in a row, since nothing but
the number of writes is bounded (`MaxSeq`). `Period` is 3 where the code has 20; the
proofs hold for every period. Two keys and a limit of one record make every second
append roll over. A group of three has a primary, a member that takes over and one
that joins; one write can be in a log or in a checkpoint while the other is on its
way. A node may join as often as it likes; only crashes, KILLs and writes are counted.
Two threads are all that change the registry of backends; with three backends an erase
moves one server of a group to the place of another. One fault is enough for a
frontend to come back on another descriptor while the end of its old connection is
unread; four forms let a second sign-up follow on a sign-up, a sign-in and an upload.
Two descriptors for two frontends are used again by the other one. A tree with a
folder and a file in it, or an empty one, and three requests of two sessions give
every pair of operations with a third to undo or repeat what they did; one retry is
enough for a session to go on from a copy that another one has overtaken. The chain of
a mailbox conflict (read, lose, reload, lose again) needs three mails. Two recipients
in different groups tell an answer for one from an answer for the other.

Larger instances, checked by hand with no error and left out for their time:
`kv_group` with 2 nodes, 2 writes and 2 faults (61 000 states), and with 3 nodes, 1 write
and 2 faults (1.8 million); `frontends` with 2 faults and 2 passwords, without
`BrowserServed` (320 000).

Fairness. What a process does on its own goes on; what others send or answer is owed
by nobody. `KvNode`: the two threads keep running (weak fairness of recovery and of
the checkpoint); clients, the administrator and restarts of the process owe nothing.
`KvGroup`: both threads of each process keep running. `Monitor`: the threads keep
running, a backend handles its messages, and epoll does not leave a ready connection
aside for ever (strong fairness, since the thread is busy with others in between).
`Frontends`: a frontend goes on to listen and finishes a sign-up, unless its thread
hangs at a killed backend (`Silent`, `SilentInit`); the master reads its connections,
its `handle_browser` serves a browser that waits (strongly, as epoll does), a frontend
that is not busy answers (strongly, too), and a browser asks again; nobody has to
start a frontend, which is why `BrowserServed` assumes one that serves, and it assumes
a master that lives, which the division by zero may end. `Storage`, `Mailbox` and
`Smtp`: a thread goes on as long as its commands are answered. The primary may be
killed under any of them, and then the thread is `hung`, which the properties count as
an outcome of its own: no other thread is kept by it. `Smtp` is fair strongly where
workers wait for their turn at the shared connection. That the master answers is
assumed: it answers USR_TO_BACKEND from its own memory (`master.cpp:27-36`). That a
CPUT is not refused for ever is a condition in `WorkEnds`.

Deadlock is checked for the node, the chunk files and `Monitor`. The
others may stop: every write, request and fault of the bound has happened, every
mail has been sent, every session is closed, every thread is hung or lost.

## 4. Which hazards the passing runs admit

| Run | Admitted |
|---|---|
| `kv_node_safe` | failed CPUTs (`stale`), a crash between the truncation and the header (`window`) |
| `kv_node_live` | all: also early clients, KILL and RESTART during a replay, writes to users without a folder, clients between CLUSTER and RESTART |
| `chunk_crash` | crashes at `idle`, `append`, `indexed`, `listing`, `truncate`: all steps but those at which a file is empty or the chunks are being pruned |
| `kv_group` | none; crashes of every member, the primary included, during writes, checkpoints and SYNC. No CPUT fails |
| `kv_group_live` | writes while a node joins (`overlap`), a primary that dies between two forwards (`partial`), one that dies with forwarded writes unread (`backlog`), failing CPUTs (`stale`) |
| `monitor_serial` | none; crashes at any time, but one operation of the master at a time |
| `mail_work` | `link`, `silent`, `refused`; deliveries overlap at the mailbox of the user who does not delete, the other one has one page open at a time and uses it once |
| `smtp_deliver` | `hangup`, `down`, `silent`; one worker at a time asks the master, and a connection has one transaction with recipients |
| `storage_work` | `link`, `silent`, and frontends that die; additions overlap with each other, removals do not overlap with anything |
| `frontends` | all: `race`, `silent`, and also crashes and broken connections |

## 5. What the model shows of the code

Two runs end in a violation; they are the findings of `PROJECT.json`:

- `kv_stale_cput`: a failed CPUT leaves a gap in the sequence numbers of the log, and
  no later start of the node gets over it;
- `registry_moves`: a KILL on the console and the end of the same server's connection
  handled at once: the server is moved and erased twice. With it fall `ListsAgree` and
  `PrimaryStable` of `Monitor`: a server that is twice in `alive_backends` is
  primary by its second copy, and a KILL that takes the first one away changes it.

These configurations are run by hand, `tlc -config <name>.cfg <MC module>`. Each ends
in a violation, too, within seconds, but for the last:

- `kv_early_write` (`SeqInSync`): a write of an early client takes its number, then
  `ReplayLoggings` sets `max_sequence` (`cache.h:837`), then the write is accepted
  (`cache.h:889-896`): `max_sequence` is one behind `sequence_id_`, so that the next
  write is refused with SEQ_ERROR, which uses a number and aligns them again;
- `kv_stale_sync` (`SyncAligns`): after a failed CPUT at the primary, a node that joins by
  the log alone is one number behind when its SYNC is over. It does take the writes
  that are forwarded to it, since each member numbers them itself (`kvstore.cpp:76`), but
  under numbers one lower, and so are its checkpoints, which `NeedFullSync` compares;
- `registry_lookups` (`LookupPrimary`): `get_primary` skips a server because the console
  has erased the one before it, and names one that was not primary, or none;
- `smtp_rset` (`OwnRecipients`): RSET, like the end of a mail, does not clear the
  recipients (`mail.h:20`), and the next mail goes to them too;
- `smtp_overlap` (`AllRecipients`): two workers read each other's answer of the master,
  and a mail that was confirmed is dropped;
- `smtp_unknown` (`ConfirmedDelivered`): 250 for an address that nobody has (`smtp.cpp:135`),
  and 250 for the mail to it;
- `storage_overlap` (`DeletedGone`): a deletion that runs while another session retries is
  undone, because reloading adds the stored entries to the tree already in memory
  (`storage.h:143`, 694);
- `storage_default` (`SuccessMeansDone`): the connection breaks, and a creation that was not
  carried out is answered with the default of the status, SUCCESS (`storage.h:444`).
  `DoneUnlessBroken`, which `storage_work` checks, excuses just this step;
- `frontends_race` (`SelectsFrontend`): `handle_browser` divides by the size of a map that
  has become empty, which ends the master (`MasterDies`);
- `registry_console` (`OneElement`) has no error: when one thread at a time changes the
  vectors, each server keeps one element in the vector of its state, look-ups or not.

Changing the constant in a configuration shows these too:

- node: `Hazards = {"window"}` in `kv_stale_cput`: the node dies between truncating
  the log and writing its header and cannot start again; `{"early"}` there: a client
  that writes before replay has ended spoils the log; `{"earlyKill"}` there: KILL
  during a replay and the CLUSTER and RESTART after it make two replays run on the
  same cache, and the recovery fails; `{"stray"}` with `Durable`: an update of a user
  without a folder disappears at the next checkpoint; `{"restartGap"}` with
  `ImplementsKvMap`: a write sent between CLUSTER and RESTART is answered FINISHED and
  not executed;
- chunk files: `CrashAt = {"meta"}` with `ChunksDurable`: a crash while
  `chunk_metadata` is rewritten loses the keys of earlier checkpoints; `{"deleting"}`:
  after a crash in `lazy_delete` the next checkpoint prunes live records;
- group: `{"stale"}` with `GroupAgrees`: a failed CPUT leaves the sequence number of a
  node that joined by the log behind; with `AckedKept`, 2 nodes, 3 writes and 2
  faults: the checkpoint numbers no longer say who is ahead, and an acknowledged write
  is lost on takeover; `{"overlap"}`: a write forwarded to a node that is joining is
  applied twice or lost there; `{"partial"}` with `GroupAgrees`: the secondaries
  disagree for good when the primary dies between two forwards; `{"backlog"}` with
  `AckedKept` and two faults: an acknowledged write disappears; `{"takeover"}` with
  `SyncAligns`: a node that is told to be primary before it has copied anything makes
  the others copy its empty or old state, although the comment at `cache.h:582`
  expects the log alone to be enough; `{"killBusy"}` with `SyncEnds`: a KILL that
  overtakes a SYNC leaves the secondary waiting for ever;
- registry of backends: `{"quickRestart"}` with `PrimaryServes`: KILL reaches the
  process that was started in the place of the one it was meant for;
- storage: `{"overlap"}` with `TreeIntact`: a rename in the same place leaves the
  folder under both names; `{"clash"}`: a rename or a move to a name in use replaces
  the entry that had it and leaves its content behind; `{"stalePage"}`: a request from
  an old page works on a file as if it were a folder, or moves a folder into itself;
- mail: `{"overlapWrite"}` with `IdsUnique`: two concurrent deliveries give their
  mails one id; `{"overlapDelete"}` with `NoMailTwice`; `{"sharedView"}`,
  `{"twoPages"}` and `{"again"}` with `NoMailLost` (the first with two readers):
  DELETE removes the mail that another user's page, or another page of the same user,
  has shown last, or a new mail that got the id of the one deleted before;
- SMTP: `{"down"}` with `ConfirmedDelivered`: a recipient at whom a look-up, a
  connection, a read or a write failed is skipped, and 250 is answered.

Under `silent` a worker, a request or a frontend that waits for a killed backend waits
for ever; a frontend has one thread, so that it serves nobody from then on, and the
load balancer still sends browsers to it (`Stranded`).

Seen while modelling, and not stated as a property: deleting a folder removes its
files one by one and stops half-way at the first failure; undoing an upload makes two
attempts and then leaves the entry without a content; a sign-up broken off after
its CPUT leaves a name that can neither be used nor be signed up again; a frontend is
announced to browsers before it listens.

## 6. Proofs

`KvNodeProofs` proves of `KvNode`, for every set of users, keys and values, every period
and every bound:

- `TypeCorrect`: `Spec => []TypeOK`, with every hazard;
- `SequenceNumbersAgree`: `Spec => []SeqInSync`, without early clients (`Patient`): with
  them it fails (`kv_early_write`). Failed CPUTs, crashes, KILL and RESTART during
  a replay do no harm to it;
- `Durability`: `Spec => []Durable`, without clients or a KILL before recovery is over
  and without writes to users that have no folder (`Gentle`);
- `ReadCacheCoherence`: `Spec => []ReadCacheFresh`, under the same condition;
- `RecoveryNeverFails`: `Spec => []RecoverySucceeds`, without failed CPUTs, without
  a crash between the truncation and the header, and without clients or a KILL before
  recovery is over (`Orderly`). Each of the four makes it fail (section 5), so that the
  theorem says that nothing else does: KILL and RESTART of a recovered node, clients in
  between, writes to users without a folder and crashes everywhere else are harmless
  to the log.

`MonitorProofs` proves of `Monitor`, for every set of backends, groups and descriptors,
with the operations of the master one at a time, as `Monitor` has them (with two
threads at once the vectors are wrong, `registry_moves`):

- `PrimaryStability`: `Spec => PrimaryStable`, `MonitorTypeCorrect`: `Spec => []TypeOK` and
  `RegistryAgrees`: `Spec => []ListsAgree`, backends that start again before the end of
  their former connection is read included;
- `ServersInformed` and `PrimaryAnswers`: `Spec => []NodesInformed` and
  `Spec => []PrimaryServes`, without such early starts, which make them fail.

`FrontendsProofs` proves of `Frontends`, for every set of frontends, browsers,
descriptors and passwords, every number of requests and faults, with both hazards:

- `FrontendsTypeCorrect`: `Spec => []TypeOK`;
- `RegistryCorrect`: `Spec => []RegistryExact`;
- `AccountsWhole`: `Spec => []AccountWhole`;
- `FilesSafe`: `Spec => FilesNotReset`.

`KvNodeProofs` also proves `NodeImplementsMap`, `Spec => ImplementsKvMap`: the initial states
of `KvNode` map to those of `KvMap` and each step to a step or to a stutter, under
`Gentle` and without clients between CLUSTER and RESTART (`Faithful`).

`ChunkProofs` proves of `Chunk`, for every finite set of keys, every set of values, every
size limit and every bound:

- `ChunkTypeCorrect`: `Spec => []TypeOK`, with crashes at every step;
- `ChunksSafe`: `Spec => []ChunksDurable`, with crashes everywhere but where a file is
  empty or `lazy_delete` is at work (`Untorn`; each of these loses data, section 5);
- `ChunksCompact`: `Spec => []Compact`, with crashes at every step.

`KvGroupProofs` proves of `KvGroup`, for every set of nodes and every bound, crashes and
all other hazards included, but without a KILL while a node joins or the primary
forwards (`killBusy`):

- `GroupOrderly`: `Spec => []Basic`, the first inductive invariant below;
- `GroupTypeCorrect`: `Spec => []TypeOK`.

`KvGroupHistory` proves of `KvGroup`, for every set of nodes, every number of writes and
of faults, without the situations of `Hazards`, as in the run `kv_group`: no CPUT fails,
no write comes while a node joins, and so on. Crashes, KILLs, takeovers, restarts and
SYNCs are part of it:

- `GroupHistory`: `Spec => []GroupInv`, the second inductive invariant below;
- `GroupConverges`: `Spec => []GroupAgrees`;
- `GroupKeepsAcked`: `Spec => []AckedKept`;
- `GroupSyncAligns`: `Spec => SyncAligns`.

`takeover`, `overlap`, `partial`, `backlog` and `stale` each break at least one of these
properties (`stale` all three), and `killBusy` breaks `TypeOK` and `SyncEnds`. Failed CPUTs
are the plainest of these situations; what the theorems say of a group holds until the first
of them.

`MailboxProofs` proves of `Mailbox`, for every set of users, mails and threads:

- `MailboxTypeCorrect`: `Spec => []TypeOK`, with every hazard;
- `MailsOnce`: `Spec => []NoMailTwice`, without `overlapDelete`;
- `IdsIdentify`: `Spec => []IdsUnique`, without `overlapWrite` either;
- `MailsKept`: `Spec => []NoMailLost`, without `sharedView`, `twoPages` and `again`
  either: a frontend with one reader at a time, who has one mail open and deletes it once.

`SmtpProofs` proves of `Smtp`, for every set of sessions, users, accounts and groups:

- `SmtpTypeCorrect`: `Spec => []TypeOK`, with every hazard;
- `OnlyToRecipients`: `Spec => []OnlyRecipients`, with every hazard: who gets a mail was
  accepted on the same connection;
- `OnlyToOwnRecipients`: `Spec => []OwnRecipients`, without `again`: in the same transaction;
- `AllRecipientsServed`: `Spec => []AllRecipients`, without `overlap`; recipients whom nobody
  knows and those at whom a step fails get nothing, and keep nobody else from it.

Broken connections and commands that are never answered (`link`, `hangup`, `down`,
`silent`) are admitted in all of them, and so are refused CPUTs of deliveries; the
refused CPUT of a deletion belongs to `overlapDelete`, since it is its reload, whatever
the reason, that doubles the parsed mails. `NoMailTwice` fails with `overlapDelete`,
`IdsUnique` with `overlapWrite`, `NoMailLost` with each of the last three, `OwnRecipients`
with `again` and `AllRecipients` with `overlap` (section 5).

Assumptions. Those on the constants, named in the modules that declare them:
`Empty` and `NoVal` are not values, `None` is no descriptor, "pwd" is a column,
`Period >= 3` (20 in the code), the bounds are numbers, `Hazards` names known hazards;
in `KvGroup`, `None` is neither a node nor a value; in `Chunk`, the set of keys is finite.

The argument for the node. `SeqInSync` needs the counters to agree whenever no thread
replays the log, dead processes included, and no write to have taken its number
and not been executed (`SeqInv`). `Durable` is not inductive: it says
nothing about memory during replay or about the copy on which a checkpoint works.
`DurableInv` adds five parts: which phases of the two threads go together
(`PhaseInv`); only users with a folder have updates or log records (`FolderInv`);
what is in the updates cache is what the log holds last, or what has been moved to
the chunk files already (`UpdatesInv`); during replay the updates cache is the
prefix of the log read so far (`ReplayInv`); the copy of a checkpoint agrees with
the updates cache, and the users that are done are on disk (`CheckpointInv`). The
lemmas `LastWrite...` say how the last write to a cell changes when a record is
appended.

`RecoverySucceeds` needs to know what the log looks like whenever a process may have
to read it. `RecoverInv` says: only a process that serves runs commands
(`ThreadInv`); the header is missing only while a checkpoint is between its last two
steps (`HeaderInv`); the records carry consecutive numbers from the header on
(`GaplessInv`); a recovered memory is at the number of the last record, and a
checkpoint keeps that number for the header (`NumberInv`); a replay that has read n
records is at the number of the header plus n (`CountInv`). With `SeqInv`, a record
that is appended carries the next number, and the mismatch that makes
`ReplayLoggings` fail cannot occur.

The argument for the chunk files. What a crash may find at each step of a checkpoint is
`DurableInv`: the updates that the log does not hold are given back by the files
through the old metadata, and through the new ones as soon as they are complete
(`DiskInv`); a key that is listed has a record where it is listed (`PlaceInv`), so that
writing it again there makes two; a record is marked at most once, and where its key is
still listed another one follows it (`MarkInv`). So `lazy_delete`, which erases the
first records of a key, keeps the last (`PrunedKeeps`), and `get_value` reads the last.
`Fitting` counts exactly, as long as no crash has cut a checkpoint short: a key has one
record where it is listed and none elsewhere, once the marked ones are erased.
`PrunedIs` says which positions of a file stay, from the facts about `Pick`.

The argument for the registry. The list of alive servers holds each of them at most
once (`AliveInv`), because a server is appended only when its element is in
`dead_backends`, and no other operation comes between; a list without repetitions
changes by appending a new server or by erasing one (`AliveStep`), and neither puts
another server before a primary that stays (`JoinedIs`, `LeftIs`). `ListsAgree` holds
between operations only, so that `ListsInv` has to say what holds within one.
`backends` is always right: its element follows from the connections of the process,
which begin and end in turn on descriptors that nobody else has (`Ordered`,
`PendingInv`), and from what the master has read of them (`BackendsInv`). The copy of
each server agrees with it, or the thread at work is the one whose next loop repairs
it (`Agree`, `Pending`), for which the first loop has left what the second one will
find (`StepInv`). One thread is at work at a time (`OneThread`), so that no other loop
comes between.

`NodesInformed` and `PrimaryServes` speak of the states in which everything sent was
handled; `InfoInv` says what holds on the way. What a thread still has to send is true
now, since the registry waits for it, and goes to connected servers (`OutInv`,
`Sound`). For each server, either the message it needs is still to be sent, or it is in
the queue of the server with nothing after it that undoes it, or its effect is there
(`Knows`, with `Ends` for a queue of any length): the cluster for a server that is
alive, KILL for one that is not, RESTART for one that was killed. A process that dies
loses its queue, but starts again unkilled, and is told its cluster once its
BACKEND_INITIAL was read (`Fresh`, `Joining`). `PrimaryServes` follows, because the head
of the cluster is the server that `get_primary` names (`InGroupIs`). That the clusters
of other groups do not change when a server comes or goes (`InGroupJoined`,
`InGroupLeft`) is a fact about `Pick` (`PickAppend`, `PickThrough`).

The argument for the frontends. A descriptor in the registry belongs to the
connection behind it, a connection whose beginning was read is in the registry, and a
running frontend has the connection it opened (`RegistryInv`): reading an end removes
exactly what reading the beginning had put there. An account exists with its files
unless the frontend that set the password is still at work on it, and only one can
be, because the CPUT succeeds once (`AccountInv`). The types need that there are
enough cookies: one is made for each form (`IssuedInv`).

The argument for the refinement. `KvMap` has a table and the command under way. The
table of a node is what its caches and its disk give back; `DurableInv` says that the
disk alone gives back the same, so that crash, replay and the steps of a checkpoint
leave the table as it is, and each command changes it once.

The argument for the group. A record of a process is well typed only if it never acts
on what it has not: the head of an empty list of members, a write that is none, a
connection to itself, data of a primary that it did not ask. `Basic` says for each node
which stages its two threads are in together (`Stages`), which calls of the master it has
not read (`Called`: a node that recovers has neither KILL nor RESTART before it, a node
that is no member is killed or will read KILL, RESTART comes after the KILL it undoes),
and that it knows its group, and its role if the list begins with it, when it recovers
(`Told`); and for each two nodes that a SYNC on its way is the one for which its sender
waits, and the only one (`Asks`), so that the log is sent to a node that reads a log.
Messages are read at the head and added at the end, or removed with the process that
sent them (`ShapeTail`, `ShapeAppend`, `ShapeUnasked`). With `killBusy` and two faults
`TypeOK` fails: a node that is killed and restarted while its main thread still waits
for the primary runs two synchronisations at once, which read each other's data.

What the members hold needs two more parts, `Orderly` and `OneHistory`. `Orderly` adds to
`Basic` the place of each node among the members (`Place`). A member's view is the list,
or the list is the last CLUSTER in its queue (`Views`). Who is primary is the first of
the list or has a KILL to read, and only the first forwards, checkpoints or serves
(`Roles`). Writes are on their way to recovered secondaries only (`Writes`), and the
write under way goes to each of them once (`Forwards`). A node that recovers asks the
first member, which has recovered itself, however stale the list was from which it
learned of it, or the one that it asks has left (`Waits`, `Asking`, `Restarts`); what it
has been sent and not read comes from the first member, too (`Linked`), because a SYNC
ends with the process that serves it. Two states have no recovered member: the
one before anybody has recovered (`Pristine`: nothing was written), and the one after the
last member has gone (`Leaver`: only that one can come back first, and it comes back as
primary). The guards that `Hazards` lifts are used here: `MayJoin` and `LeavesNewcomer` for
`Asking`, the absence of `overlap` for `Forwards`.

`OneHistory` says that there are a function `H` from numbers to values and a number `T`,
the last write that counts as made, such that `H` grows up to `T`, the last acknowledged
write is not above `H[T]`, and a write that is being forwarded is `H[T + 1]` (`History`);
and that each node holds its piece of it (`Data`). Every disk, that of a dead process
included, has files of some number between its checkpoint and `T` (`Stale`). A node at
work has the log up to its sequence number, and its update is the value under that
number (`Memory`, `Contents`). What it has not applied is in its queue, each write once
and in order, up to `T`, or `T + 1` if the write under way was sent to it (`Backlog`,
`Limit`); a checkpoint in the queue comes before that write (`Late`). What a node copies,
log or files, ends at `T` (`Copy`), as does the disk of the last member of an empty group
(`Legacy`). `T` grows when the primary applies its write, and also when it dies after it
has forwarded it to all: the client has no answer, but the others have the write
(`DieMoves`); without `partial` it does not die in between. Every other step keeps `H` and `T`
and only moves values between queue, memory, log and files. A new client's write
becomes `H[T + 1]` (`ClientWriteData`), and since nothing depends on `H` above `T` then,
`H` may be changed there (`DataAgrees`).

With all queues empty every member's backlog is empty, so all are at `T` with the value
`H[T]`, which is `GroupAgrees`; the first member, once it has read its queue, is at `T`
(`FirstHolds`), which is `AckedKept`. For `SyncAligns`, what is copied ends at `T`, and the
node that it comes from is the primary (`Hosted`), which is at `T` while it serves.

The argument for the mailboxes. A thread has parsed a mailbox and will CPUT a text made
from it. If the CPUT succeeds, the mailbox is still what was parsed; so the new text
is the old one with the thread's mail, or without the deleted one (`PickFacts`). The
mail that a thread is to write is not in the mailbox yet (`FreshInv`), also after a
broken connection has ended the work of a thread that may have written, and the parsed
list of a deletion is the mailbox itself as long as deletions have it for themselves
(`DeleteInv`). The id taken before the first CPUT is above all others (`WriteInv`).

The argument for SMTP. What is in a mailbox was written for one of the session's
recipients, each of whom was accepted on this connection (`OnlyInv`), and, when
no transaction follows another one with recipients, in this transaction (`OwnInv`); both
relate the recipients of the session, those accepted in answers, and those still to be
served. A worker that has the answer of the master
has the one to its own question (`AllInv`), so that what it has left to do and what
it has done make up the accepted recipients who have an account, but for those at whom a
step failed (`Owed`).

TLC checked each inductive invariant on the instances of section 3 (`RecoverInv` with
two users and `Hazards = {"stray", "restartGap"}` in `kv_stale_cput`) before it was
proved.

Only model-checked: liveness (`RecoveryEnds`, `SyncEnds`, `NodeJoins`,
`BrowserServed`, `RequestsEnd`, `WorkEnds`, `DotAnswered`), since the prover does not
handle fairness; `Registry`, whose one positive property, `OneElement`, is proved for
no number of backends (`registry_console`); `Storage`, which walks its tree by folds
and recursive functions: no fact about what a fold computes can be proved here. For
the same reason `Mailbox`, `Monitor` and `Chunk` copy parts of their vectors with
`Pick`, an explicit function of positions, in the place of `SelectSeq`;
`PickIsSelectSeq` in `MCMailbox` checks that the two agree.

Each proof module extends the module of one component, whose names (`Spec`, `TypeOK`) the
others use too; the lemmas about sequences and `Pick` that several need are therefore in
each of them.

## 7. Not modelled, and the plan

Not modelled: HTML and HTTP; the relay to other domains; the text formats of log,
mailbox and metadata; the console's view of raw data; signals that stop a server. The
two JavaScript files under `frontend/html/js` are minified libraries for the layout of
the pages (jQuery, PhotoSwipe, skrollr, Waypoints and others), written elsewhere and
without a part in what the servers do. Queries and downloads of storage and the pages
of a mailbox that only show mail change nothing and are left out.

Abstracted between modules: `KvGroup` takes a checkpoint and a replay as one step
each, which `KvNode` takes apart, and an operation of the master as one step, which
`Monitor` takes apart, and `Monitor` a loop over a vector, which `Registry` takes apart;
what `Registry` shows of two threads is not carried over to the messages of `Monitor`.
`Frontends`, `Storage`, `Mailbox` and `Smtp` use the table of `KvMap`, which `KvNode`
implements; a backend that was killed answers nothing there (`Silent`). A command that such
a primary was running when it was killed is done or not, as after a broken connection.

What could come next: facts about the folds of `Storage`, for a prover that can use
induction; `KvGroup` with the steps of a checkpoint as in `KvNode`.
