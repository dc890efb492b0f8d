------------------------------- MODULE KvGroup -------------------------------
(***************************************************************************)
(* The members of one group of backends (backend/kvstore.cpp,              *)
(* cluster_interface.h, cache.h): the primary forwards each write to its   *)
(* secondaries before it applies it, checkpoints are forwarded too, and a  *)
(* node that starts or is restarted as a secondary copies the log, or all  *)
(* files, of the primary (SYNC) while the primary runs nothing else.       *)
(*                                                                         *)
(* One cell stands for the whole table; the caches, the steps of a         *)
(* checkpoint and replay entry by entry are in KvNode.  The master does    *)
(* one operation at a time and notices a crash at once (Monitor has its    *)
(* threads); its messages are queued at the nodes.                         *)
(***************************************************************************)
EXTENDS Naturals, Sequences, SequencesExt, FiniteSets, Pick

CONSTANTS
    Nodes,
    None,        \* no node, no value, no data
    MaxWrites,   \* bound: writes the clients send
    MaxFaults,   \* bound: crashes and KILLs
    Hazards      \* which of the situations below the environment produces

(***************************************************************************)
(* Situations the code does not handle, each admitted by name:             *)
(*  "takeover"  a node that has not copied the state of the group becomes  *)
(*              its first member                                           *)
(*  "overlap"   a node joins the group while clients write                 *)
(*  "partial"   the primary dies after it forwarded a write to some of the *)
(*              secondaries and not to all                                 *)
(*  "backlog"   the last recovered node dies with forwarded writes unread  *)
(*  "killBusy"  a KILL while a node is joining or the primary is           *)
(*              forwarding a write or a checkpoint                         *)
(*  "stale"     a CPUT whose expected value is no longer the current one:  *)
(*              every member uses a sequence number up for it and logs     *)
(*              nothing                                                    *)
(***************************************************************************)
ASSUME GroupHazards ==
    Hazards \subseteq {"takeover", "overlap", "partial", "backlog", "killBusy", "stale"}
ASSUME GroupBounds == MaxWrites \in Nat /\ MaxFaults \in Nat
ASSUME GroupNone == None \notin Nodes \cup Nat

VARIABLES
    alive,    \* alive_backends of the master, for this group
    last,     \* the node that left alive last
    inbox,    \* messages a node has not read yet, in the order they came
    node,     \* the process of each node
    disk,     \* its chunk files (base) and its log file
    sent,     \* writes the clients have sent: the n-th writes the value n
    acked,    \* the last of them that was answered FINISHED
    faults    \* crashes and KILLs so far

vars == <<alive, last, inbox, node, disk, sent, acked, faults>>

Empty == 0
\* client: it came from a client, and not from the primary.
Write == [val : 1 .. MaxWrites, prev : (0 .. MaxWrites) \cup {None}, client : BOOLEAN]

\* A process as it starts: main spins in "while (!init);" until CLUSTER.
Fresh ==
    [main    |-> "wait",  \* RunServer: "down" | "wait" | "join" | "run"
     conn    |-> "idle",  \* handle_connect: "idle" | "forward" | "ckpt" | "serve" | "join"
     killed  |-> FALSE,
     primary |-> FALSE,   \* isPrimary
     view    |-> <<>>,    \* secondary: all members, the primary first
     seq     |-> 0,       \* max_sequence and sequence_id_
     update  |-> None,    \* updates_cache_
     cur     |-> None,    \* the write that is being forwarded
     todo    |-> <<>>,    \* members that forward_to_secondary has yet to reach
     serving |-> None,    \* the secondary in PrimarySyncSecondary, None: it is through
     stage   |-> "no",    \* SecondaryRecoverFromPrimary: "no" | "ask" | "log" | "full"
     peer    |-> None,    \* the primary it is connected to, None: connection broken
     link    |-> None]    \* what the primary sent it and it has not read

Down == [Fresh EXCEPT !.main = "down"]

BlankLog  == [state |-> "absent", ckpt |-> 0, ents |-> <<>>]
BlankDisk == [base |-> Empty, log |-> BlankLog]

Up(n) == node[n].main # "down"
Message(com, list, from, w) == [com |-> com, list |-> list, from |-> from, write |-> w]

\* What Gets returns for the cell: the update, else the chunk files.
Value(nd, dk) == IF nd.update # None THEN nd.update ELSE dk.base
Table(n) == Value(node[n], disk[n])

------------------------------------------------------------------------------
(* KvCache on one node: nd is the process, dk its disk.                    *)

\* PUTS is accepted; CPUT only if the value is the expected one.
Accepts(nd, dk, w) == w.prev = None \/ w.prev = Value(nd, dk)

\* Puts / Cputs: the sequence number is used up in either case.
Applied(nd, dk, w) ==
    [nd EXCEPT !.seq = @ + 1,
               !.update = IF Accepts(nd, dk, w) THEN w.val ELSE @]
Logged(nd, dk, w) ==
    IF Accepts(nd, dk, w)
    THEN [dk EXCEPT !.log.ents = Append(@, [seq |-> nd.seq + 1, val |-> w.val]),
                    !.log.state = IF @ = "absent" THEN "bare" ELSE @]
    ELSE dk

\* (wrong on purpose, for the mutation checks, as every operator named Bad...)
BadCheckpointed(nd, dk) ==
    [base |-> Value(nd, dk), log |-> [state |-> "ok", ckpt |-> 0, ents |-> <<>>]]

\* Checkpoint: the updates go to the chunk files, the log keeps the number.
\* It works on a copy of the cache: the node's own updates stay.
Checkpointed(nd, dk) ==
    [base |-> Value(nd, dk),
     log  |-> [state |-> "ok", ckpt |-> nd.seq, ents |-> <<>>]]

\* ReplayLoggings accepts a log whose records carry consecutive numbers.
Replayable(log) ==
    /\ log.state = "ok"
    /\ \A i \in DOMAIN log.ents : log.ents[i].seq = log.ckpt + i
BadReplayed(nd, log) ==
    [nd EXCEPT !.seq = log.ckpt + Len(log.ents) - 1,
               !.update = IF log.ents = <<>> THEN None ELSE Last(log.ents).val]

Replayed(nd, log) ==
    [nd EXCEPT !.seq = log.ckpt + Len(log.ents),
               !.update = IF log.ents = <<>> THEN None ELSE Last(log.ents).val]

BadNeedFullSync(own, log) == own.state = "bare" \/ log.ckpt > own.ckpt + 1

\* The primary's checkpoint is newer than the node's own, or there is no telling.
NeedFullSync(own, log) ==
    own.state = "bare" \/ log.state # "ok" \/ log.ckpt > own.ckpt

------------------------------------------------------------------------------
(* The master.                                                             *)

\* broadcast_group_addr, after a change of the list.
Announce(list, boxes) ==
    [n \in Nodes |-> IF n \in Range(list)
                     THEN Append(boxes[n], Message("CLUSTER", list, None, None))
                     ELSE boxes[n]]

Without(list, n) == Pick(list, {i \in DOMAIN list : list[i] # n})

Pending(n, com) == \E i \in DOMAIN inbox[n] : inbox[n][i].com = com

\* Not (yet, or no longer) a member with the state of the group.
Joining(n) ==
    /\ Up(n)
    /\ \/ node[n].main # "run" \/ node[n].stage # "no"
       \/ node[n].killed \/ Pending(n, "KILL")
Recovered(list) == {n \in Range(list) : Up(n) /\ ~Joining(n)}

\* The node leaves the list; the others are told, if it was in it.
Leave(n, boxes) ==
    IF n \in Range(alive)
    THEN /\ alive' = Without(alive, n)
         /\ inbox' = Announce(alive', boxes)
         /\ last' = IF Recovered(alive) = {n} THEN n ELSE last
    ELSE inbox' = boxes /\ UNCHANGED <<alive, last>>

BadDisconnected(nodes, n) == [nodes EXCEPT ![n] = Down]

\* Connections to a process break with it: of nodes that joined through it,
\* of a primary that served it.  nodes has the other changes of the step.
Disconnected(nodes, n) ==
    [m \in Nodes |->
        IF m = n THEN Down
        ELSE [nodes[m] EXCEPT !.peer    = IF @ = n /\ nodes[m].stage # "ask" THEN None ELSE @,
                              !.serving = IF @ = n THEN None ELSE @]]

\* The messages of q without those of the process n.
Unasked(q, n) == Pick(q, {i \in DOMAIN q : q[i].com # "SYNC" \/ q[i].from # n})

\* The process ends; what it had not read is lost, and so is a SYNC it sent.
Die(n, nodes) ==
    /\ node' = Disconnected(nodes, n)
    /\ Leave(n, [m \in Nodes |-> IF m = n THEN <<>> ELSE Unasked(inbox[m], n)])

\* error() in the code; its disk is as given.
Exit(n, dk) == Die(n, node) /\ disk' = [disk EXCEPT ![n] = dk]

\* Every member has the state of the group and has heard of all the others.
Stable ==
    \A n \in Range(alive) :
        /\ ~Joining(n) /\ node[n].conn # "serve"
        /\ \A i \in DOMAIN inbox[n] : inbox[n][i].com \in {"WRITE", "CKPT"}

Heir(n) ==
    \/ alive # <<>> /\ Head(alive) \in Recovered(alive)
    \/ alive = <<>> /\ last = n
    \/ last = None /\ Recovered(alive) = {}
    \/ "takeover" \in Hazards

\* No write is on its way to the node that joins.
MayJoin(n) == Heir(n) /\ ("overlap" \in Hazards \/ \A m \in Nodes : node[m].conn # "forward")

\* A process starts and sends BACKEND_INITIAL.
Start(n) ==
    /\ ~Up(n) /\ MayJoin(n)
    /\ node' = [node EXCEPT ![n] = Fresh]
    /\ alive' = Append(alive, n)
    /\ inbox' = Announce(alive', inbox)
    /\ UNCHANGED <<last, disk, sent, acked, faults>>

HalfForwarded(n) ==
    /\ node[n].conn = "forward" /\ node[n].todo # <<>>
    /\ Len(node[n].todo) < Len(node[n].view) - 1

\* The first member leaves, the next one has not recovered, and a node that has
\* only been announced would be that one or ask it.
LeavesNewcomer(n) ==
    LET rest == Without(alive, n) IN
    /\ rest # <<>> /\ Head(rest) # Head(alive) /\ Head(rest) \notin Recovered(alive)
    /\ \E m \in Range(rest) : node[m].main = "wait"

Crash(n) ==
    /\ Up(n) /\ faults < MaxFaults
    /\ "takeover" \in Hazards \/ ~LeavesNewcomer(n)
    /\ "partial" \in Hazards \/ ~HalfForwarded(n)
    /\ "backlog" \in Hazards \/ ~(Recovered(alive) \subseteq {n}) \/ ~Pending(n, "WRITE")
    /\ Die(n, node)
    /\ faults' = faults + 1
    /\ UNCHANGED <<disk, sent, acked>>

\* kill_backend: the others are told before the node is.
Kill(n) ==
    /\ n \in Range(alive) /\ faults < MaxFaults
    /\ "killBusy" \in Hazards \/ (Stable /\ \A m \in Nodes : node[m].conn = "idle")
    /\ Leave(n, [inbox EXCEPT ![n] = Append(@, Message("KILL", <<>>, None, None))])
    /\ faults' = faults + 1
    /\ UNCHANGED <<node, disk, sent, acked>>

\* restart_backend, of a node that was killed and still runs.
Restart(n) ==
    /\ Up(n) /\ n \notin Range(alive) /\ MayJoin(n)
    /\ alive' = Append(alive, n)
    /\ LET told == Announce(alive', inbox) IN
       inbox' = [told EXCEPT ![n] = Append(@, Message("RESTART", <<>>, None, None))]
    /\ UNCHANGED <<last, node, disk, sent, acked, faults>>

------------------------------------------------------------------------------
(* handle_connect: messages are run one by one.                            *)

BadOthers(nd, n) == Without(Front(nd.view), n)

Others(nd, n) == Without(nd.view, n)

\* After each message a primary may be at the end of a period and checkpoint
\* (bound: only when its log has records); the first messages of a process,
\* before main has recovered, are too few for it.
NextConn(nd, dk) ==
    IF nd.primary /\ nd.main = "run" /\ dk.log.ents # <<>> THEN {"idle", "ckpt"} ELSE {"idle"}

\* The message ends with the process nd and the disk dk.
EndMessage(n, nd, dk) ==
    /\ \E c \in NextConn(nd, dk) :
          node' = [node EXCEPT ![n] =
                     [nd EXCEPT !.conn = c, !.cur = None,
                                !.todo = IF c = "ckpt" /\ Head(nd.view) = n
                                         THEN Others(nd, n) ELSE <<>>]]
    /\ disk' = [disk EXCEPT ![n] = dk]

\* forward_to_secondary begins, if the node is the primary.
RunWrite(n, w) ==
    IF node[n].primary
    THEN /\ node' = [node EXCEPT ![n].conn = "forward", ![n].cur = w, ![n].todo = Others(node[n], n)]
         /\ UNCHANGED disk
    ELSE EndMessage(n, Applied(node[n], disk[n], w), Logged(node[n], disk[n], w))

Serves(n) ==
    /\ node[n].main = "run" /\ node[n].conn = "idle"
    /\ node[n].primary /\ ~node[n].killed

\* What a client's command expects: nothing (PUTS), or a value it has read (CPUT).
Expected(n) == {None, Table(n)} \cup (IF "stale" \in Hazards THEN 0 .. sent ELSE {})

\* A client's PUTS (or DELE: the empty string is a value like any other) or CPUT
\* at the primary the master names.  It is forwarded before anybody compares.
ClientWrite(n) ==
    /\ alive # <<>> /\ n = Head(alive) /\ Serves(n) /\ sent < MaxWrites
    /\ "overlap" \in Hazards \/ Stable
    /\ \E prev \in Expected(n) : RunWrite(n, [val |-> sent + 1, prev |-> prev, client |-> TRUE])
    /\ sent' = sent + 1
    /\ UNCHANGED <<alive, last, inbox, acked, faults>>

\* A client's GETS; only what follows the message changes anything.
ClientRead(n) ==
    /\ alive # <<>> /\ n = Head(alive) /\ Serves(n)
    /\ EndMessage(n, node[n], disk[n])
    /\ UNCHANGED <<alive, last, inbox, sent, acked, faults>>

\* One connection of forward_to_secondary; a process that is down refuses it.
ForwardOne(n) ==
    /\ node[n].conn \in {"forward", "ckpt"} /\ node[n].todo # <<>>
    /\ LET to == Head(node[n].todo)
           m  == IF node[n].conn = "forward"
                 THEN Message("WRITE", <<>>, None, [node[n].cur EXCEPT !.client = FALSE])
                 ELSE Message("CKPT", <<>>, None, None)
       IN  inbox' = IF Up(to) THEN [inbox EXCEPT ![to] = Append(@, m)] ELSE inbox
    /\ node' = [node EXCEPT ![n].todo = Tail(@)]
    /\ UNCHANGED <<alive, last, disk, sent, acked, faults>>

\* The write is applied at the primary itself and answered.
ApplyWrite(n) ==
    /\ node[n].conn = "forward" /\ node[n].todo = <<>>
    /\ LET w == node[n].cur IN
       /\ EndMessage(n, Applied(node[n], disk[n], w), Logged(node[n], disk[n], w))
       /\ acked' = IF w.client /\ Accepts(node[n], disk[n], w) THEN w.val ELSE acked
    /\ UNCHANGED <<alive, last, inbox, sent, faults>>

\* checkpoint(cache) after it was forwarded.
Checkpoint(n) ==
    /\ node[n].conn = "ckpt" /\ node[n].todo = <<>>
    /\ disk' = [disk EXCEPT ![n] = Checkpointed(node[n], @)]
    /\ node' = [node EXCEPT ![n].conn = "idle"]
    /\ UNCHANGED <<alive, last, inbox, sent, acked, faults>>

------------------------------------------------------------------------------
(* Recovery, by main at the start or by handle_connect in a RESTART.       *)

\* InitCacheForPrimary creates the log, or replays it.
CanInit(dk) == dk.log.state = "absent" \/ Replayable(dk.log)
Initial(nd, dk) == IF dk.log.state = "absent" THEN nd ELSE Replayed(nd, dk.log)
WithLog(nd, dk) ==
    IF dk.log.state = "absent"
    THEN [dk EXCEPT !.log = [state |-> "ok", ckpt |-> nd.seq, ents |-> <<>>]] ELSE dk

\* main, once CLUSTER has set init: the primary recovers, a secondary joins.
RunServer(n) ==
    /\ node[n].main = "wait" /\ node[n].view # <<>>
    /\ LET nd == node[n] IN
       \/ /\ nd.primary /\ CanInit(disk[n])
          /\ node' = [node EXCEPT ![n] = [Initial(nd, disk[n]) EXCEPT !.main = "run"]]
          /\ disk' = [disk EXCEPT ![n] = WithLog(nd, @)]
          /\ UNCHANGED <<alive, last, inbox>>
       \/ nd.primary /\ ~CanInit(disk[n]) /\ Exit(n, disk[n])
       \/ /\ ~nd.primary
          /\ node' = [node EXCEPT ![n].main = "join", ![n].stage = "ask",
                                  ![n].peer = Head(nd.view)]
          /\ UNCHANGED <<alive, last, inbox, disk>>
    /\ UNCHANGED <<sent, acked, faults>>

\* Connect, wait a second (the primary is past its own start by then), send
\* SYNC.  Five refused connections, or the role of the primary, end the process.
Ask(n) ==
    /\ node[n].stage = "ask"
    /\ LET p == node[n].peer IN
       \/ /\ Up(p) /\ node[p].main # "wait" /\ ~node[n].primary
          /\ node' = [node EXCEPT ![n].stage = "log"]
          /\ inbox' = [inbox EXCEPT ![p] = Append(@, Message("SYNC", <<>>, n, None))]
          /\ UNCHANGED <<alive, last, disk>>
       \/ (~Up(p) \/ node[n].primary) /\ Exit(n, disk[n])
    /\ UNCHANGED <<sent, acked, faults>>

\* The last message of SecondarySendFinishedRecovery: the primary reads it.
Released(nodes, n) ==
    [m \in Nodes |-> IF nodes[m].serving = n THEN [nodes[m] EXCEPT !.serving = None] ELSE nodes[m]]

\* The node has recovered, or its log cannot be replayed and it ends.
Joined(n, dk) ==
    \/ /\ Replayable(dk.log)
       /\ node' = Released([node EXCEPT ![n] =
                     [Replayed(node[n], dk.log) EXCEPT !.stage = "no", !.peer = None, !.link = None,
                         !.main = "run", !.conn = IF @ = "join" THEN "idle" ELSE @]], n)
       /\ disk' = [disk EXCEPT ![n] = dk]
       /\ UNCHANGED <<alive, last, inbox>>
    \/ ~Replayable(dk.log) /\ Exit(n, dk)

\* The log has arrived: overwrite the own one and replay it over the own chunk
\* files, or ask for everything, after everything of its own was removed.
ReadLog(n) ==
    /\ node[n].stage = "log" /\ node[n].link # None
    /\ LET log == node[n].link.log IN
       \/ /\ ~NeedFullSync(disk[n].log, log)
          /\ Joined(n, [disk[n] EXCEPT !.log = log])
       \/ /\ NeedFullSync(disk[n].log, log)
          /\ node' = [node EXCEPT ![n].stage = "full", ![n].link = None,
                                  ![n].seq = 0, ![n].update = None]
          /\ disk' = [disk EXCEPT ![n] = BlankDisk]
          /\ UNCHANGED <<alive, last, inbox>>
    /\ UNCHANGED <<sent, acked, faults>>

\* PerformFullSyncFromPrimary
ReadFiles(n) ==
    /\ node[n].stage = "full" /\ node[n].link # None
    /\ Joined(n, node[n].link)
    /\ UNCHANGED <<sent, acked, faults>>

\* The connection to the primary broke before everything was read.
SyncBroken(n) ==
    /\ node[n].stage \in {"log", "full"} /\ node[n].peer = None /\ node[n].link = None
    /\ Exit(n, disk[n])
    /\ UNCHANGED <<sent, acked, faults>>

\* PrimarySendAllContent
SendFiles(n) ==
    /\ node[n].conn = "serve" /\ node[n].serving # None
    /\ LET s == node[n].serving IN
       /\ node[s].stage = "full" /\ node[s].peer = n /\ node[s].link = None
       /\ node' = [node EXCEPT ![s].link = disk[n]]
    /\ UNCHANGED <<alive, last, inbox, disk, sent, acked, faults>>

\* PrimarySyncSecondary returns.
EndServe(n) ==
    /\ node[n].conn = "serve" /\ node[n].serving = None
    /\ EndMessage(n, node[n], disk[n])
    /\ UNCHANGED <<alive, last, inbox, sent, acked, faults>>

------------------------------------------------------------------------------
(* run_command, for a message of the inbox.                                *)

Unread(n) == [inbox EXCEPT ![n] = Tail(@)]
Quietly == UNCHANGED <<alive, last, sent, acked, faults>>

\* parse_secondary_from_master never takes the role of the primary away.
Cluster(n, m) ==
    /\ m.com = "CLUSTER"
    /\ EndMessage(n, [node[n] EXCEPT !.view = m.list, !.primary = @ \/ Head(m.list) = n], disk[n])
    /\ inbox' = Unread(n) /\ Quietly

Restarted(n, m) ==
    /\ m.com = "RESTART" /\ node[n].killed
    /\ LET nd == [node[n] EXCEPT !.killed = FALSE] IN
       \/ /\ nd.primary /\ CanInit(disk[n])
          /\ EndMessage(n, Initial(nd, disk[n]), WithLog(nd, disk[n]))
          /\ inbox' = Unread(n) /\ Quietly
       \/ nd.primary /\ ~CanInit(disk[n]) /\ Exit(n, disk[n]) /\ UNCHANGED <<sent, acked, faults>>
       \/ /\ ~nd.primary
          /\ node' = [node EXCEPT ![n] = [nd EXCEPT !.conn = "join", !.stage = "ask",
                                                    !.peer = Head(nd.view)]]
          /\ inbox' = Unread(n) /\ UNCHANGED disk /\ Quietly

Killed(n, m) ==
    /\ m.com = "KILL" /\ ~node[n].killed
    /\ EndMessage(n, [node[n] EXCEPT !.killed = TRUE, !.primary = FALSE], disk[n])
    /\ inbox' = Unread(n) /\ Quietly

Forwarded(n, m) ==
    /\ m.com = "WRITE" /\ ~node[n].killed
    /\ RunWrite(n, m.write)
    /\ inbox' = Unread(n) /\ Quietly

CheckpointSecondary(n, m) ==
    /\ m.com = "CKPT" /\ ~node[n].killed
    /\ EndMessage(n, node[n], Checkpointed(node[n], disk[n]))
    /\ inbox' = Unread(n) /\ Quietly

\* SYNC: the primary sends its log and then does nothing but serve the node.
PrimarySyncSecondary(n, m) ==
    /\ m.com = "SYNC" /\ ~node[n].killed /\ node[n].primary
    /\ \/ /\ disk[n].log.state # "absent"
          /\ node' = [node EXCEPT ![n].conn = "serve", ![n].serving = m.from,
                                  ![m.from].link = [log |-> disk[n].log]]
          /\ inbox' = Unread(n) /\ UNCHANGED disk /\ Quietly
       \/ /\ disk[n].log.state = "absent"
          /\ Exit(n, disk[n]) /\ UNCHANGED <<sent, acked, faults>>

\* A killed node is deaf, nobody but the primary answers SYNC, and RESTART is
\* for killed nodes.
Ignored(n, m) ==
    /\ \/ node[n].killed /\ m.com \notin {"CLUSTER", "RESTART"}
       \/ ~node[n].killed /\ m.com = "RESTART"
       \/ ~node[n].killed /\ m.com = "SYNC" /\ ~node[n].primary
    /\ EndMessage(n, node[n], disk[n])
    /\ inbox' = Unread(n) /\ Quietly

Receive(n) ==
    /\ Up(n) /\ node[n].conn = "idle" /\ inbox[n] # <<>>
    /\ LET m == Head(inbox[n]) IN
       \/ Cluster(n, m) \/ Restarted(n, m) \/ Killed(n, m) \/ Forwarded(n, m)
       \/ CheckpointSecondary(n, m) \/ PrimarySyncSecondary(n, m) \/ Ignored(n, m)

------------------------------------------------------------------------------
Init ==
    /\ alive = <<>> /\ last = None
    /\ inbox = [n \in Nodes |-> <<>>]
    /\ node = [n \in Nodes |-> Down]
    /\ disk = [n \in Nodes |-> BlankDisk]
    /\ sent = 0 /\ acked = 0 /\ faults = 0

\* What a running process does by itself.
Recovery(n) == RunServer(n) \/ Ask(n) \/ ReadLog(n) \/ ReadFiles(n) \/ SyncBroken(n)
Connection(n) ==
    Receive(n) \/ ForwardOne(n) \/ ApplyWrite(n) \/ Checkpoint(n) \/ SendFiles(n) \/ EndServe(n)

Next ==
    \E n \in Nodes :
        \/ Start(n) \/ Crash(n) \/ Kill(n) \/ Restart(n)
        \/ ClientWrite(n) \/ ClientRead(n)
        \/ Recovery(n) \/ Connection(n)

Spec == Init /\ [][Next]_vars

\* Both threads of a process keep running.
Fairness == \A n \in Nodes : WF_vars(Recovery(n)) /\ WF_vars(Connection(n))

FairSpec == Spec /\ Fairness

------------------------------------------------------------------------------
(* Properties.                                                             *)

Log == [state : {"absent", "bare", "ok"}, ckpt : Nat, ents : Seq([seq : Nat, val : Nat])]

TypeOK ==
    /\ alive \in Seq(Nodes) /\ last \in Nodes \cup {None}
    /\ \A n \in Nodes :
        /\ \A i \in DOMAIN inbox[n] :
              inbox[n][i].com \in {"CLUSTER", "KILL", "RESTART", "WRITE", "CKPT", "SYNC"}
        /\ node[n].seq \in Nat /\ node[n].update \in Nat \cup {None}
        /\ node[n].cur \in Write \cup {None}
        /\ node[n].view \in Seq(Nodes) /\ node[n].todo \in Seq(Nodes)
        /\ node[n].peer \in Nodes \cup {None} /\ node[n].serving \in Nodes \cup {None}
        /\ disk[n] \in [base : Nat, log : Log]
    /\ acked \in 0 .. sent /\ sent \in 0 .. MaxWrites /\ faults \in 0 .. MaxFaults

Settled ==
    Stable /\ \A n \in Range(alive) : inbox[n] = <<>> /\ node[n].conn = "idle"

(***************************************************************************)
(* Once everything sent has been handled, the members of a group hold the  *)
(* same value under the same sequence number, each of them on its disk as  *)
(* well as in its memory, whatever was forwarded, checkpointed, copied and *)
(* crashed before (forward_to_secondary, SecondaryRecoverFromPrimary).     *)
(***************************************************************************)
GroupAgrees ==
    Settled => \A n, m \in Range(alive) :
        /\ Table(n) = Table(m) /\ node[n].seq = node[m].seq
        /\ Replayable(disk[n].log)
        /\ LET again == Replayed(Fresh, disk[n].log) IN
           Value(again, disk[n]) = Table(n) /\ again.seq = node[n].seq

(***************************************************************************)
(* A write that was answered FINISHED is not lost: a primary that has read *)
(* all its messages holds it or a later one, also after other nodes took   *)
(* the role over and the disk of a node was replaced (the writes are       *)
(* numbered in the order the clients sent them).                           *)
(***************************************************************************)
AckedKept ==
    \A n \in Nodes : Serves(n) /\ alive # <<>> /\ n = Head(alive) /\ inbox[n] = <<>>
                     => Table(n) >= acked

(***************************************************************************)
(* A node leaves SYNC with the table and the sequence number of the        *)
(* primary that served it, whether it took all files or, as the comment at *)
(* the end of NeedFullSync has it, only the log.                           *)
(***************************************************************************)
SyncAligns ==
    [][\A n, p \in Nodes :
         node[n].peer = p /\ node[n].stage \in {"log", "full"} /\ node'[n].main = "run"
           /\ node'[n].stage = "no"
         => Value(node'[n], disk'[n]) = Table(p) /\ node'[n].seq = node[p].seq]_vars

(***************************************************************************)
(* Nobody waits for ever: a node that asked to be synchronised ends up     *)
(* recovered or dead, and a primary in PrimarySyncSecondary runs commands  *)
(* again.                                                                  *)
(***************************************************************************)
SyncEnds ==
    \A n \in Nodes : /\ node[n].stage # "no" ~> node[n].stage = "no"
                     /\ node[n].conn = "serve" ~> node[n].conn # "serve"
==============================================================================
