------------------------------- MODULE Monitor -------------------------------
(***************************************************************************)
(* The registry of backend servers in the master (master/monitor.h,        *)
(* master/master.cpp), the two threads that change it, and what the        *)
(* backends learn of it: handle_connect (thread "conn": a backend connects *)
(* or its connection breaks) and the admin console (thread "admin": KILL   *)
(* and RESTART from the browser).  An operation begins when both are idle: *)
(* no lock of the code sees to it, and what the threads do to the vectors  *)
(* when they interleave is in Registry.  Every loop over a vector is one   *)
(* step, and so is every message sent.                                     *)
(*                                                                         *)
(* Each backend has one element in backends, and one that is in either     *)
(* alive_backends (whose order matters) or dead_backends (whose order does *)
(* not); the vectors hold copies, so that the two elements can differ.     *)
(***************************************************************************)
EXTENDS Integers, Sequences, FiniteSets, SequencesExt, Pick

CONSTANTS
    Backends,    \* the addresses of backend.txt
    GroupOf,     \* their clusters
    Fds,         \* descriptors for the connections that backends open
    None,        \* fd = -1
    Hazards,     \* which of the situations below the environment produces
    MaxNet       \* bound: messages that wait for one backend when an operation begins

(***************************************************************************)
(*  "quickRestart"  a backend is started again before the master has read  *)
(*                  the end of its former connection                       *)
(***************************************************************************)
ASSUME MonitorHazards  == Hazards \subseteq {"quickRestart"}
ASSUME GroupAssumption == DOMAIN GroupOf = Backends
ASSUME NoneAssumption  == None \notin Fds
ASSUME NetAssumption   == MaxNet \in Nat \ {0}

VARIABLES
    backends,    \* backends: state and fd of each backend
    entry,       \* its element in alive_backends or dead_backends
    alive,       \* alive_backends, the rest is in dead_backends
    thread,      \* "conn" and "admin": the step they are at
    pending,     \* events of each backend's connection that the master has to read
    net,         \* messages written to each backend, not yet handled
    node         \* the process of each backend

vars == <<backends, entry, alive, thread, pending, net, node>>

Threads == {"conn", "admin"}
States  == {"ALIVE", "DEAD", "CRASH"}
Element == [state : States, fd : Fds \cup {None}]
\* (wrong on purpose, for the mutation checks, as every operator named Bad...)
BadCrashed == [state |-> "CRASH", fd |-> 0]

Crashed == [state |-> "CRASH", fd |-> None]

Groups == {GroupOf[b] : b \in Backends}
IsAlive(b) == \E n \in DOMAIN alive : alive[n] = b

Idle == [at |-> "idle", b |-> None, fd |-> None, out |-> <<>>]

\* A process without connections: isPrimary, killed and the list that
\* parse_secondary_from_master stored last.
Down == [up |-> FALSE, fd |-> None, primary |-> FALSE, killed |-> FALSE, view |-> <<>>]

------------------------------------------------------------------------------
(* Queries.                                                                *)

InGroup(list, g) == Pick(list, {n \in DOMAIN list : GroupOf[list[n]] = g})

\* get_cluster: alive servers of the group, in the order they became alive.
get_cluster(list, b) == InGroup(list, GroupOf[b])

\* get_primary: the first alive server of the group.
IsFirst(list, g, n) ==
    /\ n \in DOMAIN list /\ GroupOf[list[n]] = g
    /\ \A m \in 1 .. n - 1 : GroupOf[list[m]] # g
get_primary(list, g) ==
    IF \E n \in DOMAIN list : IsFirst(list, g, n)
    THEN list[CHOOSE n \in DOMAIN list : IsFirst(list, g, n)] ELSE None

------------------------------------------------------------------------------
(* Messages to the backends.                                               *)

BadBroadcast(list) ==
    [n \in 1 .. Len(list) - 1 |-> [to |-> list[n], com |-> "CLUSTER", addrs |-> list]]

\* broadcast_group_addr, to every server in the list it sends.
Broadcast(list) ==
    [n \in DOMAIN list |-> [to |-> list[n], com |-> "CLUSTER", addrs |-> list]]
Command(b, com) == [to |-> b, com |-> com, addrs |-> <<>>]

\* Whether an operation may begin, then where that of t is.
MayBegin ==
    /\ \A s \in Threads : thread[s].at = "idle"
    /\ \A b \in Backends : Len(net[b]) < MaxNet
At(t, step) == thread[t].at = step
Goto(t, step) == thread' = [thread EXCEPT ![t].at = step]
Begin(t, step, b, fd) ==
    thread' = [thread EXCEPT ![t] = [at |-> step, b |-> b, fd |-> fd, out |-> <<>>]]
Finish(t) == thread' = [thread EXCEPT ![t] = Idle]
SendAll(t, out) ==
    thread' = [thread EXCEPT ![t] = IF out = <<>> THEN Idle
                                    ELSE [@ EXCEPT !.at = "send", !.out = out]]

\* One message: connect, write.  A process that is down refuses the connection.
Send(t) ==
    /\ At(t, "send")
    /\ LET m == Head(thread[t].out)
           rest == Tail(thread[t].out)
       IN  /\ net' = IF node[m.to].up THEN [net EXCEPT ![m.to] = Append(@, m)] ELSE net
           /\ thread' = [thread EXCEPT ![t] =
                            IF rest = <<>> THEN Idle ELSE [@ EXCEPT !.out = rest]]
    /\ UNCHANGED <<backends, entry, alive, pending, node>>

------------------------------------------------------------------------------
(* Thread "conn": handle_connect and run_command.                          *)

\* Read the next event of b's connection: BACKEND_INITIAL, or its end.
\* The first loop of set_backend_fd or of delete_backend_fd.
BackendInitial(b) ==
    /\ MayBegin /\ pending[b] # <<>> /\ Head(pending[b]).type = "INITIAL"
    /\ LET fd == Head(pending[b]).fd
       IN  /\ backends' = [backends EXCEPT ![b] = [state |-> "ALIVE", fd |-> fd]]
           /\ Begin("conn", "set", b, fd)
    /\ pending' = [pending EXCEPT ![b] = Tail(@)]
    /\ UNCHANGED <<entry, alive, net, node>>

BadJoined(b) == <<b>> \o alive

\* push_back
Joined(b) == Append(alive, b)

\* The second loop of set_backend_fd, over dead_backends.
SetBackendFd ==
    /\ At("conn", "set")
    /\ LET b == thread["conn"].b IN
       \/ /\ ~IsAlive(b)
          /\ entry' = [entry EXCEPT ![b] = [state |-> "ALIVE", fd |-> thread["conn"].fd]]
          /\ alive' = Joined(b)
          /\ SendAll("conn", Broadcast(get_cluster(alive', b)))
       \/ IsAlive(b) /\ Finish("conn") /\ UNCHANGED <<entry, alive>>
    /\ UNCHANGED <<backends, pending, net, node>>

BadForgotten(fd) ==
    [b \in Backends |-> IF backends[b].fd = fd THEN [backends[b] EXCEPT !.fd = None]
                        ELSE backends[b]]

\* backends without the connection fd.
Forgotten(fd) ==
    [b \in Backends |-> IF backends[b].fd = fd THEN Crashed ELSE backends[b]]

BackendEof(b) ==
    /\ MayBegin /\ pending[b] # <<>> /\ Head(pending[b]).type = "EOF"
    /\ backends' = Forgotten(Head(pending[b]).fd)
    /\ Begin("conn", "eof", None, Head(pending[b]).fd)
    /\ pending' = [pending EXCEPT ![b] = Tail(@)]
    /\ UNCHANGED <<entry, alive, net, node>>

\* erase
Left(b) == RemoveAt(alive, CHOOSE n \in DOMAIN alive : alive[n] = b)

\* The second loop of delete_backend_fd, over alive_backends.
DeleteAlive ==
    /\ At("conn", "eof")
    /\ LET hit == {b \in Backends : IsAlive(b) /\ entry[b].fd = thread["conn"].fd} IN
       \/ \E b \in hit :
             /\ entry' = [entry EXCEPT ![b] = Crashed]
             /\ alive' = Left(b)
             /\ SendAll("conn", Broadcast(get_cluster(alive', b)))
       \/ hit = {} /\ Goto("conn", "eof2") /\ UNCHANGED <<entry, alive>>
    /\ UNCHANGED <<backends, pending, net, node>>

\* The third, over dead_backends.
DeleteDead ==
    /\ At("conn", "eof2")
    /\ entry' = [b \in Backends |->
                    IF ~IsAlive(b) /\ entry[b].fd = thread["conn"].fd THEN Crashed
                    ELSE entry[b]]
    /\ Finish("conn")
    /\ UNCHANGED <<backends, alive, pending, net, node>>

------------------------------------------------------------------------------
(* Thread "admin": admin_handler calls kill_backend or restart_backend.    *)

\* The first loop of either: the state in backends, if it is the expected one.
Admin(step, b, from, to) ==
    /\ MayBegin
    /\ backends' = IF backends[b].state = from
                   THEN [backends EXCEPT ![b].state = to] ELSE backends
    /\ Begin("admin", step, b, None)
    /\ UNCHANGED <<entry, alive, pending, net, node>>

KillRequest(b)    == Admin("kill", b, "ALIVE", "DEAD")
RestartRequest(b) == Admin("restart", b, "DEAD", "ALIVE")

BadKillMessages(b, list) == Broadcast(get_cluster(list, b))

\* The others learn of it before b is told.
KillMessages(b, list) == Broadcast(get_cluster(list, b)) \o <<Command(b, "KILL")>>

KillBackend ==
    /\ At("admin", "kill")
    /\ LET b == thread["admin"].b IN
       \/ /\ IsAlive(b)
          /\ entry' = [entry EXCEPT ![b].state = "DEAD"]
          /\ alive' = Left(b)
          /\ SendAll("admin", KillMessages(b, alive'))
       \/ ~IsAlive(b) /\ Finish("admin") /\ UNCHANGED <<entry, alive>>
    /\ UNCHANGED <<backends, pending, net, node>>

RestartBackend ==
    /\ At("admin", "restart")
    /\ LET b == thread["admin"].b IN
       \/ /\ ~IsAlive(b) /\ entry[b].state = "DEAD"
          /\ entry' = [entry EXCEPT ![b].state = "ALIVE"]
          /\ alive' = Joined(b)
          /\ SendAll("admin", Broadcast(get_cluster(alive', b))
                                 \o <<Command(b, "RESTART")>>)
       \/ /\ IsAlive(b) \/ entry[b].state # "DEAD"
          /\ Finish("admin")
          /\ UNCHANGED <<entry, alive>>
    /\ UNCHANGED <<backends, pending, net, node>>

------------------------------------------------------------------------------
(* The backend processes.                                                  *)

\* Descriptors the master has not closed: an end of file is read, handled,
\* and the descriptor closed only then.
Open == {node[b].fd : b \in Backends} \cup {thread["conn"].fd}
        \cup UNION {{pending[b][n].fd : n \in DOMAIN pending[b]} : b \in Backends}

\* RunServer: connect to the master and send BACKEND_INITIAL.
Start(b) ==
    /\ ~node[b].up
    /\ "quickRestart" \in Hazards \/ pending[b] = <<>>
    /\ \E fd \in Fds \ Open :
          /\ node' = [node EXCEPT ![b] = [Down EXCEPT !.up = TRUE, !.fd = fd]]
          /\ pending' = [pending EXCEPT ![b] = Append(@, [type |-> "INITIAL", fd |-> fd])]
    /\ UNCHANGED <<backends, entry, alive, thread, net>>

\* The process dies; what it had not handled is lost with it.
Die(b) ==
    /\ node[b].up
    /\ node' = [node EXCEPT ![b] = Down]
    /\ pending' = [pending EXCEPT ![b] = Append(@, [type |-> "EOF", fd |-> node[b].fd])]
    /\ net' = [net EXCEPT ![b] = <<>>]
    /\ UNCHANGED <<backends, entry, alive, thread>>

BadHandled(n, b, m) ==
    CASE m.com = "CLUSTER" ->
            [n EXCEPT !.view = m.addrs, !.primary = @ \/ Head(m.addrs) = b]
      [] m.com = "KILL" -> [n EXCEPT !.killed = TRUE, !.primary = FALSE]
      [] OTHER -> n

\* run_command of the backend: CLUSTER, KILL, RESTART.  CLUSTER never makes
\* isPrimary false.
Handled(n, b, m) ==
    CASE m.com = "CLUSTER" ->
            [n EXCEPT !.view = m.addrs, !.primary = @ \/ Head(m.addrs) = b]
      [] m.com = "KILL" -> [n EXCEPT !.killed = TRUE, !.primary = FALSE]
      [] OTHER -> [n EXCEPT !.killed = FALSE]

\* Connections are accepted, and read, in the order they were written to.
Receive(b) ==
    /\ net[b] # <<>>
    /\ node' = [node EXCEPT ![b] = Handled(@, b, Head(net[b]))]
    /\ net' = [net EXCEPT ![b] = Tail(@)]
    /\ UNCHANGED <<backends, entry, alive, thread, pending>>

------------------------------------------------------------------------------
\* initialize_backend
Init ==
    /\ backends = [b \in Backends |-> Crashed]
    /\ entry = backends
    /\ alive = <<>>
    /\ thread = [t \in Threads |-> Idle]
    /\ pending = [b \in Backends |-> <<>>]
    /\ net = [b \in Backends |-> <<>>]
    /\ node = [b \in Backends |-> Down]

ConnSteps == SetBackendFd \/ DeleteAlive \/ DeleteDead \/ Send("conn")

AdminSteps == KillBackend \/ RestartBackend \/ Send("admin")

Next ==
    \/ \E b \in Backends : BackendInitial(b) \/ BackendEof(b)
    \/ \E b \in Backends : KillRequest(b) \/ RestartRequest(b)
    \/ ConnSteps \/ AdminSteps
    \/ \E b \in Backends : Start(b) \/ Die(b) \/ Receive(b)

Spec == Init /\ [][Next]_vars

\* The threads of the master and of the backends keep running.  epoll serves
\* ready connections in turn, so that none waits forever behind the others
\* (strong fairness: the thread is busy with them in between).
Fairness ==
    /\ WF_vars(ConnSteps) /\ WF_vars(AdminSteps)
    /\ \A b \in Backends : SF_vars(BackendInitial(b) \/ BackendEof(b))
    /\ \A b \in Backends : WF_vars(Receive(b))

FairSpec == Spec /\ Fairness

------------------------------------------------------------------------------
(* Properties.                                                             *)

Message == [to : Backends, com : {"CLUSTER", "KILL", "RESTART"}, addrs : Seq(Backends)]

TypeOK ==
    /\ backends \in [Backends -> Element]
    /\ entry \in [Backends -> Element]
    /\ alive \in Seq(Backends)
    /\ thread \in [Threads -> [at : {"idle", "set", "eof", "eof2", "kill", "restart", "send"},
                               b : Backends \cup {None}, fd : Fds \cup {None},
                               out : Seq(Message)]]
    /\ pending \in [Backends -> Seq([type : {"INITIAL", "EOF"}, fd : Fds])]
    /\ net \in [Backends -> Seq(Message)]
    /\ node \in [Backends -> [up : BOOLEAN, fd : Fds \cup {None}, primary : BOOLEAN,
                              killed : BOOLEAN, view : Seq(Backends)]]

Quiet == \A t \in Threads : thread[t].at = "idle"

Settled ==
    /\ Quiet
    /\ \A b \in Backends : pending[b] = <<>> /\ net[b] = <<>>

(***************************************************************************)
(* The vectors agree: between operations, the element of a backend in      *)
(* alive_backends or dead_backends equals the one in backends, and it is   *)
(* in alive_backends exactly when its state is ALIVE (monitor.h keeps      *)
(* three vectors of copies; the console shows backends, get_primary uses   *)
(* alive_backends).                                                        *)
(***************************************************************************)
ListsAgree ==
    Quiet => \A b \in Backends :
        entry[b] = backends[b] /\ (IsAlive(b) <=> entry[b].state = "ALIVE")

(***************************************************************************)
(* When everything sent has been handled, the server that get_primary      *)
(* names for a group runs, has not been killed, and knows that it is the   *)
(* primary: only then does it answer (kvstore.cpp handle_connect).         *)
(***************************************************************************)
PrimaryServes ==
    Settled => \A g \in Groups : get_primary(alive, g) # None =>
        LET n == node[get_primary(alive, g)] IN n.up /\ n.primary /\ ~n.killed

(***************************************************************************)
(* When everything sent has been handled, every alive server knows its     *)
(* cluster, and a process that is not alive for the master is killed and   *)
(* does not take itself for the primary.                                   *)
(***************************************************************************)
NodesInformed ==
    Settled => \A b \in Backends : node[b].up =>
        IF IsAlive(b) THEN node[b].view = get_cluster(alive, b) /\ ~node[b].killed
        ELSE node[b].killed /\ ~node[b].primary

(***************************************************************************)
(* A primary keeps its role while it is alive: get_primary answers with    *)
(* another server only after the former one has left alive_backends,       *)
(* however others join, crash, are killed or restarted, one after the      *)
(* other (what a race does to get_primary is LookupPrimary in Registry).   *)
(***************************************************************************)
PrimaryStable ==
    [][\A g \in Groups : LET p == get_primary(alive, g) IN
          p # None /\ get_primary(alive', g) # p => \A n \in DOMAIN alive' : alive'[n] # p]_vars

(***************************************************************************)
(* A backend that starts is told its cluster unless it dies before: the    *)
(* loop "while (!init);" of RunServer ends.                                *)
(***************************************************************************)
NodeJoins ==
    \A b \in Backends : node[b].up ~> (node[b].view # <<>> \/ ~node[b].up)
==============================================================================
