------------------------------- MODULE Registry -------------------------------
(***************************************************************************)
(* alive_backends and dead_backends of the master (master/monitor.h),      *)
(* statement by statement.  Two threads walk over the vectors and change   *)
(* them without a lock: handle_connect ("conn": set_backend_fd,            *)
(* delete_backend_fd and, for USR_TO_BACKEND, get_primary) and the console *)
(* ("admin": kill_backend, restart_backend).  An iterator is a position:   *)
(* when the other thread erases an element before it, it stands at another *)
(* element, and beyond the last one its use is undefined.                  *)
(*                                                                         *)
(* What the operations send, and which descriptor a connection has, is in  *)
(* Monitor, where they come one at a time.                                 *)
(***************************************************************************)
EXTENDS Naturals, Sequences, FiniteSets, SequencesExt

CONSTANTS
    Backends,   \* the addresses of backend.txt
    GroupOf,    \* their clusters, a function on Backends
    None,       \* no backend
    Capacity,   \* elements that a vector has room for; it has grown to it before
    Hazards     \* subset of {"moves", "lookups"}

(***************************************************************************)
(*  "moves"    the two threads move servers between the vectors at once    *)
(*  "lookups"  the console moves a server during a get_primary             *)
(***************************************************************************)

VARIABLES
    vec,      \* the two vectors
    up,       \* backends with a connection to the master
    thread,   \* the loop of each thread
    named,    \* the answer of the last get_primary
    seen      \* the primaries of its cluster while it ran (history)

vars == <<vec, up, thread, named, seen>>

Threads == {"conn", "admin"}
Vectors == {"alive", "dead"}
Groups  == {GroupOf[b] : b \in Backends}
Other(v) == CHOOSE w \in Vectors : w # v

\* linked: fd # -1
Element == [b : Backends, state : {"ALIVE", "DEAD", "CRASH"}, linked : BOOLEAN]

Idle == [op |-> "none", arg |-> None, list |-> "alive", at |-> "end", pos |-> 1]
Quiet == \A t \in Threads : thread[t] = Idle

\* get_primary(list, g), in one look.
Primary(list, g) ==
    LET own == SelectSeq(list, LAMBDA it : GroupOf[it.b] = g)
    IN  IF own = <<>> THEN None ELSE own[1].b

\* The history: the primary after each step of a get_primary.
Watch ==
    seen' = IF thread'["conn"].op # "LOOKUP" THEN seen
            ELSE (IF thread["conn"].op = "LOOKUP" THEN seen ELSE {})
                 \cup {Primary(vec'["alive"], thread'["conn"].arg)}

------------------------------------------------------------------------------
(* The loops.                                                              *)

Source(op) == IF op \in {"SET", "RESTART"} THEN "dead" ELSE "alive"

\* The condition in the loop.
Matches(x, it) ==
    CASE x.op = "LOOKUP"  -> GroupOf[it.b] = x.arg
      [] x.op = "RESTART" -> it.b = x.arg /\ it.state = "DEAD"
      [] x.op = "EOF"     -> it.b = x.arg /\ it.linked
      [] OTHER            -> it.b = x.arg

\* The assignments to the element that was found.
Marked(x, it) ==
    CASE x.op = "SET"     -> [it EXCEPT !.state = "ALIVE", !.linked = TRUE]
      [] x.op = "EOF"     -> [it EXCEPT !.state = "CRASH", !.linked = FALSE]
      [] x.op = "KILL"    -> [it EXCEPT !.state = "DEAD"]
      [] OTHER            -> [it EXCEPT !.state = "ALIVE"]

\* One loop of an operation begins; the other thread may be in one of its own.
Begin(t, op, arg) ==
    /\ thread[t] = Idle
    /\ \A s \in Threads \ {t} :
          \/ thread[s] = Idle
          \/ (IF "LOOKUP" \in {op, thread[s].op} THEN "lookups" ELSE "moves") \in Hazards
    /\ thread' = [thread EXCEPT ![t] = [op |-> op, arg |-> arg, list |-> Source(op),
                                        at |-> "test", pos |-> 1]]

\* BACKEND_INITIAL, and the end of a connection.
SetBackendFd(b) ==
    /\ b \notin up /\ Begin("conn", "SET", b)
    /\ up' = up \cup {b} /\ UNCHANGED <<vec, named>> /\ Watch
DeleteBackendFd(b) ==
    /\ b \in up /\ Begin("conn", "EOF", b)
    /\ up' = up \ {b} /\ UNCHANGED <<vec, named>> /\ Watch
GetPrimary(g)     == Begin("conn", "LOOKUP", g) /\ UNCHANGED <<vec, up, named>> /\ Watch
KillBackend(b)    == Begin("admin", "KILL", b) /\ UNCHANGED <<vec, up, named>> /\ Watch
RestartBackend(b) == Begin("admin", "RESTART", b) /\ UNCHANGED <<vec, up, named>> /\ Watch

List(t) == vec[thread[t].list]
It(t)   == List(t)[thread[t].pos]
\* t is at the statement, and its iterator at an element.
At(t, step) == thread[t].at = step /\ thread[t].pos \in DOMAIN List(t)
Goto(t, step) == thread' = [thread EXCEPT ![t].at = step]
Finish(t) == thread' = [thread EXCEPT ![t] = Idle]

\* it != end()
Test(t) ==
    /\ thread[t].at = "test" /\ thread[t].pos <= Len(List(t))
    /\ Goto(t, "compare")
    /\ UNCHANGED <<vec, up, named>> /\ Watch

\* end(): delete_backend_fd goes on with dead_backends, get_primary has no answer.
NotFound(t) ==
    /\ thread[t].at = "test" /\ thread[t].pos = Len(List(t)) + 1
    /\ IF thread[t].op = "EOF" /\ thread[t].list = "alive"
       THEN thread' = [thread EXCEPT ![t].list = "dead", ![t].pos = 1]
       ELSE Finish(t)
    /\ named' = IF thread[t].op = "LOOKUP" THEN None ELSE named
    /\ UNCHANGED <<vec, up>> /\ Watch

Compare(t) ==
    /\ At(t, "compare")
    /\ \/ Matches(thread[t], It(t)) /\ Goto(t, IF thread[t].op = "LOOKUP" THEN "copy" ELSE "mark")
       \/ /\ ~Matches(thread[t], It(t))
          /\ thread' = [thread EXCEPT ![t].at = "test", ![t].pos = @ + 1]
    /\ UNCHANGED <<vec, up, named>> /\ Watch

\* backend = *it
Copy(t) ==
    /\ At(t, "copy")
    /\ named' = It(t).b
    /\ Finish(t)
    /\ UNCHANGED <<vec, up>> /\ Watch

Mark(t) ==
    /\ At(t, "mark")
    /\ vec' = [vec EXCEPT ![thread[t].list][thread[t].pos] = Marked(thread[t], @)]
    /\ IF thread[t].op = "EOF" /\ thread[t].list = "dead" THEN Finish(t) ELSE Goto(t, "push")
    /\ UNCHANGED <<up, named>> /\ Watch

\* push_back(*it)
Push(t) ==
    /\ At(t, "push") /\ Len(vec[Other(thread[t].list)]) < Capacity
    /\ vec' = [vec EXCEPT ![Other(thread[t].list)] = Append(@, It(t))]
    /\ Goto(t, "erase")
    /\ UNCHANGED <<up, named>> /\ Watch

Erased(list, n) == RemoveAt(list, n)

\* erase(it)
Erase(t) ==
    /\ At(t, "erase")
    /\ vec' = [vec EXCEPT ![thread[t].list] = Erased(@, thread[t].pos)]
    /\ Finish(t)
    /\ UNCHANGED <<up, named>> /\ Watch

\* An iterator outside its vector, or a vector that moves to a larger place.
Dangling(t) ==
    CASE thread[t].at \in {"end", "lost"} -> FALSE
      [] thread[t].at = "test" -> thread[t].pos > Len(List(t)) + 1
      [] OTHER -> \/ thread[t].pos \notin DOMAIN List(t)
                  \/ thread[t].at = "push" /\ Len(vec[Other(thread[t].list)]) >= Capacity

\* Undefined behaviour: anything may follow, nothing is said of it.
Undefined(t) ==
    /\ Dangling(t)
    /\ thread' = [s \in Threads |-> [Idle EXCEPT !.at = "lost"]]
    /\ UNCHANGED <<vec, up, named>> /\ Watch

Step(t) ==
    Test(t) \/ NotFound(t) \/ Compare(t) \/ Copy(t) \/ Mark(t) \/ Push(t) \/ Erase(t)

------------------------------------------------------------------------------
\* initialize_backend, then BACKEND_INITIAL of all servers in some order.
Init ==
    /\ \E order \in SetToSeqs(Backends) :
          vec = [v \in Vectors |-> IF v = "dead" THEN <<>> ELSE
                   [n \in DOMAIN order |-> [b |-> order[n], state |-> "ALIVE", linked |-> TRUE]]]
    /\ up = Backends
    /\ thread = [t \in Threads |-> Idle]
    /\ named = None /\ seen = {None}

Next ==
    \/ \E b \in Backends :
          SetBackendFd(b) \/ DeleteBackendFd(b) \/ KillBackend(b) \/ RestartBackend(b)
    \/ \E g \in Groups : GetPrimary(g)
    \/ \E t \in Threads : Step(t) \/ Undefined(t)

Spec == Init /\ [][Next]_vars

------------------------------------------------------------------------------
(* Properties.                                                             *)

\* Only an element that is being moved is in both vectors.
TypeOK ==
    /\ vec \in [Vectors -> Seq(Element)] /\ \A v \in Vectors : Len(vec[v]) <= Capacity
    /\ "moves" \in Hazards \/ Len(vec["alive"]) + Len(vec["dead"]) <= Cardinality(Backends) + 1
    /\ up \subseteq Backends
    /\ named \in Backends \cup {None} /\ seen \subseteq Backends \cup {None}
    /\ \A t \in Threads :
          /\ thread[t].at \in {"end", "test", "compare", "copy", "mark", "push", "erase", "lost"}
          /\ thread[t].list \in Vectors /\ thread[t].pos \in Nat

(***************************************************************************)
(* Between operations a server has one element, in alive_backends when its *)
(* state is ALIVE and else in dead_backends, "Dead/Crash backend servers"  *)
(* (monitor.h): a second one is a server that KILL does not stop and that  *)
(* RESTART makes alive again while it is.                                  *)
(***************************************************************************)
OneElement ==
    Quiet => \A b \in Backends :
        /\ Len(SelectSeq(vec["alive"] \o vec["dead"], LAMBDA it : it.b = b)) = 1
        /\ \A v \in Vectors : \A n \in DOMAIN vec[v] :
              vec[v][n].state = "ALIVE" <=> v = "alive"

(***************************************************************************)
(* "Get the primary backend server of a user" (monitor.h): the server that *)
(* get_primary names was the first alive one of its cluster at some moment *)
(* of the call, and it names none only when there was a moment with none.  *)
(***************************************************************************)
LookupPrimary == thread["conn"] = Idle => named \in seen
==============================================================================
