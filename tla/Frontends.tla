------------------------------ MODULE Frontends ------------------------------
(***************************************************************************)
(* From a browser to its account: the load balancer in the master and its  *)
(* registry of frontends (master/load_balance.h, master/master.cpp), the   *)
(* frontend processes (frontend/frontend.cpp), and signing up, signing in  *)
(* and changing a password (frontend/login.h, frontend/reply.h).           *)
(*                                                                         *)
(* The master has two threads here, which share frontends without a lock:  *)
(* handle_connect registers and forgets frontends, handle_browser sends    *)
(* browsers to one of them.  A frontend handles one request at a time; the *)
(* frontends share the key-value table.  All browsers use one user name,   *)
(* and whoever does knows its password, but may mistype it.                *)
(*                                                                         *)
(* Hazards names what a run admits: "race", the registry changes while     *)
(* handle_browser is between its check of it and its use; "silent", a      *)
(* backend that was killed leaves a command without an answer, and the     *)
(* frontend waits for it for ever.                                         *)
(***************************************************************************)
EXTENDS Naturals, FiniteSets

CONSTANTS
    Fronts,       \* the frontends
    Browsers,
    Fds,          \* descriptors of the master for their connections
    None,
    Passwords,
    Hazards,      \* subset of {"race", "silent"}
    CookieLimit,  \* 1000 in create_cookie
    MaxRequests,  \* bound: forms sent
    MaxFaults     \* bound: crashes of frontends, broken connections, lost commands

ASSUME FrontendsNone   == None \notin Fronts \cup Browsers \cup Fds \cup Passwords
ASSUME FrontendsHazards == Hazards \subseteq {"race", "silent"}
ASSUME FrontendsBounds == CookieLimit \in Nat /\ MaxRequests \in Nat /\ MaxFaults \in Nat

VARIABLES
    master,    \* the process of the master runs
    frontends, \* frontends: its registry, the frontend of each descriptor
    conn,      \* the connection behind each descriptor
    lb,        \* handle_browser: the browser it is selecting for, what it checked
    front,     \* the frontend processes
    browser,
    pwd,       \* the cell "pwd" of the user, None when it is empty
    meta,      \* the cell of the user's files: absent, blank, or used
    requests,  \* forms sent so far
    faults,    \* faults so far
    raced,     \* frontends changed between the last check and its use in handle_browser
    halfway    \* a sign-up was broken off after it set the password

account == <<pwd, meta, requests, halfway>>
registry == <<master, frontends, conn, lb, raced>>
vars == <<registry, front, browser, account, faults>>

\* At most one session for each form sent.
Numbers == 1 .. MaxRequests

Down == [at |-> "down", fd |-> None, cookies |-> {}, job |-> None]
Away == [at |-> "away", front |-> None, cookie |-> 0]
Gone(b) == [browser[b] EXCEPT !.at = "away", !.front = None]
Free == [front |-> None, hello |-> FALSE, eof |-> FALSE]

Registered == {fd \in Fds : frontends[fd] # None}
Faulty == faults < MaxFaults /\ faults' = faults + 1

------------------------------------------------------------------------------
(* A frontend process: main of frontend.cpp.                               *)

\* It connects to the master and sends FRONTEND_INITIAL.
Connect(f) ==
    /\ front[f].at = "down" /\ master
    /\ \E fd \in Fds :
          /\ conn[fd] = Free
          /\ conn' = [conn EXCEPT ![fd] = [front |-> f, hello |-> TRUE, eof |-> FALSE]]
          /\ front' = [front EXCEPT ![f].at = "connected", ![f].fd = fd]
    /\ UNCHANGED <<master, frontends, lb, raced, browser, account, faults>>

\* Only then does it open the socket that browsers connect to.
Listen(f) ==
    /\ front[f].at = "connected"
    /\ front' = [front EXCEPT ![f].at = "listening"]
    /\ UNCHANGED <<registry, browser, account, faults>>

\* Its cookies are lost with it, and the request it was working on.
Crash(f) ==
    /\ front[f].at # "down" /\ Faulty
    /\ front' = [front EXCEPT ![f] = Down]
    /\ conn' = [conn EXCEPT ![front[f].fd].eof = TRUE]
    /\ browser' = [b \in Browsers |->
                      IF browser[b].at = "waiting" /\ browser[b].front = f
                      THEN Gone(b) ELSE browser[b]]
    /\ halfway' = (halfway \/ front[f].job # None)
    /\ UNCHANGED <<master, frontends, lb, raced, pwd, meta, requests>>

------------------------------------------------------------------------------
(* The master: handle_connect and run_command for frontends.               *)

\* handle_browser is between its check of the registry and its use.
Race ==
    /\ lb.at = "select" => "race" \in Hazards
    /\ raced' = (raced \/ lb.at = "select")

Register(fd) ==
    /\ master /\ conn[fd].hello
    /\ frontends' = [frontends EXCEPT ![fd] = conn[fd].front]
    /\ conn' = [conn EXCEPT ![fd].hello = FALSE]
    /\ Race
    /\ UNCHANGED <<master, lb, front, browser, account, faults>>

BadForget(fd) == frontends

Forget(fd) == [frontends EXCEPT ![fd] = None]

\* The end of file: forget the frontend, close the descriptor.
Unregister(fd) ==
    /\ master /\ conn[fd].eof /\ ~conn[fd].hello
    /\ frontends' = Forget(fd)
    /\ conn' = [conn EXCEPT ![fd] = Free]
    /\ Race
    /\ UNCHANGED <<master, lb, front, browser, account, faults>>

------------------------------------------------------------------------------
(* The master: handle_browser.                                             *)

BadUnavailable == Cardinality(Registered) <= 1

Unavailable == Registered = {}

\* The request of a browser that is nowhere yet is read: 503, after which the
\* browser tries again, or on to select_frontend.
Check(b) ==
    /\ master /\ lb.at = "idle" /\ browser[b].at = "away"
    /\ ~Unavailable
    /\ lb' = [at |-> "select", b |-> b]
    /\ UNCHANGED <<master, frontends, conn, raced, front, browser, account, faults>>

\* select_frontend: rand() % size, and as many steps through the registry.
SelectFrontend ==
    /\ master /\ lb.at = "select"
    /\ \E fd \in Registered :
          browser' = [browser EXCEPT ![lb.b].at = "sent", ![lb.b].front = frontends[fd]]
    /\ lb' = [at |-> "idle", b |-> None] /\ raced' = FALSE
    /\ UNCHANGED <<master, frontends, conn, front, account, faults>>

\* Without an entry it divides by zero; when the registry changes under it,
\* what it does is undefined: the process may die.
MasterDies ==
    /\ master /\ lb.at = "select"
    /\ raced \/ Registered = {}
    /\ master' = FALSE
    /\ lb' = [at |-> "idle", b |-> None]
    /\ UNCHANGED <<frontends, conn, raced, front, browser, account, faults>>

------------------------------------------------------------------------------
(* Requests to a frontend: handle_connect of frontend.cpp and reply.       *)

\* GET /login, which needs no command, when the only thread of f gets to it.
Login(b) ==
    LET f == browser[b].front IN
    /\ browser[b].at = "sent" /\ front[f].at = "listening" /\ front[f].job = None
    /\ browser' = [browser EXCEPT ![b].at = "page"]
    /\ UNCHANGED <<registry, front, account, faults>>

\* The browser finds the port closed; a process whose thread hangs still listens.
Refused(b) ==
    /\ browser[b].at \in {"sent", "page"}
    /\ front[browser[b].front].at \in {"down", "connected"}
    /\ browser' = [browser EXCEPT ![b] = Gone(b)]
    /\ UNCHANGED <<registry, front, account, faults>>

\* The browser sends a form, and f turns to it.
Post(f, b) ==
    /\ browser[b].at = "page" /\ browser[b].front = f
    /\ front[f].at = "listening" /\ front[f].job = None
    /\ requests < MaxRequests
    /\ requests' = requests + 1

\* Request::http_read: the session behind the cookie.
SignedIn(f, b) == browser[b].cookie \in front[f].cookies

BadCput(old, new) == [ok |-> TRUE, pwd |-> new]

\* kv_cput of the password.
Cput(old, new) ==
    IF pwd = old THEN [ok |-> TRUE, pwd |-> new] ELSE [ok |-> FALSE, pwd |-> pwd]

\* change_pwd: the master names the backend, which executes CPUT.  LINK_ERR when
\* the master is gone, or when a connection breaks before or after the command.
ChangePwd(old, new, ok) ==
    \/ /\ master
       /\ ok = Cput(old, new).ok /\ pwd' = Cput(old, new).pwd
       /\ UNCHANGED faults
    \/ ~master /\ ~ok /\ UNCHANGED <<pwd, faults>>
    \/ master /\ ~ok /\ Faulty /\ pwd' \in {pwd, Cput(old, new).pwd}

BadToInitialize(ok, b) == None

\* signup_handler: initialize_usr is called when sign_up succeeded (ret >= 0).
ToInitialize(ok, b) == IF ok THEN b ELSE None

\* signup_handler, first part: sign_up.
SignUp(f, b) ==
    /\ Post(f, b)
    /\ \E ok \in BOOLEAN, new \in Passwords :
          /\ ChangePwd(None, new, ok)
          /\ front' = [front EXCEPT ![f].job = ToInitialize(ok, b)]
          /\ browser' = [browser EXCEPT ![b].at = IF front'[f].job = b THEN "waiting" ELSE "page"]
          /\ halfway' = (halfway \/ (~ok /\ pwd' # pwd))
    /\ UNCHANGED <<registry, meta>>

\* signup_handler, second part: initialize_usr, PUTS of an empty tree.
InitializeUsr(f) ==
    LET b == front[f].job IN
    /\ b # None
    /\ \/ master /\ meta' = "blank" /\ UNCHANGED <<faults, halfway>>
       \/ ~master /\ halfway' = TRUE /\ UNCHANGED <<meta, faults>>
       \/ master /\ Faulty /\ meta' \in {meta, "blank"} /\ halfway' = TRUE
    /\ front' = [front EXCEPT ![f].job = None]
    /\ browser' = [browser EXCEPT ![b].at = "page"]
    /\ UNCHANGED <<registry, pwd, requests>>

\* A random number that is in no table and that no browser holds.
NewCookie ==
    CHOOSE n \in Numbers :
        /\ \A f \in Fronts : n \notin front[f].cookies
        /\ \A b \in Browsers : n # browser[b].cookie

BadCookies(cookies, number) == cookies \cup {number}

\* create_cookie: the table is emptied when it holds more than the limit.
Cookies(cookies, number) ==
    (IF Cardinality(cookies) > CookieLimit THEN {} ELSE cookies) \cup {number}

\* login_handler: sign_in compares with the stored password, which is "" when
\* there is none, and no form can send that.  The other outcomes change nothing:
\* a wrong password, no master, a connection that breaks.
SignIn(f, b) ==
    /\ Post(f, b)
    /\ \/ /\ master /\ pwd # None
          /\ front' = [front EXCEPT ![f].cookies = Cookies(@, NewCookie)]
          /\ browser' = [browser EXCEPT ![b].cookie = NewCookie]
       \/ UNCHANGED <<front, browser>>
    /\ UNCHANGED <<registry, pwd, meta, halfway, faults>>

\* user_handler
ChangePassword(f, b) ==
    /\ Post(f, b) /\ SignedIn(f, b)
    /\ \E ok \in BOOLEAN, old, new \in Passwords : ChangePwd(old, new, ok)
    /\ UNCHANGED <<registry, front, browser, meta, halfway>>

\* storage_handler, which needs the tree: see the module Storage.
Upload(f, b) ==
    /\ Post(f, b) /\ SignedIn(f, b)
    /\ master /\ meta # "absent"
    /\ meta' = "used"
    /\ UNCHANGED <<registry, front, browser, pwd, halfway, faults>>

\* The command of a form, or of initialize_usr, is never answered: its primary was
\* killed before or while it ran the command.  Nothing of f moves any more but the
\* thread that accepts connections.
Hang(f, b) ==
    /\ "silent" \in Hazards /\ master /\ front[f].at = "listening" /\ Faulty
    /\ front' = [front EXCEPT ![f].at = "hung", ![f].job = None]
    /\ browser' = [browser EXCEPT ![b].at = "waiting"]
    /\ UNCHANGED registry

\* What the form of b may have changed: a sign-up or another password, or a file.
Silent(f, b) ==
    /\ Post(f, b) /\ Hang(f, b)
    /\ pwd' \in {pwd} \cup (IF pwd = None \/ SignedIn(f, b) THEN Passwords ELSE {})
    /\ meta' \in {meta} \cup
          (IF pwd' = pwd /\ SignedIn(f, b) /\ meta # "absent" THEN {"used"} ELSE {})
    /\ halfway' = (halfway \/ (pwd = None /\ pwd' # None))

SilentInit(f) ==
    /\ front[f].job # None /\ Hang(f, front[f].job)
    /\ meta' \in {meta, "blank"} /\ halfway' = TRUE
    /\ UNCHANGED <<pwd, requests>>

------------------------------------------------------------------------------
Init ==
    /\ master = TRUE
    /\ frontends = [fd \in Fds |-> None]
    /\ conn = [fd \in Fds |-> Free]
    /\ lb = [at |-> "idle", b |-> None]
    /\ front = [f \in Fronts |-> Down]
    /\ browser = [b \in Browsers |-> Away]
    /\ pwd = None /\ meta = "absent"
    /\ requests = 0 /\ faults = 0 /\ raced = FALSE /\ halfway = FALSE

HandleConnect(fd) == Register(fd) \/ Unregister(fd)
HandleForm(f, b) ==
    SignUp(f, b) \/ SignIn(f, b) \/ ChangePassword(f, b) \/ Upload(f, b) \/ Silent(f, b)

Next ==
    \/ \E f \in Fronts : Connect(f) \/ Listen(f) \/ Crash(f) \/ InitializeUsr(f) \/ SilentInit(f)
    \/ \E fd \in Fds : HandleConnect(fd)
    \/ \E b \in Browsers : Check(b) \/ Login(b) \/ Refused(b)
    \/ SelectFrontend \/ MasterDies
    \/ \E f \in Fronts, b \in Browsers : HandleForm(f, b)

Spec == Init /\ [][Next]_vars

\* The threads keep running, and a browser asks again.  epoll serves ready
\* connections in turn (strong fairness: the thread is busy in between), as long
\* as its thread does not hang.  Nobody has to start a frontend, and no backend
\* has to answer.
Fairness ==
    /\ \A f \in Fronts : WF_vars(Listen(f)) /\ WF_vars(InitializeUsr(f))
    /\ \A fd \in Fds : SF_vars(HandleConnect(fd))
    /\ WF_vars(SelectFrontend \/ MasterDies)
    /\ \A b \in Browsers : SF_vars(Check(b)) /\ SF_vars(Login(b) \/ Refused(b))

FairSpec == Spec /\ Fairness

------------------------------------------------------------------------------
(* Properties.                                                             *)

TypeOK ==
    /\ master \in BOOLEAN /\ raced \in BOOLEAN /\ halfway \in BOOLEAN
    /\ frontends \in [Fds -> Fronts \cup {None}]
    /\ conn \in [Fds -> [front : Fronts \cup {None}, hello : BOOLEAN, eof : BOOLEAN]]
    /\ lb \in [at : {"idle", "select"}, b : Browsers \cup {None}]
    /\ pwd \in Passwords \cup {None} /\ meta \in {"absent", "blank", "used"}
    /\ requests \in 0 .. MaxRequests /\ faults \in 0 .. MaxFaults
    /\ \A f \in Fronts :
        /\ front[f].at \in {"down", "connected", "listening", "hung"}
        /\ front[f].fd \in Fds \cup {None} /\ front[f].job \in Browsers \cup {None}
        /\ front[f].cookies \subseteq Numbers
        /\ Cardinality(front[f].cookies) <= CookieLimit + 1
    /\ browser \in [Browsers -> [at : {"away", "sent", "page", "waiting"},
                                 front : Fronts \cup {None}, cookie : Numbers \cup {0}]]

(***************************************************************************)
(* When handle_connect has read everything, the registry holds exactly the *)
(* frontends that run, each once, although descriptors are used again and  *)
(* a frontend may be back before the end of its old connection is read.    *)
(***************************************************************************)
RegistryExact ==
    (\A fd \in Fds : ~conn[fd].hello /\ ~conn[fd].eof) =>
        \A fd \in Fds, f \in Fronts :
            frontends[fd] = f <=> front[f].at # "down" /\ front[f].fd = fd

(***************************************************************************)
(* Who has a password has a tree for files (signup_handler writes them     *)
(* with two commands), unless a sign-up is under way or was broken off in  *)
(* between.  Then nothing repairs it: the next sign-up fails at the CPUT.  *)
(***************************************************************************)
AccountWhole ==
    pwd # None /\ meta = "absent" => halfway \/ \E f \in Fronts : front[f].job # None

(***************************************************************************)
(* The tree of a user who has stored files is never replaced by the empty  *)
(* one of initialize_usr, however sign-ups for the name race on different  *)
(* frontends, and whichever password changes, crashes and lost answers     *)
(* come between.                                                           *)
(***************************************************************************)
FilesNotReset == [][meta = "used" => meta' = "used"]_vars

(***************************************************************************)
(* select_frontend finds a frontend to choose: handle_browser, which calls *)
(* it, has seen one in frontends.  Fails under "race" (rand() % 0).        *)
(***************************************************************************)
SelectsFrontend == lb.at = "select" => Registered # {}

\* The browser is sent to a frontend whose only thread hangs, and waits there.
Stranded(b) == browser[b].at = "sent" /\ front[browser[b].front].at = "hung"

(***************************************************************************)
(* A browser that asks the load balancer as often as it takes gets to a    *)
(* login page, or it is sent to a frontend that hangs, whenever from some  *)
(* time on a frontend is there that serves: 503 answers, frontends that    *)
(* are announced but do not listen yet, and dead ones that are still       *)
(* registered come to an end.  Not when the master dies of the division    *)
(* by zero that SelectsFrontend is about ("race").                         *)
(***************************************************************************)
BrowserServed ==
    []master /\ <>[](\E f \in Fronts : front[f].at = "listening") =>
        \A b \in Browsers :
            []<>(browser[b].at \notin {"away", "sent"} \/ Stranded(b))
==============================================================================
