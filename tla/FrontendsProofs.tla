---------------------------- MODULE FrontendsProofs ----------------------------
(***************************************************************************)
(* Proofs about Frontends for every set of frontends, browsers,            *)
(* descriptors and passwords, every limit and every bound.                 *)
(***************************************************************************)
EXTENDS Frontends, FiniteSetTheorems, TLAPS

------------------------------------------------------------------------------
(* The inductive invariant.                                                *)

Connection == [front : Fronts \cup {None}, hello : BOOLEAN, eof : BOOLEAN]

\* What is needed of the types; that NewCookie finds a number is not.
Shape ==
    /\ frontends \in [Fds -> Fronts \cup {None}]
    /\ conn \in [Fds -> Connection]
    /\ DOMAIN front = Fronts
    /\ \A f \in Fronts : /\ DOMAIN front[f] = {"at", "fd", "cookies", "job"}
                         /\ front[f].job \in Browsers \cup {None}
                         /\ front[f].at # "down" => front[f].fd \in Fds

\* A descriptor is in use for one connection, whose other end is a process that
\* runs until the end of the connection is on its way to the master.
Ends ==
    \A fd \in Fds, f \in Fronts :
        conn[fd].front = f /\ ~conn[fd].eof <=> front[f].at # "down" /\ front[f].fd = fd

\* The master knows of a connection what it has read of it.
Known == \A fd \in Fds : frontends[fd] = IF conn[fd].hello THEN None ELSE conn[fd].front

RegistryInv == Shape /\ Ends /\ Known

\* The password is set once, by the only sign-up that gets to initialize_usr.
AccountInv ==
    /\ AccountWhole
    /\ pwd = None => meta = "absent"
    /\ \A f \in Fronts : front[f].job # None => pwd # None /\ meta = "absent"
    /\ \A f, g \in Fronts : front[f].job # None /\ front[g].job # None => f = g

------------------------------------------------------------------------------
(* The registry.                                                           *)

LEMMA RegistryInit == Init => RegistryInv
BY FrontendsNone DEF Init, RegistryInv, Shape, Ends, Known, Connection, Free, Down

LEMMA RegistryConnect ==
    ASSUME RegistryInv, NEW f \in Fronts, Connect(f)
    PROVE  RegistryInv'
<1> USE DEF RegistryInv
<1>1. PICK fd \in Fds :
         /\ conn[fd] = Free
         /\ conn' = [conn EXCEPT ![fd] = [front |-> f, hello |-> TRUE, eof |-> FALSE]]
         /\ front' = [front EXCEPT ![f].at = "connected", ![f].fd = fd]
  BY DEF Connect
<1>2. front[f].at = "down" /\ UNCHANGED frontends
  BY DEF Connect
<1>3. Shape'
  BY <1>1, <1>2 DEF Shape, Connection
<1>4. Ends'
  BY <1>1, <1>2, FrontendsNone DEF Shape, Ends, Connection, Free
<1>5. Known'
  BY <1>1, <1>2 DEF Shape, Known, Connection, Free
<1> QED BY <1>3, <1>4, <1>5

LEMMA RegistryCrash ==
    ASSUME RegistryInv, NEW f \in Fronts, Crash(f)
    PROVE  RegistryInv'
<1> USE DEF RegistryInv
<1>1. /\ front[f].at # "down"
      /\ front' = [front EXCEPT ![f] = Down]
      /\ conn' = [conn EXCEPT ![front[f].fd].eof = TRUE]
      /\ UNCHANGED frontends
  BY DEF Crash
<1>2. Shape'
  BY <1>1 DEF Shape, Connection, Down
<1>3. Ends'
  BY <1>1, FrontendsNone DEF Shape, Ends, Connection, Free, Down
<1>4. Known'
  BY <1>1 DEF Shape, Known, Connection
<1> QED BY <1>2, <1>3, <1>4

LEMMA RegistryRegister ==
    ASSUME RegistryInv, NEW fd \in Fds, Register(fd)
    PROVE  RegistryInv'
<1> USE DEF RegistryInv
<1>1. /\ conn[fd].hello
      /\ frontends' = [frontends EXCEPT ![fd] = conn[fd].front]
      /\ conn' = [conn EXCEPT ![fd].hello = FALSE]
      /\ UNCHANGED front
  BY DEF Register
<1>2. Shape'
  BY <1>1 DEF Shape, Connection
<1>3. Ends'
  BY <1>1 DEF Shape, Ends, Connection
<1>4. Known'
  BY <1>1 DEF Shape, Known, Connection
<1> QED BY <1>2, <1>3, <1>4

LEMMA RegistryUnregister ==
    ASSUME RegistryInv, NEW fd \in Fds, Unregister(fd)
    PROVE  RegistryInv'
<1> USE DEF RegistryInv
<1>1. /\ conn[fd].eof /\ ~conn[fd].hello
      /\ frontends' = [frontends EXCEPT ![fd] = None]
      /\ conn' = [conn EXCEPT ![fd] = Free]
      /\ UNCHANGED front
  BY DEF Unregister, Forget
<1>2. Shape'
  BY <1>1 DEF Shape, Connection, Free
<1>3. Ends'
  BY <1>1, FrontendsNone DEF Shape, Ends, Connection, Free
<1>4. Known'
  BY <1>1 DEF Shape, Known, Connection, Free
<1> QED BY <1>2, <1>3, <1>4

\* Steps that leave the processes where they are.
LEMMA RegistryKept ==
    ASSUME RegistryInv, UNCHANGED <<frontends, conn>>,
           DOMAIN front' = Fronts,
           \A f \in Fronts : /\ DOMAIN front'[f] = {"at", "fd", "cookies", "job"}
                             /\ front'[f].job \in Browsers \cup {None}
                             /\ front'[f].at = "down" <=> front[f].at = "down"
                             /\ front'[f].fd = front[f].fd
    PROVE  RegistryInv'
BY DEF RegistryInv, Shape, Ends, Known

LEMMA RegistryNext == RegistryInv /\ [Next]_vars => RegistryInv'
<1> SUFFICES ASSUME RegistryInv, [Next]_vars PROVE RegistryInv'
  OBVIOUS
<1> USE DEF RegistryInv
<1>1. CASE UNCHANGED <<frontends, conn, front>>
  BY <1>1, RegistryKept DEF Shape
<1>2. ASSUME NEW f \in Fronts, Connect(f) PROVE RegistryInv'
  BY <1>2, RegistryConnect
<1>3. ASSUME NEW f \in Fronts, Crash(f) PROVE RegistryInv'
  BY <1>3, RegistryCrash
<1>4. ASSUME NEW f \in Fronts, Listen(f) PROVE RegistryInv'
  <2>1. UNCHANGED <<frontends, conn>> /\ front' = [front EXCEPT ![f].at = "listening"]
        /\ front[f].at = "connected"
    BY <1>4 DEF Listen, registry
  <2> QED BY <2>1, RegistryKept DEF Shape
<1>5. ASSUME NEW f \in Fronts, InitializeUsr(f) PROVE RegistryInv'
  <2>1. UNCHANGED <<frontends, conn>> /\ front' = [front EXCEPT ![f].job = None]
    BY <1>5 DEF InitializeUsr, registry
  <2> QED BY <2>1, RegistryKept DEF Shape
<1>6. ASSUME NEW f \in Fronts, NEW b \in Browsers, SignUp(f, b) PROVE RegistryInv'
  <2>1. PICK ok \in BOOLEAN : front' = [front EXCEPT ![f].job = ToInitialize(ok, b)]
    BY <1>6 DEF SignUp
  <2>2. UNCHANGED <<frontends, conn>> /\ ToInitialize(ok, b) \in Browsers \cup {None}
    BY <1>6 DEF SignUp, registry, ToInitialize
  <2> QED BY <2>1, <2>2, RegistryKept DEF Shape
<1>7. ASSUME NEW f \in Fronts, NEW b \in Browsers, SignIn(f, b) PROVE RegistryInv'
  <2>1. UNCHANGED <<frontends, conn>>
    BY <1>7 DEF SignIn, registry
  <2>2. CASE UNCHANGED front BY <2>1, <2>2, <1>1
  <2>3. CASE front' = [front EXCEPT ![f].cookies = Cookies(@, NewCookie)]
    BY <2>1, <2>3, RegistryKept DEF Shape
  <2> QED BY <1>7, <2>2, <2>3 DEF SignIn
<1>8. ASSUME NEW fd \in Fds, HandleConnect(fd) PROVE RegistryInv'
  BY <1>8, RegistryRegister, RegistryUnregister DEF HandleConnect
<1>9. ASSUME NEW f \in Fronts, NEW b \in Browsers, ChangePassword(f, b) \/ Upload(f, b)
      PROVE  UNCHANGED <<frontends, conn, front>>
  BY <1>9 DEF ChangePassword, Upload, registry
<1>10. ASSUME NEW b \in Browsers, Check(b) \/ Login(b) \/ Refused(b)
       PROVE  UNCHANGED <<frontends, conn, front>>
  BY <1>10 DEF Check, Login, Refused, registry
<1>11. ASSUME SelectFrontend \/ MasterDies
       PROVE  UNCHANGED <<frontends, conn, front>>
  BY <1>11 DEF SelectFrontend, MasterDies
<1>12. CASE UNCHANGED vars
  BY <1>12, <1>1 DEF vars, registry
<1>13. ASSUME NEW f \in Fronts, NEW b, Hang(f, b) PROVE RegistryInv'
  <2>1. /\ UNCHANGED <<frontends, conn>> /\ front[f].at = "listening"
        /\ front' = [front EXCEPT ![f].at = "hung", ![f].job = None]
    BY <1>13 DEF Hang, registry
  <2> QED BY <2>1, RegistryKept DEF Shape
<1> QED
  BY <1>1, <1>2, <1>3, <1>4, <1>5, <1>6, <1>7, <1>8, <1>9, <1>10, <1>11, <1>12, <1>13
     DEF Next, HandleForm, Silent, SilentInit

(***************************************************************************)
(* The registry of the load balancer is exact once handle_connect has read *)
(* everything, for any number of frontends, descriptors and restarts.      *)
(***************************************************************************)
THEOREM RegistryCorrect == Spec => []RegistryExact
<1>1. RegistryInv => RegistryExact
  BY FrontendsNone DEF RegistryInv, Shape, Ends, Known, Connection, RegistryExact
<1> QED BY <1>1, RegistryInit, RegistryNext, PTL DEF Spec

------------------------------------------------------------------------------
(* Types.                                                                  *)

\* The cookies in use, in a table or in a browser: every form adds one at most.
Issued ==
    {n \in Numbers : \/ \E f \in Fronts : n \in front[f].cookies
                     \/ \E b \in Browsers : n = browser[b].cookie}

IssuedInv == IsFiniteSet(Issued) /\ Cardinality(Issued) <= requests

TypeInv == Shape /\ TypeOK /\ IssuedInv

LEMMA NumbersFinite == IsFiniteSet(Numbers) /\ Cardinality(Numbers) = MaxRequests
<1>1. MaxRequests \in Nat
  BY FrontendsBounds
<1>2. IsFiniteSet(1 .. MaxRequests) /\ Cardinality(1 .. MaxRequests) = MaxRequests
  BY <1>1, FS_Interval
<1> QED BY <1>2 DEF Numbers

\* A number that nobody holds is left as long as a form may still be sent.
LEMMA NewCookieIs ==
    ASSUME TypeInv, requests < MaxRequests
    PROVE  NewCookie \in Numbers
<1>1. \E n \in Numbers : n \notin Issued
  <2> SUFFICES ASSUME Numbers \subseteq Issued PROVE FALSE
    OBVIOUS
  <2>1. Issued = Numbers
    BY DEF Issued
  <2> QED BY <2>1, NumbersFinite, FrontendsBounds DEF TypeInv, IssuedInv, TypeOK
<1>2. \E n \in Numbers : /\ \A f \in Fronts : n \notin front[f].cookies
                         /\ \A b \in Browsers : n # browser[b].cookie
  BY <1>1 DEF Issued
<1> QED BY <1>2 DEF NewCookie

\* The table of create_cookie holds one more than the limit at most.
LEMMA CookiesBounded ==
    ASSUME NEW c \in SUBSET Numbers, Cardinality(c) <= CookieLimit + 1,
           NEW n \in Numbers
    PROVE  /\ Cookies(c, n) \subseteq c \cup {n}
           /\ Cookies(c, n) \subseteq Numbers
           /\ Cardinality(Cookies(c, n)) <= CookieLimit + 1
<1> DEFINE kept == IF Cardinality(c) > CookieLimit THEN {} ELSE c
<1>1. IsFiniteSet(c) /\ Cardinality(c) \in Nat
  BY NumbersFinite, FS_Subset, FS_CardinalityType
<1>2. IsFiniteSet({}) /\ Cardinality({}) = 0
  BY FS_EmptySet
<1>3. IsFiniteSet(kept) /\ Cardinality(kept) \in Nat /\ Cardinality(kept) <= CookieLimit
      /\ kept \subseteq c
  BY <1>1, <1>2, FrontendsBounds
<1>4. Cookies(c, n) = kept \cup {n}
  BY DEF Cookies
<1> HIDE DEF kept
<1>5. Cardinality(kept \cup {n}) = IF n \in kept THEN Cardinality(kept) ELSE Cardinality(kept) + 1
  BY <1>3, FS_AddElement
<1> QED BY <1>3, <1>4, <1>5, FrontendsBounds

\* A step that hands out no cookie, and one that does.
LEMMA IssuedKept ==
    ASSUME IssuedInv, requests \in Nat, requests' \in Nat, requests' >= requests,
           \A f \in Fronts : front'[f].cookies \subseteq front[f].cookies,
           \A b \in Browsers : browser'[b].cookie = browser[b].cookie
    PROVE  IssuedInv'
<1>1. Issued' \subseteq Issued
  BY DEF Issued, Numbers
<1>2. IsFiniteSet(Issued') /\ Cardinality(Issued') <= Cardinality(Issued)
  BY <1>1, FS_Subset DEF IssuedInv
<1>3. Cardinality(Issued') \in Nat /\ Cardinality(Issued) \in Nat
  BY <1>2, FS_CardinalityType DEF IssuedInv
<1> QED BY <1>2, <1>3 DEF IssuedInv

LEMMA IssuedOne ==
    ASSUME IssuedInv, requests \in Nat, requests' = requests + 1, NEW n,
           \A f \in Fronts : front'[f].cookies \subseteq front[f].cookies \cup {n},
           \A b \in Browsers : browser'[b].cookie \in {browser[b].cookie, n}
    PROVE  IssuedInv'
<1>1. Issued' \subseteq Issued \cup {n}
  BY DEF Issued, Numbers
<1>a. IsFiniteSet(Issued) /\ Cardinality(Issued) \in Nat
  BY FS_CardinalityType DEF IssuedInv
<1>b. /\ IsFiniteSet(Issued \cup {n})
      /\ Cardinality(Issued \cup {n}) =
            IF n \in Issued THEN Cardinality(Issued) ELSE Cardinality(Issued) + 1
  BY <1>a, FS_AddElement, Zenon
<1>2. IsFiniteSet(Issued \cup {n}) /\ Cardinality(Issued \cup {n}) <= Cardinality(Issued) + 1
  BY <1>a, <1>b
<1>3. IsFiniteSet(Issued') /\ Cardinality(Issued') <= Cardinality(Issued \cup {n})
  BY <1>1, <1>2, FS_Subset
<1>4. Cardinality(Issued') \in Nat /\ Cardinality(Issued) \in Nat
      /\ Cardinality(Issued \cup {n}) \in Nat
  BY <1>2, <1>3, FS_CardinalityType DEF IssuedInv
<1> QED BY <1>2, <1>3, <1>4 DEF IssuedInv

\* Where the cookies are left alone.
LEMMA TypeKept ==
    ASSUME TypeInv, Shape', requests' = requests,
           \A f \in Fronts : front'[f].cookies \in {front[f].cookies, {}},
           \A b \in Browsers : browser'[b].cookie = browser[b].cookie
    PROVE  /\ IssuedInv'
           /\ \A f \in Fronts : /\ front'[f].cookies \subseteq Numbers
                                /\ Cardinality(front'[f].cookies) <= CookieLimit + 1
<1>1. IssuedInv'
  BY IssuedKept DEF TypeInv, TypeOK
<1>2. Cardinality({}) <= CookieLimit + 1
  BY FS_EmptySet, FrontendsBounds
<1>3. \A f \in Fronts : /\ front'[f].cookies \subseteq Numbers
                        /\ Cardinality(front'[f].cookies) <= CookieLimit + 1
  BY <1>2 DEF TypeInv, TypeOK
<1> QED BY <1>1, <1>3

\* A browser, and what the steps make of it.
Journey == [at : {"away", "sent", "page", "waiting"},
            front : Fronts \cup {None}, cookie : Numbers \cup {0}]

LEMMA JourneySteps ==
    ASSUME NEW x \in Journey
    PROVE  /\ \A f \in Fronts \cup {None}, s \in {"away", "sent", "page", "waiting"} :
                 /\ [x EXCEPT !.at = s, !.front = f] \in Journey
                 /\ [x EXCEPT !.at = s, !.front = f].cookie = x.cookie
           /\ \A s \in {"away", "sent", "page", "waiting"} :
                 [x EXCEPT !.at = s] \in Journey /\ [x EXCEPT !.at = s].cookie = x.cookie
           /\ \A n \in Numbers : /\ [x EXCEPT !.cookie = n] \in Journey
                                 /\ [x EXCEPT !.cookie = n].cookie = n
BY DEF Journey

LEMMA JourneyType == TypeInv => \A b \in Browsers : browser[b] \in Journey
BY DEF TypeInv, TypeOK, Journey

LEMMA TypeConnections ==
    ASSUME TypeInv, Shape',
           \/ \E f \in Fronts : Connect(f) \/ Listen(f) \/ Crash(f)
           \/ \E fd \in Fds : HandleConnect(fd)
    PROVE  TypeInv'
<1>1. ASSUME NEW f \in Fronts, Connect(f) PROVE TypeInv'
  <2>1. PICK fd \in Fds :
           /\ conn' = [conn EXCEPT ![fd] = [front |-> f, hello |-> TRUE, eof |-> FALSE]]
           /\ front' = [front EXCEPT ![f].at = "connected", ![f].fd = fd]
    BY <1>1 DEF Connect
  <2>2. UNCHANGED <<master, frontends, lb, raced, browser, account, faults>>
    BY <1>1 DEF Connect
  <2>3. \A g \in Fronts : front'[g].cookies = front[g].cookies
    BY <2>1 DEF TypeInv, Shape
  <2>4. /\ IssuedInv'
        /\ \A g \in Fronts : /\ front'[g].cookies \subseteq Numbers
                             /\ Cardinality(front'[g].cookies) <= CookieLimit + 1
    BY <2>2, <2>3, TypeKept DEF account
  <2>5. \A g \in Fronts : /\ front'[g].at \in {"down", "connected", "listening", "hung"}
                          /\ front'[g].fd \in Fds \cup {None}
                          /\ front'[g].job \in Browsers \cup {None}
    BY <2>1 DEF TypeInv, TypeOK, Shape
  <2>6. conn' \in [Fds -> [front : Fronts \cup {None}, hello : BOOLEAN, eof : BOOLEAN]]
    BY DEF Shape, Connection
  <2> QED BY <2>2, <2>4, <2>5, <2>6 DEF TypeInv, TypeOK, account
<1>2. ASSUME NEW f \in Fronts, Listen(f) PROVE TypeInv'
  <2>1. front' = [front EXCEPT ![f].at = "listening"]
    BY <1>2 DEF Listen
  <2>2. UNCHANGED <<registry, browser, account, faults>>
    BY <1>2 DEF Listen
  <2>3. \A g \in Fronts : front'[g].cookies = front[g].cookies
    BY <2>1 DEF TypeInv, Shape
  <2>4. /\ IssuedInv'
        /\ \A g \in Fronts : /\ front'[g].cookies \subseteq Numbers
                             /\ Cardinality(front'[g].cookies) <= CookieLimit + 1
    BY <2>2, <2>3, TypeKept DEF account
  <2>5. \A g \in Fronts : /\ front'[g].at \in {"down", "connected", "listening", "hung"}
                          /\ front'[g].fd \in Fds \cup {None}
                          /\ front'[g].job \in Browsers \cup {None}
    BY <2>1 DEF TypeInv, TypeOK, Shape
  <2> QED BY <2>2, <2>4, <2>5 DEF TypeInv, TypeOK, account, registry
<1>3. ASSUME NEW f \in Fronts, Crash(f) PROVE TypeInv'
  <2>1. /\ front' = [front EXCEPT ![f] = Down]
        /\ conn' = [conn EXCEPT ![front[f].fd].eof = TRUE]
        /\ browser' = [b \in Browsers |->
                          IF browser[b].at = "waiting" /\ browser[b].front = f
                          THEN Gone(b) ELSE browser[b]]
        /\ faults < MaxFaults /\ faults' = faults + 1
        /\ halfway' = (halfway \/ front[f].job # None)
        /\ UNCHANGED <<master, frontends, lb, raced, pwd, meta, requests>>
    BY <1>3 DEF Crash, Faulty
  <2>2. \A g \in Fronts : front'[g].cookies \in {front[g].cookies, {}}
    BY <2>1 DEF TypeInv, Shape, Down
  <2>a. \A b \in Browsers : Gone(b) \in Journey /\ Gone(b).cookie = browser[b].cookie
    BY JourneyType, JourneySteps DEF Gone
  <2>3. \A b \in Browsers : browser'[b].cookie = browser[b].cookie
    BY <2>1, <2>a
  <2>4. /\ IssuedInv'
        /\ \A g \in Fronts : /\ front'[g].cookies \subseteq Numbers
                             /\ Cardinality(front'[g].cookies) <= CookieLimit + 1
    BY <2>1, <2>2, <2>3, TypeKept
  <2>5. \A g \in Fronts : /\ front'[g].at \in {"down", "connected", "listening", "hung"}
                          /\ front'[g].fd \in Fds \cup {None}
                          /\ front'[g].job \in Browsers \cup {None}
    BY <2>1 DEF TypeInv, TypeOK, Shape, Down
  <2>6. conn' \in [Fds -> [front : Fronts \cup {None}, hello : BOOLEAN, eof : BOOLEAN]]
    BY DEF Shape, Connection
  <2>7. browser' \in [Browsers -> Journey]
    BY <2>1, <2>a, JourneyType
  <2>8. faults' \in 0 .. MaxFaults
    BY <2>1, FrontendsBounds DEF TypeInv, TypeOK
  <2> QED BY <2>1, <2>4, <2>5, <2>6, <2>7, <2>8 DEF TypeInv, TypeOK, Journey, Numbers
<1>4. ASSUME NEW fd \in Fds, HandleConnect(fd) PROVE TypeInv'
  <2>1. UNCHANGED <<master, lb, front, browser, account, faults>>
    BY <1>4 DEF HandleConnect, Register, Unregister
  <2>2. IssuedInv'
    BY <2>1, TypeKept DEF account
  <2>3. /\ frontends' \in [Fds -> Fronts \cup {None}]
        /\ conn' \in [Fds -> [front : Fronts \cup {None}, hello : BOOLEAN, eof : BOOLEAN]]
    BY DEF Shape, Connection
  <2>4. raced' \in BOOLEAN
    BY <1>4 DEF HandleConnect, Register, Unregister, Race
  <2> QED BY <2>1, <2>2, <2>3, <2>4 DEF TypeInv, TypeOK, account, Numbers
<1> QED BY <1>1, <1>2, <1>3, <1>4

LEMMA TypeBrowsers ==
    ASSUME TypeInv, Shape',
           \/ \E b \in Browsers : Check(b) \/ Login(b) \/ Refused(b)
           \/ SelectFrontend \/ MasterDies
    PROVE  TypeInv'
<1>1. UNCHANGED <<front, account, faults, frontends, conn>>
  BY DEF Check, Login, Refused, SelectFrontend, MasterDies, registry
<1>2. /\ master' \in BOOLEAN /\ raced' \in BOOLEAN
      /\ lb' \in [at : {"idle", "select"}, b : Browsers \cup {None}]
  <2> DEFINE T == [at : {"idle", "select"}, b : Browsers \cup {None}]
             Ok == master' \in BOOLEAN /\ raced' \in BOOLEAN /\ lb' \in T
  <2>1. master \in BOOLEAN /\ raced \in BOOLEAN /\ lb \in T
    BY DEF TypeInv, TypeOK
  <2>2. ASSUME NEW b \in Browsers, Check(b) PROVE Ok
    BY <2>1, <2>2 DEF Check
  <2>3. ASSUME NEW b \in Browsers, Login(b) \/ Refused(b) PROVE Ok
    BY <2>1, <2>3 DEF Login, Refused, registry
  <2>4. ASSUME SelectFrontend \/ MasterDies PROVE Ok
    <3>1. lb' = [at |-> "idle", b |-> None]
      BY <2>4 DEF SelectFrontend, MasterDies
    <3>2. raced' \in {FALSE, raced} /\ master' \in {FALSE, master}
      BY <2>4, Zenon DEF SelectFrontend, MasterDies
    <3> QED BY <2>1, <3>1, <3>2
  <2> QED BY <2>2, <2>3, <2>4
<1> DEFINE Ok == /\ browser' \in [Browsers -> Journey]
                 /\ \A b \in Browsers : browser'[b].cookie = browser[b].cookie
<1>j. browser \in [Browsers -> Journey]
  BY DEF TypeInv, TypeOK, Journey
<1>3. ASSUME SelectFrontend PROVE Ok
  <2>1. PICK fd \in Registered :
           browser' = [browser EXCEPT ![lb.b].at = "sent", ![lb.b].front = frontends[fd]]
    BY <1>3 DEF SelectFrontend
  <2>2. frontends[fd] \in Fronts
    BY DEF Registered, TypeInv, TypeOK
  <2> DEFINE x == [browser[lb.b] EXCEPT !.at = "sent", !.front = frontends[fd]]
  <2>3. lb.b \in Browsers => x \in Journey /\ x.cookie = browser[lb.b].cookie
    BY <1>j, <2>2, JourneySteps
  <2>4. browser' = [browser EXCEPT ![lb.b] = x]
    BY <2>1, <1>j
  <2> HIDE DEF x
  <2> QED BY <1>j, <2>3, <2>4
<1>4. ASSUME NEW c \in Browsers, Login(c) \/ Refused(c) PROVE Ok
  <2>1. PICK x : /\ browser' = [browser EXCEPT ![c] = x]
                 /\ x = [browser[c] EXCEPT !.at = "page"] \/ x = Gone(c)
    BY <1>4 DEF Login, Refused
  <2>g. browser[c] \in Journey
    BY <1>j
  <2>2. x \in Journey /\ x.cookie = browser[c].cookie
    <3>1. CASE x = [browser[c] EXCEPT !.at = "page"]
      BY <2>g, <3>1, JourneySteps
    <3>2. CASE x = Gone(c)
      BY <2>g, <3>2, JourneySteps DEF Gone
    <3> QED BY <2>1, <3>1, <3>2
  <2> QED BY <1>j, <2>1, <2>2
<1>5. ASSUME UNCHANGED browser PROVE Ok
  BY <1>5, <1>j DEF Journey, Numbers
<1>6. Ok
  <2> HIDE DEF Ok
  <2> QED BY <1>3, <1>4, <1>5 DEF Check, MasterDies
<1>7. IssuedInv'
  BY <1>1, <1>6, TypeKept DEF account
<1> QED BY <1>1, <1>2, <1>6, <1>7 DEF TypeInv, TypeOK, account, Journey, Numbers

\* What a frontend that hangs leaves of the types.
LEMMA TypeHang ==
    ASSUME TypeInv, Shape', NEW f \in Fronts, NEW b \in Browsers, Hang(f, b),
           requests' \in requests .. MaxRequests, pwd' \in Passwords \cup {None},
           meta' \in {"absent", "blank", "used"}, halfway' \in BOOLEAN
    PROVE  TypeInv'
<1>1. /\ front' = [front EXCEPT ![f].at = "hung", ![f].job = None]
      /\ browser' = [browser EXCEPT ![b].at = "waiting"]
      /\ UNCHANGED <<master, frontends, conn, lb, raced>>
  BY DEF Hang, registry
<1>2. faults' \in 0 .. MaxFaults
  BY FrontendsBounds DEF Hang, Faulty, TypeInv, TypeOK
<1>3. browser \in [Browsers -> Journey]
  BY DEF TypeInv, TypeOK, Journey
<1> DEFINE x == [browser[b] EXCEPT !.at = "waiting"]
<1>4. x \in Journey /\ x.cookie = browser[b].cookie
  BY <1>3, JourneySteps
<1>5. browser' = [browser EXCEPT ![b] = x]
  BY <1>1, <1>3
<1> HIDE DEF x
<1>6. browser' \in [Browsers -> Journey]
      /\ \A c \in Browsers : browser'[c].cookie = browser[c].cookie
  BY <1>3, <1>4, <1>5
<1>7. \A g \in Fronts : /\ front'[g].cookies = front[g].cookies
                        /\ front'[g].at \in {front[g].at, "hung"}
                        /\ front'[g].fd = front[g].fd
                        /\ front'[g].job \in Browsers \cup {None}
  BY <1>1 DEF TypeInv, TypeOK, Shape
<1>8. requests \in Nat /\ requests' \in Nat /\ requests' >= requests
      /\ requests' \in 0 .. MaxRequests
  BY FrontendsBounds DEF TypeInv, TypeOK
<1>9. IssuedInv'
  BY <1>6, <1>7, <1>8, IssuedKept DEF TypeInv
<1>10. \A g \in Fronts : /\ front'[g].at \in {"down", "connected", "listening", "hung"}
                         /\ front'[g].fd \in Fds \cup {None}
                         /\ front'[g].job \in Browsers \cup {None}
                         /\ front'[g].cookies \subseteq Numbers
                         /\ Cardinality(front'[g].cookies) <= CookieLimit + 1
  BY <1>7 DEF TypeInv, TypeOK
<1> QED BY <1>1, <1>2, <1>6, <1>8, <1>9, <1>10 DEF TypeInv, TypeOK, Journey, Numbers

LEMMA TypeSilent ==
    ASSUME TypeInv, Shape', NEW f \in Fronts,
           SilentInit(f) \/ \E b \in Browsers : Silent(f, b)
    PROVE  TypeInv'
<1>1. ASSUME NEW b \in Browsers, Silent(f, b) PROVE TypeInv'
  <2>1. requests' \in requests .. MaxRequests
    BY <1>1, FrontendsBounds DEF Silent, Post, TypeInv, TypeOK
  <2>2. pwd' \in Passwords \cup {None} /\ meta' \in {"absent", "blank", "used"}
    BY <1>1 DEF Silent, TypeInv, TypeOK
  <2>3. halfway' \in BOOLEAN
    BY <1>1 DEF Silent
  <2> QED BY <1>1, <2>1, <2>2, <2>3, TypeHang DEF Silent
<1>2. CASE SilentInit(f)
  <2>1. front[f].job \in Browsers
    BY <1>2 DEF SilentInit, TypeInv, Shape
  <2>2. requests' \in requests .. MaxRequests
    BY <1>2, FrontendsBounds DEF SilentInit, TypeInv, TypeOK
  <2>3. /\ pwd' \in Passwords \cup {None} /\ meta' \in {"absent", "blank", "used"}
        /\ halfway' \in BOOLEAN
    BY <1>2 DEF SilentInit, TypeInv, TypeOK
  <2> QED BY <1>2, <2>1, <2>2, <2>3, TypeHang DEF SilentInit
<1> QED BY <1>1, <1>2

LEMMA TypeForms ==
    ASSUME TypeInv, Shape', NEW f \in Fronts, NEW b \in Browsers, HandleForm(f, b),
           ~Silent(f, b)
    PROVE  TypeInv'
<1>1. /\ requests \in Nat /\ requests < MaxRequests /\ requests' = requests + 1
      /\ requests' \in 0 .. MaxRequests
  BY FrontendsBounds DEF HandleForm, SignUp, SignIn, ChangePassword, Upload, Post, TypeInv, TypeOK
<1>2. UNCHANGED <<master, frontends, conn, lb, raced>>
  BY DEF HandleForm, SignUp, SignIn, ChangePassword, Upload, registry
<1>3. ASSUME NEW ok \in BOOLEAN, NEW old \in Passwords \cup {None}, NEW new \in Passwords,
             ChangePwd(old, new, ok)
      PROVE  pwd' \in Passwords \cup {None} /\ faults' \in 0 .. MaxFaults
  <2>1. pwd' \in {pwd, new}
    BY <1>3 DEF ChangePwd, Cput
  <2>2. faults' = faults \/ (faults < MaxFaults /\ faults' = faults + 1)
    BY <1>3 DEF ChangePwd, Faulty
  <2> QED BY <2>1, <2>2, FrontendsBounds DEF TypeInv, TypeOK
<1>4. ASSUME UNCHANGED browser, UNCHANGED front
      PROVE  /\ IssuedInv'
             /\ \A g \in Fronts : /\ front'[g].cookies \subseteq Numbers
                                  /\ Cardinality(front'[g].cookies) <= CookieLimit + 1
  BY <1>1, <1>4, IssuedKept DEF TypeInv, TypeOK
<1>5. CASE SignUp(f, b)
  <2>1. PICK ok \in BOOLEAN, new \in Passwords :
           /\ ChangePwd(None, new, ok)
           /\ front' = [front EXCEPT ![f].job = ToInitialize(ok, b)]
           /\ browser' = [browser EXCEPT ![b].at = IF front'[f].job = b THEN "waiting" ELSE "page"]
           /\ halfway' = (halfway \/ (~ok /\ pwd' # pwd))
    BY <1>5 DEF SignUp
  <2>2. \A g \in Fronts : front'[g].cookies = front[g].cookies
    BY <2>1 DEF TypeInv, Shape
  <2>3. browser \in [Browsers -> Journey]
    BY DEF TypeInv, TypeOK, Journey
  <2>4. PICK s \in {"waiting", "page"} : browser' = [browser EXCEPT ![b].at = s]
    BY <2>1
  <2> DEFINE x == [browser[b] EXCEPT !.at = s]
  <2>5. x \in Journey /\ x.cookie = browser[b].cookie
    BY <2>3, <2>4, JourneySteps
  <2>6. browser' = [browser EXCEPT ![b] = x]
    BY <2>3, <2>4
  <2> HIDE DEF x
  <2>7. browser' \in [Browsers -> Journey] /\ \A c \in Browsers : browser'[c].cookie = browser[c].cookie
    BY <2>3, <2>5, <2>6
  <2>8. IssuedInv'
    BY <1>1, <2>2, <2>7, IssuedKept DEF TypeInv
  <2>9. \A g \in Fronts : /\ front'[g].at \in {"down", "connected", "listening", "hung"}
                          /\ front'[g].fd \in Fds \cup {None}
                          /\ front'[g].job \in Browsers \cup {None}
                          /\ front'[g].cookies \subseteq Numbers
                          /\ Cardinality(front'[g].cookies) <= CookieLimit + 1
    BY <2>1, <2>2 DEF TypeInv, TypeOK, Shape
  <2>10. UNCHANGED meta
    BY <1>5 DEF SignUp
  <2>11. halfway' \in BOOLEAN
    BY <2>1
  <2>12. pwd' \in Passwords \cup {None} /\ faults' \in 0 .. MaxFaults
    BY <1>3, <2>1
  <2> QED
    BY <1>1, <1>2, <2>7, <2>8, <2>9, <2>10, <2>11, <2>12 DEF TypeInv, TypeOK, Journey, Numbers
<1>6. CASE ChangePassword(f, b)
  <2>1. PICK ok \in BOOLEAN, old \in Passwords, new \in Passwords : ChangePwd(old, new, ok)
    BY <1>6 DEF ChangePassword
  <2>2. UNCHANGED <<front, browser, meta, halfway>>
    BY <1>6 DEF ChangePassword
  <2>3. pwd' \in Passwords \cup {None} /\ faults' \in 0 .. MaxFaults
    BY <1>3, <2>1
  <2> QED BY <1>1, <1>2, <1>4, <2>2, <2>3 DEF TypeInv, TypeOK, Numbers
<1>7. CASE Upload(f, b)
  <2>1. meta' = "used" /\ UNCHANGED <<front, browser, pwd, halfway, faults>>
    BY <1>7 DEF Upload
  <2> QED BY <1>1, <1>2, <1>4, <2>1 DEF TypeInv, TypeOK, Numbers
<1>8. CASE SignIn(f, b)
  <2>1. UNCHANGED <<pwd, meta, halfway, faults>>
    BY <1>8 DEF SignIn
  <2>2. CASE UNCHANGED <<front, browser>>
    BY <1>1, <1>2, <1>4, <2>1, <2>2 DEF TypeInv, TypeOK, Numbers
  <2>3. CASE /\ front' = [front EXCEPT ![f].cookies = Cookies(@, NewCookie)]
             /\ browser' = [browser EXCEPT ![b].cookie = NewCookie]
    <3>1. PICK n \in Numbers : n = NewCookie
      BY <1>1, NewCookieIs
    <3> DEFINE c == Cookies(front[f].cookies, n)
               x == [browser[b] EXCEPT !.cookie = n]
    <3>2. /\ c \subseteq front[f].cookies \cup {n} /\ c \subseteq Numbers
          /\ Cardinality(c) <= CookieLimit + 1
      BY CookiesBounded DEF TypeInv, TypeOK
    <3>3. browser \in [Browsers -> Journey]
      BY DEF TypeInv, TypeOK, Journey
    <3>4. x \in Journey /\ x.cookie = n
      BY <3>3, JourneySteps
    <3>5. browser' = [browser EXCEPT ![b] = x]
      BY <2>3, <3>1, <3>3
    <3>6. front' = [front EXCEPT ![f].cookies = c]
      BY <2>3, <3>1
    <3> HIDE DEF c, x
    <3>7. \A g \in Fronts : /\ front'[g].at = front[g].at /\ front'[g].fd = front[g].fd
                            /\ front'[g].job = front[g].job
                            /\ front'[g].cookies = IF g = f THEN c ELSE front[g].cookies
      BY <3>6 DEF TypeInv, Shape
    <3>8. browser' \in [Browsers -> Journey]
          /\ \A d \in Browsers : browser'[d].cookie \in {browser[d].cookie, n}
      BY <3>3, <3>4, <3>5
    <3>9. IssuedInv'
      BY <1>1, <3>2, <3>7, <3>8, IssuedOne DEF TypeInv
    <3> QED BY ZenonT(90), <1>1, <1>2, <2>1, <3>2, <3>7, <3>8, <3>9 DEF TypeInv, TypeOK, Journey, Numbers
  <2> QED BY <1>8, <2>2, <2>3 DEF SignIn
<1> QED BY <1>5, <1>6, <1>7, <1>8 DEF HandleForm

LEMMA TypeInitialize ==
    ASSUME TypeInv, Shape', NEW f \in Fronts, InitializeUsr(f)
    PROVE  TypeInv'
<1>1. /\ front' = [front EXCEPT ![f].job = None]
      /\ browser' = [browser EXCEPT ![front[f].job].at = "page"]
      /\ UNCHANGED <<master, frontends, conn, lb, raced, pwd, requests>>
  BY DEF InitializeUsr, registry
<1>2. meta' \in {"absent", "blank", "used"} /\ faults' \in 0 .. MaxFaults
  <2>1. meta' = meta \/ meta' = "blank"
    BY DEF InitializeUsr
  <2>2. faults' = faults \/ (faults < MaxFaults /\ faults' = faults + 1)
    BY DEF InitializeUsr, Faulty
  <2> QED BY <2>1, <2>2, FrontendsBounds DEF TypeInv, TypeOK
<1>3. halfway' = TRUE \/ halfway' = halfway
  BY Zenon DEF InitializeUsr
<1>4. browser \in [Browsers -> Journey]
  BY DEF TypeInv, TypeOK, Journey
<1> DEFINE b == front[f].job
           x == [browser[b] EXCEPT !.at = "page"]
<1>5. b \in Browsers => x \in Journey /\ x.cookie = browser[b].cookie
  BY <1>4, JourneySteps
<1>6. browser' = [browser EXCEPT ![b] = x]
  BY <1>1, <1>4
<1> HIDE DEF x, b
<1>7. browser' \in [Browsers -> Journey] /\ \A c \in Browsers : browser'[c].cookie = browser[c].cookie
  BY <1>4, <1>5, <1>6
<1>8. \A g \in Fronts : /\ front'[g].cookies = front[g].cookies
                        /\ front'[g].at = front[g].at /\ front'[g].fd = front[g].fd
                        /\ front'[g].job \in Browsers \cup {None}
  BY <1>1 DEF TypeInv, TypeOK, Shape
<1>9. IssuedInv'
  BY <1>1, <1>7, <1>8, TypeKept
<1>10. halfway' \in BOOLEAN
  BY <1>3 DEF TypeInv, TypeOK
<1> QED BY <1>1, <1>2, <1>7, <1>8, <1>9, <1>10 DEF TypeInv, TypeOK, Journey, Numbers

LEMMA TypeInit == Init => TypeInv
<1> SUFFICES ASSUME Init PROVE TypeInv
  OBVIOUS
<1>1. Shape
  BY RegistryInit DEF RegistryInv
<1>2. /\ front = [f \in Fronts |-> Down]
      /\ browser = [b \in Browsers |-> Away]
      /\ requests = 0
  BY DEF Init
<1>3. Issued = {}
  BY <1>2, FrontendsBounds DEF Issued, Down, Away, Numbers
<1>4. IsFiniteSet({}) /\ Cardinality({}) = 0
  BY FS_EmptySet
<1>5. IssuedInv
  BY <1>2, <1>3, <1>4 DEF IssuedInv
<1>6. browser \in [Browsers -> Journey]
  BY <1>2 DEF Away, Journey
<1>7. TypeOK
  <2>1. \A f \in Fronts : front[f] = [at |-> "down", fd |-> None, cookies |-> {}, job |-> None]
    BY <1>2 DEF Down
  <2>2. \A f \in Fronts : /\ front[f].at = "down" /\ front[f].fd = None
                          /\ front[f].cookies = {} /\ front[f].job = None
    BY <2>1
  <2>3. \A f \in Fronts : Cardinality(front[f].cookies) <= CookieLimit + 1
    <3>1. SUFFICES ASSUME NEW f \in Fronts
                   PROVE  Cardinality(front[f].cookies) <= CookieLimit + 1
      OBVIOUS
    <3>2. front[f].cookies = {}
      BY <2>2
    <3>3. Cardinality(front[f].cookies) = 0
      BY <1>4, <3>2
    <3> QED BY <3>3, FrontendsBounds
  <2>4. conn \in [Fds -> [front : Fronts \cup {None}, hello : BOOLEAN, eof : BOOLEAN]]
    BY <1>1 DEF Shape, Connection
  <2>5. frontends \in [Fds -> Fronts \cup {None}]
    BY <1>1 DEF Shape
  <2>6. /\ master = TRUE /\ raced = FALSE /\ halfway = FALSE /\ pwd = None /\ meta = "absent"
        /\ requests = 0 /\ faults = 0 /\ lb = [at |-> "idle", b |-> None]
    BY DEF Init
  <2>7. master \in BOOLEAN /\ raced \in BOOLEAN /\ halfway \in BOOLEAN
    BY <2>6
  <2>8. requests \in 0 .. MaxRequests /\ faults \in 0 .. MaxFaults
    BY <2>6, FrontendsBounds
  <2>9. lb \in [at : {"idle", "select"}, b : Browsers \cup {None}]
    BY <2>6
  <2>10. pwd \in Passwords \cup {None} /\ meta \in {"absent", "blank", "used"}
    BY <2>6
  <2>11. \A f \in Fronts :
          /\ front[f].at \in {"down", "connected", "listening", "hung"}
          /\ front[f].fd \in Fds \cup {None} /\ front[f].job \in Browsers \cup {None}
          /\ front[f].cookies \subseteq Numbers
    BY <2>2
  <2> QED BY <1>6, <2>3, <2>4, <2>5, <2>7, <2>8, <2>9, <2>10, <2>11 DEF TypeOK, Journey
<1> QED BY <1>1, <1>5, <1>7 DEF TypeInv

LEMMA TypeNext == TypeInv /\ Shape' /\ [Next]_vars => TypeInv'
<1> SUFFICES ASSUME TypeInv, Shape', [Next]_vars PROVE TypeInv'
  OBVIOUS
<1>1. CASE UNCHANGED vars
  <2>1. IssuedInv'
    BY <1>1, IssuedKept DEF vars, account, TypeInv, TypeOK
  <2> QED BY <1>1, <2>1 DEF vars, account, registry, TypeInv, TypeOK, Numbers
<1>2. CASE Next
  BY <1>2, TypeConnections, TypeBrowsers, TypeForms, TypeInitialize, TypeSilent DEF Next
<1> QED BY <1>1, <1>2

(***************************************************************************)
(* The variables keep their types.  Two parts of that are bounds: the      *)
(* table of create_cookie never holds more than one cookie above its       *)
(* limit, and there is a number left for every sign-in.                    *)
(***************************************************************************)
THEOREM FrontendsTypeCorrect == Spec => []TypeOK
<1>1. RegistryInv => Shape
  BY DEF RegistryInv
<1>2. TypeInv => TypeOK
  BY DEF TypeInv
<1> QED
  BY <1>1, <1>2, RegistryInit, RegistryNext, TypeInit, TypeNext, PTL DEF Spec

------------------------------------------------------------------------------
(* Accounts.                                                               *)

LEMMA AccountInit == Init => AccountInv
BY DEF Init, AccountInv, AccountWhole, Down

\* A password is replaced by a password, and only if the expected one was there.
LEMMA ChangePwdKeeps ==
    ASSUME NEW old, NEW new \in Passwords, NEW ok \in BOOLEAN, ChangePwd(old, new, ok)
    PROVE  /\ pwd' # pwd => pwd = old /\ pwd' = new
           /\ ok => pwd = old /\ pwd' = new
BY DEF ChangePwd, Cput

\* Steps that change neither the password nor who is in initialize_usr.
LEMMA AccountKept ==
    ASSUME AccountInv, UNCHANGED pwd, halfway => halfway',
           meta' = meta \/ (meta # "absent" /\ meta' # "absent"),
           \A f \in Fronts : front'[f].job = front[f].job
    PROVE  AccountInv'
BY DEF AccountInv, AccountWhole

LEMMA AccountSignUp ==
    ASSUME Shape, AccountInv, NEW f \in Fronts, NEW b \in Browsers, SignUp(f, b)
    PROVE  AccountInv'
<1>1. PICK ok \in BOOLEAN, new \in Passwords :
         /\ ChangePwd(None, new, ok)
         /\ front' = [front EXCEPT ![f].job = ToInitialize(ok, b)]
         /\ halfway' = (halfway \/ (~ok /\ pwd' # pwd))
  BY DEF SignUp
<1>2. UNCHANGED meta /\ front[f].job = None
  BY DEF SignUp, Post
<1>3. CASE ok
  <2>1. pwd = None /\ pwd' # None
    BY <1>1, <1>3, ChangePwdKeeps, FrontendsNone
  <2>2. \A g \in Fronts : front[g].job = None
    BY <2>1 DEF AccountInv
  <2>3. front'[f].job = b /\ \A g \in Fronts : g # f => front'[g].job = None
    BY <1>1, <1>3, <2>2 DEF Shape, ToInitialize
  <2>4. b # None /\ meta' = "absent"
    BY <1>2, <2>1, FrontendsNone DEF AccountInv
  <2> QED BY <2>1, <2>3, <2>4 DEF AccountInv, AccountWhole
<1>4. CASE ~ok
  <2>1. \A g \in Fronts : front'[g].job = front[g].job
    BY <1>1, <1>2, <1>4 DEF Shape, ToInitialize
  <2>2. CASE pwd' = pwd
    BY <1>1, <1>2, <1>4, <2>1, <2>2, AccountKept
  <2>3. CASE pwd' # pwd
    <3>1. pwd' # None /\ halfway'
      BY <1>1, <1>4, <2>3, ChangePwdKeeps, FrontendsNone
    <3> QED BY <1>2, <2>1, <3>1 DEF AccountInv, AccountWhole
  <2> QED BY <2>2, <2>3
<1> QED BY <1>3, <1>4

LEMMA AccountChangePassword ==
    ASSUME AccountInv, NEW f \in Fronts, NEW b \in Browsers, ChangePassword(f, b)
    PROVE  AccountInv'
<1>1. PICK ok \in BOOLEAN, old \in Passwords, new \in Passwords : ChangePwd(old, new, ok)
  BY DEF ChangePassword
<1>2. UNCHANGED <<front, meta, halfway>>
  BY DEF ChangePassword
<1>3. pwd = None <=> pwd' = None
  BY <1>1, ChangePwdKeeps, FrontendsNone
<1> QED BY <1>2, <1>3 DEF AccountInv, AccountWhole

LEMMA AccountInitialize ==
    ASSUME Shape, AccountInv, NEW f \in Fronts, InitializeUsr(f)
    PROVE  AccountInv'
<1>1. /\ front[f].job # None /\ UNCHANGED pwd
      /\ front' = [front EXCEPT ![f].job = None]
      /\ \/ meta' = "blank" /\ UNCHANGED halfway
         \/ halfway' = TRUE
  BY DEF InitializeUsr
<1>2. \A g \in Fronts : front'[g].job = None
  BY <1>1 DEF AccountInv, Shape
<1>3. pwd' # None
  BY <1>1 DEF AccountInv
<1> QED BY <1>1, <1>2, <1>3 DEF AccountInv, AccountWhole

LEMMA AccountCrash ==
    ASSUME Shape, AccountInv, NEW f \in Fronts, Crash(f)
    PROVE  AccountInv'
<1>1. /\ front' = [front EXCEPT ![f] = Down]
      /\ halfway' = (halfway \/ front[f].job # None)
      /\ UNCHANGED <<pwd, meta>>
  BY DEF Crash
<1>2. \A g \in Fronts : front'[g].job = IF g = f THEN None ELSE front[g].job
  BY <1>1 DEF Shape, Down
<1> QED BY <1>1, <1>2 DEF AccountInv, AccountWhole

LEMMA AccountSilent ==
    ASSUME Shape, AccountInv, NEW f \in Fronts,
           SilentInit(f) \/ \E b \in Browsers : Silent(f, b)
    PROVE  AccountInv'
<1>1. /\ front' = [front EXCEPT ![f].at = "hung", ![f].job = None]
      /\ \A g \in Fronts : front'[g].job = IF g = f THEN None ELSE front[g].job
  BY DEF SilentInit, Silent, Hang, Shape
<1>2. ASSUME NEW b \in Browsers, Silent(f, b) PROVE AccountInv'
  <2>1. front[f].job = None
    BY <1>2 DEF Silent, Post
  <2>2. /\ pwd' = pwd \/ pwd' \in Passwords
        /\ pwd = None /\ pwd' # None => halfway'
        /\ halfway => halfway'
        /\ meta' = meta \/ (meta # "absent" /\ meta' = "used" /\ pwd' = pwd)
    BY <1>2 DEF Silent
  <2>3. pwd = None \/ pwd' # None
    BY <2>2, FrontendsNone
  <2>4. \A g \in Fronts : front'[g].job = front[g].job
    BY <1>1, <2>1
  <2> QED BY <2>2, <2>3, <2>4 DEF AccountInv, AccountWhole
<1>3. CASE SilentInit(f)
  <2>1. front[f].job # None /\ halfway' = TRUE /\ UNCHANGED pwd
    BY <1>3 DEF SilentInit
  <2>2. pwd # None /\ \A g \in Fronts : front'[g].job = None
    BY <1>1, <2>1 DEF AccountInv
  <2> QED BY <2>1, <2>2 DEF AccountInv, AccountWhole
<1> QED BY <1>2, <1>3

LEMMA AccountNext == Shape /\ AccountInv /\ [Next]_vars => AccountInv'
<1> SUFFICES ASSUME Shape, AccountInv, [Next]_vars PROVE AccountInv'
  OBVIOUS
<1>1. CASE UNCHANGED <<front, pwd, meta, halfway>>
  BY <1>1, AccountKept
<1>2. ASSUME NEW f \in Fronts, Connect(f) \/ Listen(f) PROVE AccountInv'
  <2>1. UNCHANGED <<pwd, meta, halfway>>
    BY <1>2 DEF Connect, Listen, account
  <2>2. front'[f].job = front[f].job
    BY <1>2 DEF Connect, Listen, Shape
  <2>3. \A g \in Fronts : g # f => front'[g] = front[g]
    BY <1>2 DEF Connect, Listen, Shape
  <2> QED BY <2>1, <2>2, <2>3, AccountKept
<1>3. ASSUME NEW f \in Fronts, Crash(f) \/ InitializeUsr(f) PROVE AccountInv'
  BY <1>3, AccountCrash, AccountInitialize
<1>4. ASSUME NEW f \in Fronts, NEW b \in Browsers, SignUp(f, b) \/ ChangePassword(f, b)
      PROVE  AccountInv'
  BY <1>4, AccountSignUp, AccountChangePassword
<1>5. ASSUME NEW f \in Fronts, NEW b \in Browsers, SignIn(f, b) PROVE AccountInv'
  <2>1. UNCHANGED <<pwd, meta, halfway>>
    BY <1>5 DEF SignIn
  <2>2. \A g \in Fronts : front'[g].job = front[g].job
    BY <1>5 DEF SignIn, Shape
  <2> QED BY <2>1, <2>2, AccountKept
<1>6. ASSUME NEW f \in Fronts, NEW b \in Browsers, Upload(f, b) PROVE AccountInv'
  BY <1>6, AccountKept DEF Upload
<1>7. ASSUME NEW fd \in Fds, HandleConnect(fd)
      PROVE  UNCHANGED <<front, pwd, meta, halfway>>
  BY <1>7 DEF HandleConnect, Register, Unregister, account
<1>8. ASSUME NEW b \in Browsers, Check(b) \/ Login(b) \/ Refused(b)
      PROVE  UNCHANGED <<front, pwd, meta, halfway>>
  BY <1>8 DEF Check, Login, Refused, account
<1>9. ASSUME SelectFrontend \/ MasterDies
      PROVE  UNCHANGED <<front, pwd, meta, halfway>>
  BY <1>9 DEF SelectFrontend, MasterDies, account
<1>10. CASE UNCHANGED vars
  BY <1>10, <1>1 DEF vars, account
<1>11. ASSUME NEW f \in Fronts, SilentInit(f) \/ \E b \in Browsers : Silent(f, b)
       PROVE  AccountInv'
  BY <1>11, AccountSilent
<1> QED
  BY <1>1, <1>2, <1>3, <1>4, <1>5, <1>6, <1>7, <1>8, <1>9, <1>10, <1>11
     DEF Next, HandleForm

LEMMA AccountAlways == Spec => [](Shape /\ AccountInv)
<1>1. RegistryInv => Shape
  BY DEF RegistryInv
<1> QED
  BY <1>1, RegistryInit, RegistryNext, AccountInit, AccountNext, PTL DEF Spec

(***************************************************************************)
(* Who has a password has a tree for files, or the sign-up is at work on   *)
(* it or was broken off: whatever races and faults came before.            *)
(***************************************************************************)
THEOREM AccountsWhole == Spec => []AccountWhole
<1>1. AccountInv => AccountWhole
  BY DEF AccountInv
<1> QED BY <1>1, AccountAlways, PTL

(***************************************************************************)
(* No sign-up replaces a tree that is in use: initialize_usr runs only for *)
(* the one sign-up that set the password, and before anything was stored.  *)
(***************************************************************************)
THEOREM FilesSafe == Spec => FilesNotReset
<1>1. AccountInv /\ [Next]_vars => [meta = "used" => meta' = "used"]_vars
  <2> SUFFICES ASSUME AccountInv, Next, meta = "used" PROVE meta' = "used"
    BY DEF vars
  <2>1. ASSUME NEW f \in Fronts, InitializeUsr(f) \/ SilentInit(f) PROVE FALSE
    BY <2>1 DEF InitializeUsr, SilentInit, AccountInv
  <2>2. ASSUME NEW f \in Fronts, Connect(f) \/ Listen(f) \/ Crash(f) PROVE meta' = meta
    BY <2>2 DEF Connect, Listen, Crash, account
  <2>3. ASSUME NEW f \in Fronts, NEW b \in Browsers, HandleForm(f, b)
        PROVE  meta' = meta \/ meta' = "used"
    BY <2>3 DEF HandleForm, SignUp, SignIn, ChangePassword, Upload, Silent
  <2>4. ASSUME NEW fd \in Fds, HandleConnect(fd) PROVE meta' = meta
    BY <2>4 DEF HandleConnect, Register, Unregister, account
  <2>5. ASSUME NEW b \in Browsers, Check(b) \/ Login(b) \/ Refused(b) PROVE meta' = meta
    BY <2>5 DEF Check, Login, Refused, account
  <2>6. ASSUME SelectFrontend \/ MasterDies PROVE meta' = meta
    BY <2>6 DEF SelectFrontend, MasterDies, account
  <2> QED BY <2>1, <2>2, <2>3, <2>4, <2>5, <2>6 DEF Next
<1> QED BY <1>1, AccountAlways, PTL DEF Spec, FilesNotReset

==============================================================================
