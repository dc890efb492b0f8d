------------------------------ MODULE SmtpProofs ------------------------------
(***************************************************************************)
(* Proofs about Smtp, for every set of sessions and users, every           *)
(* assignment of users to clusters and every bound.                        *)
(***************************************************************************)
EXTENDS Smtp, Functions, TLAPS

------------------------------------------------------------------------------
(* Elements of a sequence.                                                 *)

\* One more element, one less, none.
LEMMA RangeAppend ==
    ASSUME NEW S, NEW q \in Seq(S), NEW e \in S
    PROVE  Append(q, e) \in Seq(S) /\ Range(Append(q, e)) = Range(q) \cup {e}
<1>1. /\ DOMAIN Append(q, e) = 1 .. Len(q) + 1 /\ DOMAIN q = 1 .. Len(q)
      /\ Len(q) \in Nat
      /\ \A i \in 1 .. Len(q) : Append(q, e)[i] = q[i]
      /\ Append(q, e)[Len(q) + 1] = e
  OBVIOUS
<1> QED BY <1>1 DEF Range

LEMMA RangeTail ==
    ASSUME NEW S, NEW q \in Seq(S), q # <<>>
    PROVE  /\ Head(q) \in S /\ Tail(q) \in Seq(S)
           /\ Range(q) = {Head(q)} \cup Range(Tail(q))
<1>1. /\ DOMAIN q = 1 .. Len(q) /\ DOMAIN Tail(q) = 1 .. Len(q) - 1
      /\ Len(q) \in Nat \ {0} /\ Head(q) = q[1]
      /\ \A i \in 1 .. Len(q) - 1 : Tail(q)[i] = q[i + 1]
  OBVIOUS
<1>2. \A i \in 2 .. Len(q) : i - 1 \in 1 .. Len(q) - 1 /\ q[i] = Tail(q)[i - 1]
  BY <1>1
<1>3. ASSUME NEW i \in 1 .. Len(q) PROVE q[i] \in {Head(q)} \cup Range(Tail(q))
  <2>1. CASE i = 1 BY <1>1, <2>1
  <2>2. CASE i # 1
    <3>1. i - 1 \in DOMAIN Tail(q) /\ q[i] = Tail(q)[i - 1] BY <1>1, <1>2, <2>2
    <3> QED BY <3>1 DEF Range
  <2> QED BY <2>1, <2>2
<1>4. Range(Tail(q)) \subseteq Range(q) BY <1>1 DEF Range
<1>5. Head(q) \in Range(q) BY <1>1 DEF Range
<1> QED BY <1>1, <1>3, <1>4, <1>5 DEF Range

LEMMA RangeEmpty == Range(<<>>) = {}
BY DEF Range

\* A function to sets, with one more element at one place.
LEMMA OneMore ==
    ASSUME NEW A, NEW B, NEW f \in [A -> SUBSET B], NEW a \in A, NEW b \in B
    PROVE  [f EXCEPT ![a] = @ \cup {b}] \in [A -> SUBSET B]
OBVIOUS


------------------------------------------------------------------------------
(* Type correctness.                                                       *)

SessionType ==
    [at : {"read", "ask", "wait", "write", "hung", "closed", "spin"},
     state : {"Init", "From", "To", "Data"}, n : 0 .. MaxMails,
     recipients : Seq(Users), todo : Seq(Users), backend : Groups \cup {"none"}]

\* A session is in DATA while it delivers, has read MAIL before RCPT and DATA,
\* and has a recipient to ask for or to write to.
DialogueInv ==
    \A s \in Sessions :
        /\ session[s].at \in {"ask", "wait", "write"} => session[s].state = "Data"
        /\ session[s].state # "Init" => session[s].n > 0
        /\ session[s].at \in {"wait", "write"} => session[s].todo # <<>>

TypeInv == TypeOK /\ DialogueInv

LEMMA TypeInit == Init => TypeInv
BY SmtpBounds DEF Init, TypeInv, TypeOK, DialogueInv, NewSession, Codes

LEMMA RefuseType ==
    ASSUME TypeInv, NEW s \in Sessions, NEW c \in Codes, Refuse(s, c)
    PROVE  TypeInv'
BY DEF Refuse, Answer, NoDelivery, TypeInv, TypeOK, DialogueInv

\* A step of one session.
LEMMA SessionStep ==
    ASSUME TypeInv, NEW s \in Sessions, NEW x \in SessionType,
           session' = [session EXCEPT ![s] = x],
           code' \in [Sessions -> Codes],
           requests' \in Seq(Users), answers' \in Seq(Groups \cup {"none"}),
           mbox' \in [Users -> SUBSET Mails],
           accepted' \in [Mails -> SUBSET Users], failed' \in [Mails -> SUBSET Users],
           done' \subseteq Mails,
           x.at \in {"ask", "wait", "write"} => x.state = "Data",
           x.state # "Init" => x.n > 0,
           x.at \in {"wait", "write"} => x.todo # <<>>
    PROVE  TypeInv'
BY DEF TypeInv, TypeOK, DialogueInv, SessionType

\* A step of the dialogue that accepts something.
LEMMA DialogueType ==
    ASSUME TypeInv, NEW s \in Sessions, NEW x \in SessionType,
           session' = [session EXCEPT ![s] = x],
           code' \in [Sessions -> Codes],
           accepted' \in [Mails -> SUBSET Users],
           NoDelivery,
           x.at \in {"ask", "wait", "write"} => x.state = "Data",
           x.state # "Init" => x.n > 0,
           x.at \in {"wait", "write"} => x.todo # <<>>
    PROVE  TypeInv'
BY SessionStep DEF NoDelivery, TypeInv, TypeOK

LEMMA ClientType ==
    ASSUME TypeInv, NEW s \in Sessions, Client(s)
    PROVE  TypeInv'
<1> DEFINE x == session[s]
<1>0. /\ x \in SessionType
      /\ x.state # "Init" => x.n > 0
      /\ code \in [Sessions -> Codes] /\ accepted \in [Mails -> SUBSET Users]
      /\ session \in [Sessions -> SessionType]
  BY DEF TypeInv, TypeOK, DialogueInv, SessionType
<1>1. CASE Noop(s) BY <1>1, RefuseType DEF Noop, Codes
<1>2. CASE MailFrom(s)
  <2>1. CASE Refuse(s, 503) \/ Refuse(s, 501) BY <2>1, RefuseType DEF Codes
  <2>2. CASE ~(Refuse(s, 503) \/ Refuse(s, 501))
    <3> DEFINE k == x.n + 1
               y == [x EXCEPT !.state = "From", !.n = k]
    <3>1. /\ session' = [session EXCEPT ![s] = y]
          /\ x.n < MaxMails /\ x.at = "read" /\ Answer(s, 250) /\ accepted' = accepted
          /\ NoDelivery
      BY <1>2, <2>2, <1>0 DEF MailFrom, Commands
    <3>k. k \in 0 .. MaxMails /\ k > 0 BY <1>0, <3>1, SmtpBounds DEF SessionType
    <3> HIDE DEF k
    <3>2. y \in SessionType /\ y.n = k /\ y.at = "read" /\ y.state = "From"
      BY <1>0, <3>1, <3>k DEF SessionType
    <3>3. code' \in [Sessions -> Codes] BY <1>0, <3>1 DEF Answer, Codes
    <3> HIDE DEF y
    <3> QED BY <1>0, <3>1, <3>k, <3>2, <3>3, DialogueType
  <2> QED BY <2>1, <2>2
<1>3. ASSUME NEW u \in Users, RcptTo(s, u) PROVE TypeInv'
  <2>0. x.recipients \in Seq(Users) /\ Append(x.recipients, u) \in Seq(Users)
    BY <1>0 DEF SessionType
  <2>1. CASE Refuse(s, 503) BY <2>1, RefuseType DEF Codes
  <2>2. CASE /\ RcptAllowed(s) /\ x.at = "read"
             /\ session' = [session EXCEPT ![s].recipients = Pushed(s, u, FALSE)]
             /\ \E c \in {501, 550} : Answer(s, c)
             /\ accepted' = accepted /\ NoDelivery
    <3> DEFINE y == [x EXCEPT !.recipients = x.recipients]
    <3>1. session' = [session EXCEPT ![s] = y] BY <1>0, <2>2 DEF Pushed
    <3>2. y \in SessionType /\ y.n = x.n /\ y.at = "read" /\ y.state = x.state
      BY <1>0, <2>0, <2>2 DEF SessionType
    <3>3. code' \in [Sessions -> Codes] BY <1>0, <2>2 DEF Answer, Codes
    <3>4. x.n > 0 BY <1>0, <2>2 DEF RcptAllowed
    <3> HIDE DEF y
    <3> QED BY <1>0, <2>2, <3>1, <3>2, <3>3, <3>4, DialogueType
  <2>3. CASE /\ RcptAllowed(s) /\ x.at = "read"
             /\ session' = [session EXCEPT ![s].state = "To",
                                           ![s].recipients = Pushed(s, u, TRUE)]
             /\ accepted' = [accepted EXCEPT ![This(s)] = @ \cup {u}]
             /\ Answer(s, 250) /\ NoDelivery
    <3> DEFINE r == Append(x.recipients, u)
               y == [x EXCEPT !.state = "To", !.recipients = r]
    <3>1. session' = [session EXCEPT ![s] = y] BY <1>0, <2>3 DEF Pushed
    <3> HIDE DEF r
    <3>2. y \in SessionType /\ y.n = x.n /\ y.at = "read" /\ y.state = "To"
      BY <1>0, <2>0, <2>3 DEF SessionType, r
    <3>3. code' \in [Sessions -> Codes] BY <1>0, <2>3 DEF Answer, Codes
    <3>4. accepted' \in [Mails -> SUBSET Users] BY <1>0, <2>3
    <3>5. x.n > 0 BY <1>0, <2>3 DEF RcptAllowed
    <3> HIDE DEF y
    <3> QED BY <2>3, <3>1, <3>2, <3>3, <3>4, <3>5, DialogueType
  <2> QED BY ZenonT(60), <1>3, <2>1, <2>2, <2>3 DEF RcptTo, Commands
<1>4. CASE Data(s)
  <2>1. CASE Refuse(s, 503) BY <2>1, RefuseType DEF Codes
  <2>2. CASE ~Refuse(s, 503)
    <3>1. /\ session' = [session EXCEPT ![s] = [x EXCEPT !.state = "Data"]]
          /\ x.at = "read" /\ x.state = "To" /\ Answer(s, 354) /\ accepted' = accepted
          /\ NoDelivery
      BY <1>4, <2>2 DEF Data, Commands
    <3> DEFINE y == [x EXCEPT !.state = "Data"]
    <3>2. y \in SessionType /\ y.n > 0 /\ y.at = "read"
      BY <1>0, <3>1 DEF SessionType
    <3>3. code' \in [Sessions -> Codes] BY <1>0, <3>1 DEF Answer, Codes
    <3> HIDE DEF y
    <3> QED BY <1>0, <3>1, <3>2, <3>3, DialogueType DEF y
  <2> QED BY <2>1, <2>2
<1>5. CASE Rset(s)
  <2> DEFINE y == [x EXCEPT !.state = "Init"]
  <2>1. session' = [session EXCEPT ![s] = y] /\ x.at = "read" /\ accepted' = accepted
        /\ Answer(s, 250) /\ NoDelivery
    BY <1>0, <1>5 DEF Rset, Cleared, Commands
  <2>2. y \in SessionType /\ y.at = "read" /\ y.state = "Init"
    BY <1>0, <2>1 DEF SessionType
  <2>3. code' \in [Sessions -> Codes] BY <1>0, <2>1 DEF Answer, Codes
  <2> HIDE DEF y
  <2> QED BY <1>0, <2>1, <2>2, <2>3, DialogueType
<1>6. CASE Quit(s)
  <2> DEFINE y == [x EXCEPT !.at = "closed"]
  <2>1. session' = [session EXCEPT ![s] = y] /\ accepted' = accepted
        /\ Answer(s, 221) /\ NoDelivery
    BY <1>0, <1>6 DEF Quit
  <2>2. y \in SessionType /\ y.at = "closed" /\ y.state = x.state /\ y.n = x.n
    BY <1>0, <2>1 DEF SessionType
  <2>3. code' \in [Sessions -> Codes] BY <1>0, <2>1 DEF Answer, Codes
  <2> HIDE DEF y
  <2> QED BY <1>0, <2>1, <2>2, <2>3, DialogueType
<1>7. CASE Hangup(s)
  <2> DEFINE y == [x EXCEPT !.at = "spin"]
  <2>1. session' = [session EXCEPT ![s] = y] /\ accepted' = accepted /\ code' = code
        /\ NoDelivery
    BY <1>0, <1>7 DEF Hangup
  <2>2. y \in SessionType /\ y.at = "spin" /\ y.state = x.state /\ y.n = x.n
    BY <1>0, <2>1 DEF SessionType
  <2> HIDE DEF y
  <2> QED BY <1>0, <2>1, <2>2, DialogueType
<1>8. CASE Dot(s)
  <2> DEFINE y == [x EXCEPT !.at = "ask", !.todo = x.recipients]
  <2>1. session' = [session EXCEPT ![s] = y] /\ accepted' = accepted /\ code' = code
        /\ x.state = "Data" /\ NoDelivery
    BY <1>0, <1>8 DEF Dot, Reading
  <2>2. y \in SessionType /\ y.at = "ask" /\ y.state = x.state /\ y.n = x.n
    BY <1>0, <2>1 DEF SessionType
  <2> HIDE DEF y
  <2> QED BY <1>0, <2>1, <2>2, DialogueType
<1> QED BY <1>1, <1>2, <1>3, <1>4, <1>5, <1>6, <1>7, <1>8 DEF Client

LEMMA WorkerType ==
    ASSUME TypeInv, NEW s \in Sessions, Worker(s)
    PROVE  TypeInv'
<1> DEFINE x == session[s]
<1>0. /\ x \in SessionType
      /\ x.at \in {"ask", "wait", "write"} => x.state = "Data" /\ x.n > 0
      /\ x.at \in {"wait", "write"} => x.todo # <<>>
      /\ TypeOK
      /\ session \in [Sessions -> SessionType]
  BY DEF TypeInv, TypeOK, DialogueInv, SessionType
<1>1. CASE Ask(s)
  <2> DEFINE y == [x EXCEPT !.at = "wait"]
  <2>1. /\ session' = [session EXCEPT ![s] = y] /\ x.at = "ask" /\ x.todo # <<>>
        /\ requests' = Append(requests, Head(x.todo))
        /\ UNCHANGED <<code, answers, mbox, accepted, failed, done>>
    BY <1>0, <1>1 DEF Ask
  <2>2. y \in SessionType /\ y.at = "wait" /\ y.state = "Data" /\ y.n > 0
        /\ y.todo # <<>>
    BY <1>0, <2>1 DEF SessionType
  <2>3. x.todo \in Seq(Users) BY <1>0 DEF SessionType
  <2>4. requests' \in Seq(Users) BY <1>0, <2>1, <2>3, RangeTail DEF TypeOK
  <2> HIDE DEF y
  <2> QED BY <1>0, <2>1, <2>2, <2>4, SessionStep DEF TypeOK
<1>2. CASE ReadAnswer(s)
  <2> DEFINE b == Head(answers)
             y == [x EXCEPT !.at = "write", !.backend = b]
  <2>1. /\ session' = [session EXCEPT ![s] = y] /\ x.at = "wait" /\ answers # <<>>
        /\ answers' = Tail(answers)
        /\ UNCHANGED <<code, requests, mbox, accepted, failed, done>>
    BY <1>0, <1>2 DEF ReadAnswer
  <2>2. b \in Groups \cup {"none"} /\ answers' \in Seq(Groups \cup {"none"})
    BY <1>0, <2>1, RangeTail DEF TypeOK
  <2> HIDE DEF b
  <2>3. y \in SessionType /\ y.at = "write" /\ y.state = "Data" /\ y.n > 0
        /\ y.todo # <<>>
    BY <1>0, <2>1, <2>2 DEF SessionType
  <2> HIDE DEF y
  <2> QED BY <1>0, <2>1, <2>2, <2>3, SessionStep DEF TypeOK
<1>3. CASE WriteMbox(s) \/ Skip(s)
  <2> DEFINE t == Rest(s)
             y == [x EXCEPT !.at = "ask", !.todo = t]
  <2>1. /\ session' = [session EXCEPT ![s] = y] /\ x.at \in {"ask", "write"}
        /\ x.todo # <<>>
        /\ UNCHANGED <<code, requests, answers, accepted, done>>
        /\ mbox' = mbox \/ mbox' = Written(s)
        /\ failed' = failed \/ failed' = [failed EXCEPT ![This(s)] = @ \cup {Head(x.todo)}]
    BY <1>0, <1>3 DEF WriteMbox, Skip, GoOn
  <2>2. x.todo \in Seq(Users) /\ x.todo # <<>> BY <1>0, <2>1 DEF SessionType
  <2>3. t \in Seq(Users) /\ Head(x.todo) \in Users BY <2>2, RangeTail DEF Rest
  <2> HIDE DEF t
  <2>4. y \in SessionType /\ y.at = "ask" /\ y.state = "Data" /\ y.n > 0
    BY <1>0, <2>1, <2>3 DEF SessionType
  <2>5. This(s) \in Mails BY <1>0, <2>1 DEF This, Mails, SessionType
  <2>6. mbox' \in [Users -> SUBSET Mails]
    <3>1. mbox \in [Users -> SUBSET Mails] BY <1>0 DEF TypeOK
    <3>2. Written(s) \in [Users -> SUBSET Mails]
      BY <2>3, <2>5, <3>1, OneMore DEF Written
    <3> QED BY <2>1, <3>1, <3>2
  <2>7. failed' \in [Mails -> SUBSET Users]
    <3>1. failed \in [Mails -> SUBSET Users] BY <1>0 DEF TypeOK
    <3>2. [failed EXCEPT ![This(s)] = @ \cup {Head(x.todo)}] \in [Mails -> SUBSET Users]
      BY <2>3, <2>5, <3>1, OneMore
    <3> QED BY <2>1, <3>1, <3>2
  <2> HIDE DEF y
  <2> QED BY <1>0, <2>1, <2>4, <2>6, <2>7, SessionStep DEF TypeOK
<1>4. CASE Delivered(s)
  <2> DEFINE y == [[x EXCEPT !.state = "Init"] EXCEPT !.at = "read"]
  <2>1. /\ session' = [session EXCEPT ![s] = y] /\ x.at = "ask"
        /\ done' = done \cup {This(s)} /\ Answer(s, 250)
        /\ UNCHANGED <<requests, answers, mbox, accepted, failed>>
    BY <1>0, <1>4 DEF Delivered, Cleared
  <2>2. y \in SessionType /\ y.at = "read" /\ y.state = "Init"
    BY <1>0, <2>1 DEF SessionType
  <2>3. code' \in [Sessions -> Codes] BY <1>0, <2>1 DEF Answer, Codes, TypeOK
  <2>4. This(s) \in Mails BY <1>0, <2>1 DEF This, Mails, SessionType
  <2> HIDE DEF y
  <2> QED BY <1>0, <2>1, <2>2, <2>3, <2>4, SessionStep DEF TypeOK
<1> QED BY <1>1, <1>2, <1>3, <1>4 DEF Worker

LEMMA SilentType ==
    ASSUME TypeInv, NEW s \in Sessions, Silent(s)
    PROVE  TypeInv'
<1> DEFINE y == [session[s] EXCEPT !.at = "hung"]
<1>1. /\ session' = [session EXCEPT ![s] = y] /\ session[s] \in SessionType
      /\ session[s].at = "write" /\ session[s].state = "Data" /\ session[s].n > 0
      /\ UNCHANGED <<code, requests, answers, mbox, accepted, failed, done>>
  BY DEF Silent, TypeInv, TypeOK, DialogueInv, SessionType
<1>2. y \in SessionType /\ y.at = "hung" /\ y.state = "Data" /\ y.n > 0
  BY <1>1 DEF SessionType
<1> HIDE DEF y
<1> QED BY <1>1, <1>2, SessionStep DEF TypeInv, TypeOK

LEMMA MasterType ==
    ASSUME TypeInv, MasterAnswer
    PROVE  TypeInv'
<1>1. Head(requests) \in Users /\ Tail(requests) \in Seq(Users)
  BY RangeTail DEF TypeInv, TypeOK, MasterAnswer
<1>2. PICK b \in {GroupOf[Head(requests)], "none"} : answers' = Append(answers, b)
  BY DEF MasterAnswer
<1>3. b \in Groups \cup {"none"} BY <1>1, <1>2 DEF Groups
<1>4. answers' \in Seq(Groups \cup {"none"}) /\ requests' \in Seq(Users)
  BY <1>1, <1>2, <1>3 DEF MasterAnswer, TypeInv, TypeOK
<1> QED BY <1>4 DEF MasterAnswer, TypeInv, TypeOK, DialogueInv

LEMMA TypeStep ==
    ASSUME TypeInv, [Next]_vars
    PROVE  TypeInv'
<1>1. CASE UNCHANGED vars BY <1>1 DEF vars, TypeInv, TypeOK, DialogueInv
<1> QED BY <1>1, ClientType, WorkerType, SilentType, MasterType DEF Next

(***************************************************************************)
(* The state of the SMTP server is of its type, whatever the clients do:   *)
(* no reply code is used that msg_map lacks (send_msg would end the        *)
(* server), and only a worker with a recipient left asks and writes.       *)
(***************************************************************************)
THEOREM SmtpTypeCorrect == Spec => []TypeOK
<1>1. Init => TypeInv BY TypeInit
<1>2. TypeInv /\ [Next]_vars => TypeInv' BY TypeStep
<1>3. TypeInv => TypeOK BY DEF TypeInv
<1> QED BY <1>1, <1>2, <1>3, PTL DEF Spec

------------------------------------------------------------------------------
(* Who gets a mail.                                                        *)

Delivering(s) == session[s].at \in {"ask", "wait", "write"}

\* Who was accepted on a connection so far.
Allowed(s) == UNION {accepted[<<s, k>>] : k \in 1 .. session[s].n}

\* What a session has listed and what it still has to deliver was accepted on
\* its connection.
OnlyInv ==
    /\ TypeInv
    /\ OnlyRecipients
    /\ \A s \in Sessions :
          /\ Range(session[s].recipients) \subseteq Allowed(s)
          /\ Delivering(s) => Range(session[s].todo) \subseteq Allowed(s)

\* While no session starts a second transaction after one with recipients, it
\* was accepted for the mail that the session is about.
OwnInv ==
    /\ TypeInv
    /\ OwnRecipients
    /\ \A s \in Sessions :
          /\ session[s].n > 0 => Range(session[s].recipients) \subseteq accepted[This(s)]
          /\ Delivering(s) => Range(session[s].todo) \subseteq accepted[This(s)]
          /\ session[s].n = 0 => session[s].recipients = <<>>

\* The connection to the master belongs to one worker, and what is on it is
\* that worker's question or the answer to it.
TurnInv ==
    /\ \A s, t \in Asking : s = t
    /\ Asking = {} => requests = <<>> /\ answers = <<>>
    /\ \A s \in Sessions :
          LET u == Head(session[s].todo) IN
          /\ session[s].at = "wait" =>
                \/ requests = <<u>> /\ answers = <<>>
                \/ requests = <<>> /\ \E b \in {GroupOf[u], "none"} : answers = <<b>>
          /\ session[s].at = "write" => session[s].backend \in {GroupOf[u], "none"}

\* Who is to have a mail when it is done.
Due(m) == (accepted[m] \cap Accounts) \ failed[m]

\* Whoever was accepted is listed; during the delivery, has the mail or is
\* still to be asked for.
Owed(s) ==
    /\ session[s].n > 0 => accepted[This(s)] \subseteq Range(session[s].recipients)
    /\ \A k \in 1 .. MaxMails :
          k > session[s].n => accepted[<<s, k>>] = {} /\ <<s, k>> \notin done
    /\ session[s].state # "Init" => This(s) \notin done
    /\ Delivering(s) =>
          \A u \in Due(This(s)) : This(s) \in mbox[u] \/ u \in Range(session[s].todo)

OwedInv == \A s \in Sessions : Owed(s)

AllInv == TypeInv /\ TurnInv /\ OwedInv /\ AllRecipients

\* What a step of the dialogue does to the session: nothing that matters here,
\* a new transaction, a new recipient, or the end of DATA.
Kept(s) ==
    /\ session'[s].at \in {"read", "closed", "spin"}
    /\ session'[s].n = session[s].n
    /\ session'[s].recipients = session[s].recipients
    /\ session[s].state = "Init" => session'[s].state = "Init"
    /\ accepted' = accepted

Opened(s) ==
    /\ "again" \in Hazards \/ session[s].recipients = <<>>
    /\ session'[s].at = "read"
    /\ session'[s].n = session[s].n + 1
    /\ session'[s].recipients = session[s].recipients
    /\ accepted' = accepted

Added(s, u) ==
    /\ session[s].state # "Init"
    /\ session'[s].at = "read"
    /\ session'[s].n = session[s].n
    /\ session'[s].recipients = Append(session[s].recipients, u)
    /\ accepted' = [accepted EXCEPT ![This(s)] = @ \cup {u}]

Started(s) ==
    /\ session[s].state # "Init"
    /\ session'[s].at = "ask"
    /\ session'[s].n = session[s].n
    /\ session'[s].recipients = session[s].recipients
    /\ session'[s].todo = session[s].recipients
    /\ accepted' = accepted

LEMMA ClientShape ==
    ASSUME TypeInv, NEW s \in Sessions, Client(s)
    PROVE  /\ NoDelivery
           /\ session[s].at = "read"
           /\ \A t \in Sessions \ {s} : session'[t] = session[t]
           /\ Kept(s) \/ Opened(s) \/ Started(s) \/ \E u \in Users : Added(s, u)
<1> DEFINE x == session[s]
<1>0. /\ x \in SessionType
      /\ session \in [Sessions -> SessionType]
  BY DEF TypeInv, TypeOK, SessionType
<1> DEFINE Goal == /\ NoDelivery
                   /\ session[s].at = "read"
                   /\ \A t \in Sessions \ {s} : session'[t] = session[t]
                   /\ Kept(s) \/ Opened(s) \/ Started(s) \/ \E u \in Users : Added(s, u)
<1>1. ASSUME NEW c, Refuse(s, c), x.at = "read" PROVE Goal
  BY <1>1 DEF Refuse, Kept
<1>2. CASE Noop(s) BY <1>1, <1>2 DEF Noop, Commands
<1>3. CASE MailFrom(s)
  <2>1. CASE Refuse(s, 503) \/ Refuse(s, 501) BY <1>1, <1>3, <2>1 DEF MailFrom, Commands
  <2>2. CASE ~(Refuse(s, 503) \/ Refuse(s, 501))
    <3>1. NoDelivery /\ x.at = "read" /\ accepted' = accepted
          /\ ("again" \in Hazards \/ x.recipients = <<>>)
          /\ session' = [session EXCEPT ![s].state = "From", ![s].n = @ + 1]
      BY <1>3, <2>2 DEF MailFrom, Commands
    <3>2. /\ \A t \in Sessions \ {s} : session'[t] = session[t]
          /\ session'[s].at = x.at /\ session'[s].n = x.n + 1
          /\ session'[s].recipients = x.recipients
      BY <1>0, <3>1 DEF SessionType
    <3> QED BY <3>1, <3>2 DEF Opened
  <2> QED BY <2>1, <2>2
<1>4. ASSUME NEW u \in Users, RcptTo(s, u) PROVE Goal
  <2>1. CASE Refuse(s, 503) BY <1>1, <1>4, <2>1 DEF RcptTo, Commands
  <2>2. CASE /\ x.at = "read"
             /\ session' = [session EXCEPT ![s].recipients = Pushed(s, u, FALSE)]
             /\ accepted' = accepted /\ NoDelivery
    <3>1. /\ \A t \in Sessions \ {s} : session'[t] = session[t]
          /\ session'[s].at = x.at /\ session'[s].n = x.n
          /\ session'[s].recipients = x.recipients /\ session'[s].state = x.state
      BY <1>0, <2>2 DEF SessionType, Pushed
    <3> QED BY <2>2, <3>1 DEF Kept
  <2>3. CASE /\ RcptAllowed(s) /\ x.at = "read"
             /\ session' = [session EXCEPT ![s].state = "To",
                                           ![s].recipients = Pushed(s, u, TRUE)]
             /\ accepted' = [accepted EXCEPT ![This(s)] = @ \cup {u}]
             /\ NoDelivery
    <3>1. /\ \A t \in Sessions \ {s} : session'[t] = session[t]
          /\ session'[s].at = x.at /\ session'[s].n = x.n
          /\ session'[s].recipients = Append(x.recipients, u)
      BY <1>0, <2>3 DEF SessionType, Pushed
    <3> QED BY <2>3, <3>1 DEF Added, RcptAllowed
  <2> QED BY ZenonT(60), <1>4, <2>1, <2>2, <2>3 DEF RcptTo, Commands
<1>5. CASE Data(s)
  <2>1. CASE Refuse(s, 503) BY <1>1, <1>5, <2>1 DEF Data, Commands
  <2>2. CASE /\ x.at = "read" /\ x.state = "To" /\ accepted' = accepted /\ NoDelivery
             /\ session' = [session EXCEPT ![s].state = "Data"]
    <3>1. /\ \A t \in Sessions \ {s} : session'[t] = session[t]
          /\ session'[s].at = x.at /\ session'[s].n = x.n
          /\ session'[s].recipients = x.recipients
      BY <1>0, <2>2 DEF SessionType
    <3> QED BY <2>2, <3>1 DEF Kept
  <2> QED BY <1>5, <2>1, <2>2 DEF Data, Commands
<1>6. CASE Rset(s)
  <2>1. /\ \A t \in Sessions \ {s} : session'[t] = session[t]
        /\ session'[s].at = x.at /\ session'[s].n = x.n
        /\ session'[s].recipients = x.recipients /\ session'[s].state = "Init"
    BY <1>0, <1>6 DEF SessionType, Rset, Cleared
  <2> QED BY <1>6, <2>1 DEF Kept, Rset, Commands
<1>7. CASE Quit(s) \/ Hangup(s)
  <2>1. /\ \A t \in Sessions \ {s} : session'[t] = session[t]
        /\ session'[s].at \in {"closed", "spin"} /\ session'[s].n = x.n
        /\ session'[s].recipients = x.recipients /\ session'[s].state = x.state
    BY <1>0, <1>7 DEF SessionType, Quit, Hangup
  <2> QED BY <1>7, <2>1 DEF Kept, Quit, Hangup, Commands
<1>8. CASE Dot(s)
  <2>1. /\ \A t \in Sessions \ {s} : session'[t] = session[t]
        /\ session'[s].at = "ask" /\ session'[s].n = x.n
        /\ session'[s].recipients = x.recipients /\ session'[s].todo = x.recipients
    BY <1>0, <1>8 DEF SessionType, Dot
  <2> QED BY <1>8, <2>1 DEF Started, Dot, Reading
<1> QED BY <1>2, <1>3, <1>4, <1>5, <1>6, <1>7, <1>8 DEF Client

\* The steps of a delivery leave the transaction as it is.
LEMMA WorkerShape ==
    ASSUME TypeInv, NEW s \in Sessions, Worker(s) \/ Silent(s)
    PROVE  /\ \A t \in Sessions \ {s} : session'[t] = session[t]
           /\ session'[s].n = session[s].n
           /\ session'[s].recipients = session[s].recipients
           /\ accepted' = accepted
           /\ Ask(s) => session'[s].at = "wait" /\ session'[s].todo = session[s].todo
           /\ ReadAnswer(s) =>
                 /\ session'[s].at = "write"
                 /\ session'[s].todo = session[s].todo
                 /\ session'[s].backend = Head(answers)
           /\ WriteMbox(s) \/ Skip(s) =>
                 /\ session'[s].at = "ask"
                 /\ session'[s].todo = Tail(session[s].todo)
           /\ Delivered(s) => session'[s].at = "read" /\ session'[s].state = "Init"
           /\ Silent(s) => session'[s].at = "hung"
<1>1. session \in [Sessions -> SessionType] /\ session[s] \in SessionType
  BY DEF TypeInv, TypeOK, SessionType
<1>2. CASE Ask(s)
  BY <1>1, <1>2 DEF Ask, ReadAnswer, WriteMbox, Skip, GoOn, Rest, Delivered, Silent,
                    SessionType
<1>3. CASE ReadAnswer(s)
  BY <1>1, <1>3 DEF Ask, ReadAnswer, WriteMbox, Skip, GoOn, Delivered, Silent, SessionType
<1>4. CASE WriteMbox(s) \/ Skip(s)
  <2>1. /\ session' = [session EXCEPT ![s].at = "ask", ![s].todo = Tail(session[s].todo)]
        /\ accepted' = accepted /\ session[s].at \in {"ask", "write"}
        /\ session[s].todo # <<>> \/ session[s].at = "write"
    BY <1>4 DEF WriteMbox, Skip, GoOn, Rest
  <2>2. /\ \A t \in Sessions \ {s} : session'[t] = session[t]
        /\ session'[s].n = session[s].n
        /\ session'[s].recipients = session[s].recipients
        /\ session'[s].at = "ask" /\ session'[s].todo = Tail(session[s].todo)
    BY <1>1, <2>1 DEF SessionType
  <2>3. ~Ask(s) /\ ~ReadAnswer(s) /\ ~Delivered(s) /\ ~Silent(s)
    <3>1. Ask(s) => session'[s].at = "wait" BY <1>1 DEF Ask
    <3>2. ReadAnswer(s) => session'[s].at = "write" BY <1>1 DEF ReadAnswer, SessionType
    <3>3. Delivered(s) => session'[s].at = "read"
      BY <1>1 DEF Delivered, Cleared, SessionType
    <3>4. Silent(s) => session'[s].at = "hung" BY <1>1 DEF Silent
    <3> QED BY <2>2, <3>1, <3>2, <3>3, <3>4
  <2> QED BY <2>1, <2>2, <2>3
<1>5. CASE Delivered(s)
  <2>1. /\ \A t \in Sessions \ {s} : session'[t] = session[t]
        /\ session'[s].n = session[s].n
        /\ session'[s].recipients = session[s].recipients
        /\ session'[s].at = "read" /\ session'[s].state = "Init"
    BY <1>1, <1>5 DEF Delivered, Cleared, SessionType
  <2>2. ~Ask(s) /\ ~ReadAnswer(s) /\ ~WriteMbox(s) /\ ~Skip(s) /\ ~Silent(s)
        /\ accepted' = accepted
    BY <1>5 DEF Delivered, Ask, ReadAnswer, WriteMbox, Skip, Silent
  <2> QED BY <2>1, <2>2
<1>6. CASE Silent(s)
  <2>1. /\ \A t \in Sessions \ {s} : session'[t] = session[t]
        /\ session'[s].n = session[s].n
        /\ session'[s].recipients = session[s].recipients
        /\ session'[s].at = "hung" /\ accepted' = accepted
    BY <1>1, <1>6 DEF Silent, SessionType
  <2>2. ~Ask(s) /\ ~ReadAnswer(s) /\ ~WriteMbox(s) /\ ~Skip(s) /\ ~Delivered(s)
    BY <1>1, <1>6, <2>1 DEF Silent, Ask, ReadAnswer, WriteMbox, Skip, GoOn, Delivered,
                       Cleared, SessionType
  <2> QED BY <2>1, <2>2
<1> QED BY <1>2, <1>3, <1>4, <1>5, <1>6 DEF Worker

LEMMA AboutAMail ==
    ASSUME TypeInv, NEW s \in Sessions, session[s].n > 0
    PROVE  This(s) \in Mails
BY SmtpBounds DEF TypeInv, TypeOK, This, Mails

\* Nothing is taken back from accepted.
LEMMA AcceptedGrows ==
    ASSUME TypeInv, [Next]_vars, NEW m \in Mails
    PROVE  accepted[m] \subseteq accepted'[m]
<1>1. CASE accepted' = accepted BY <1>1
<1>2. ASSUME NEW s \in Sessions, NEW u \in Users, Added(s, u)
      PROVE  accepted[m] \subseteq accepted'[m]
  <2>1. accepted' = [accepted EXCEPT ![This(s)] = @ \cup {u}] BY <1>2 DEF Added
  <2> QED BY <2>1 DEF TypeInv, TypeOK
<1>3. ASSUME NEW s \in Sessions, Client(s)
      PROVE  accepted' = accepted \/ \E u \in Users : Added(s, u)
  BY <1>3, ClientShape DEF Kept, Opened, Started
<1>4. ASSUME NEW s \in Sessions, Worker(s) \/ Silent(s) PROVE accepted' = accepted
  BY <1>4, WorkerShape
<1> QED BY <1>1, <1>2, <1>3, <1>4 DEF Next, MasterAnswer, vars

LEMMA TodoShrinks ==
    ASSUME TypeInv, NEW s \in Sessions, Worker(s) \/ Silent(s)
    PROVE  /\ Delivering(s)
           /\ Delivering(s)' => Range(session'[s].todo) \subseteq Range(session[s].todo)
<1>1. Delivering(s)
  BY DEF Worker, Ask, ReadAnswer, WriteMbox, Skip, Delivered, Silent, Delivering
<1>2. Delivering(s)' =>
        \/ session'[s].todo = session[s].todo
        \/ (WriteMbox(s) \/ Skip(s)) /\ session'[s].todo = Tail(session[s].todo)
  BY WorkerShape DEF Worker, Delivering
<1>3. WriteMbox(s) \/ Skip(s) => Range(Tail(session[s].todo)) \subseteq Range(session[s].todo)
  <2>1. WriteMbox(s) \/ Skip(s) => session[s].todo \in Seq(Users) /\ session[s].todo # <<>>
    BY DEF WriteMbox, Skip, TypeInv, TypeOK, DialogueInv
  <2> QED BY <2>1, RangeTail
<1> QED BY <1>1, <1>2, <1>3

LEMMA AllowedGrows ==
    ASSUME TypeInv, [Next]_vars, NEW s \in Sessions
    PROVE  session[s].n \in 0 .. MaxMails /\ Allowed(s) \subseteq Allowed(s)'
<1>0. session[s] \in SessionType BY DEF TypeInv, TypeOK, SessionType
<1>1. session[s].n \in 0 .. MaxMails BY <1>0 DEF SessionType
<1>2. session'[s].n \in {session[s].n, session[s].n + 1}
  <2>1. CASE session' = session BY <2>1
  <2>2. ASSUME NEW t \in Sessions, Client(t) PROVE session'[s].n \in {session[s].n, session[s].n + 1}
    <3>1. CASE t = s BY <2>2, <3>1, ClientShape DEF Kept, Opened, Added, Started
    <3>2. CASE t # s BY <2>2, <3>2, ClientShape
    <3> QED BY <3>1, <3>2
  <2>3. ASSUME NEW t \in Sessions, Worker(t) \/ Silent(t) PROVE session'[s].n = session[s].n
    <3>1. CASE t = s BY <2>3, <3>1, WorkerShape
    <3>2. CASE t # s BY <2>3, <3>2, WorkerShape
    <3> QED BY <3>1, <3>2
  <2> QED BY <2>1, <2>2, <2>3 DEF Next, MasterAnswer, vars
<1>3. ASSUME NEW u \in Allowed(s) PROVE u \in Allowed(s)'
  <2>1. PICK k \in 1 .. session[s].n : u \in accepted[<<s, k>>] BY DEF Allowed
  <2>2. k \in 1 .. session'[s].n /\ k \in 1 .. MaxMails BY <1>1, <1>2, <2>1, SmtpBounds
  <2>3. u \in accepted'[<<s, k>>] BY <2>1, <2>2, AcceptedGrows DEF Mails
  <2> QED BY <2>2, <2>3 DEF Allowed
<1> QED BY <1>1, <1>3

LEMMA OnlyInit == Init => OnlyInv
BY TypeInit, RangeEmpty DEF Init, OnlyInv, OnlyRecipients, NewSession, Delivering

\* What a step may write: the mail of a session that delivers it to the first
\* of those it still has to deliver it to.
LEMMA WriteShape ==
    ASSUME TypeInv, [Next]_vars, mbox' # mbox
    PROVE  \E s \in Sessions :
              LET u == Head(session[s].todo) IN
              /\ mbox' = [mbox EXCEPT ![u] = @ \cup {This(s)}]
              /\ u \in Users /\ u \in Range(session[s].todo)
              /\ Delivering(s) /\ session[s].n > 0 /\ accepted' = accepted
<1>1. PICK s \in Sessions : WriteMbox(s) \/ Skip(s)
  BY ClientShape DEF Next, Worker, NoDelivery, Ask, ReadAnswer, Delivered, Silent,
                     MasterAnswer, vars
<1>2. mbox' = Written(s) /\ session[s].at = "write" /\ accepted' = accepted
  BY <1>1 DEF WriteMbox, Skip
<1>3. session[s].todo \in Seq(Users) /\ session[s].todo # <<>> /\ session[s].n > 0
      /\ Delivering(s)
  BY <1>2 DEF TypeInv, TypeOK, DialogueInv, Delivering
<1>4. Head(session[s].todo) \in Users /\ Head(session[s].todo) \in Range(session[s].todo)
  BY <1>3, RangeTail
<1> QED BY <1>2, <1>3, <1>4 DEF Written

LEMMA OnlyWrites ==
    ASSUME OnlyInv, [Next]_vars
    PROVE  OnlyRecipients'
<1>0. TypeInv /\ OnlyRecipients BY DEF OnlyInv
<1>1. ASSUME NEW u \in Users, NEW m \in mbox[u]
      PROVE  \E k \in 1 .. m[2] : u \in accepted'[<<m[1], k>>]
  <2>1. m \in Mails BY <1>0 DEF TypeInv, TypeOK
  <2>2. PICK k \in 1 .. m[2] : u \in accepted[<<m[1], k>>] BY <1>0 DEF OnlyRecipients
  <2>3. <<m[1], k>> \in Mails BY <2>1, <2>2, SmtpBounds DEF Mails
  <2>4. u \in accepted'[<<m[1], k>>] BY <1>0, <2>2, <2>3, AcceptedGrows
  <2> QED BY <2>4
<1>2. CASE mbox' = mbox BY <1>1, <1>2 DEF OnlyRecipients
<1>3. CASE mbox' # mbox
  <2>1. PICK s \in Sessions :
            LET u == Head(session[s].todo) IN
            /\ mbox' = [mbox EXCEPT ![u] = @ \cup {This(s)}]
            /\ u \in Users /\ u \in Range(session[s].todo)
            /\ Delivering(s) /\ session[s].n > 0 /\ accepted' = accepted
    BY <1>0, <1>3, WriteShape
  <2> DEFINE v == Head(session[s].todo)
  <2>2. v \in Allowed(s) BY <2>1 DEF OnlyInv
  <2>3. PICK k \in 1 .. session[s].n : v \in accepted[<<s, k>>] BY <2>2 DEF Allowed
  <2>4. This(s)[1] = s /\ This(s)[2] = session[s].n BY DEF This
  <2>5. mbox \in [Users -> SUBSET Mails] BY <1>0 DEF TypeInv, TypeOK
  <2>6. ASSUME NEW u \in Users, NEW m \in mbox'[u], m \notin mbox[u]
        PROVE  \E j \in 1 .. m[2] : u \in accepted'[<<m[1], j>>]
    <3>1. u = v /\ m = This(s) BY <2>1, <2>5, <2>6
    <3> QED BY <2>1, <2>3, <2>4, <3>1
  <2> QED BY <1>1, <2>6 DEF OnlyRecipients
<1> QED BY <1>2, <1>3

LEMMA OnlyStep ==
    ASSUME OnlyInv, [Next]_vars
    PROVE  OnlyInv'
<1>0. TypeInv /\ TypeInv' BY TypeStep DEF OnlyInv
<1> DEFINE Part(s) ==
              /\ Range(session[s].recipients) \subseteq Allowed(s)
              /\ Delivering(s) => Range(session[s].todo) \subseteq Allowed(s)
<1>1. ASSUME NEW s \in Sessions PROVE Part(s) /\ Allowed(s) \subseteq Allowed(s)'
  BY <1>0, AllowedGrows DEF OnlyInv
<1>2. ASSUME NEW s \in Sessions, session'[s] = session[s] PROVE Part(s)'
  <2>1. Delivering(s)' = Delivering(s) BY <1>2 DEF Delivering
  <2> QED BY <1>1, <1>2, <2>1
<1>3. ASSUME NEW s \in Sessions, Client(s) PROVE Part(s)'
  <2>0. session[s] \in SessionType BY <1>0 DEF TypeInv, TypeOK, SessionType
  <2>1. CASE Kept(s) \/ Opened(s)
    <3>1. session'[s].recipients = session[s].recipients /\ ~Delivering(s)'
      BY <2>1 DEF Kept, Opened, Delivering
    <3> QED BY <1>1, <3>1
  <2>3. CASE Started(s) BY <1>1, <2>3 DEF Started
  <2>4. ASSUME NEW u \in Users, Added(s, u) PROVE Part(s)'
    <3>1. This(s)' = This(s) /\ session[s].n > 0 /\ ~Delivering(s)'
      BY <1>0, <2>4 DEF Added, This, TypeInv, DialogueInv, Delivering
    <3>2. u \in accepted'[This(s)]
      BY <1>0, <2>4, <3>1, AboutAMail DEF Added, TypeInv, TypeOK
    <3>3. session'[s].n = session[s].n
          /\ session'[s].recipients = Append(session[s].recipients, u)
      BY <2>4 DEF Added
    <3>4. Range(session'[s].recipients) = Range(session[s].recipients) \cup {u}
      BY <2>0, <3>3, RangeAppend DEF SessionType
    <3>5. session'[s].n \in 1 .. session'[s].n
      BY <2>0, <3>1, <3>3, SmtpBounds DEF SessionType
    <3>6. u \in Allowed(s)' BY <3>2, <3>3, <3>5 DEF Allowed, This
    <3> QED BY <1>1, <3>1, <3>4, <3>6
  <2> QED BY <1>0, <1>3, <2>1, <2>3, <2>4, ClientShape
<1>4. ASSUME NEW s \in Sessions, Worker(s) \/ Silent(s) PROVE Part(s)'
  <2>1. session'[s].recipients = session[s].recipients BY <1>0, <1>4, WorkerShape
  <2>2. Delivering(s)' => Range(session'[s].todo) \subseteq Range(session[s].todo) /\ Delivering(s)
    BY <1>0, <1>4, TodoShrinks
  <2> QED BY <1>1, <2>1, <2>2
<1>5. ASSUME NEW s \in Sessions, NEW t \in Sessions, Client(s) \/ Worker(s) \/ Silent(s)
      PROVE  Part(t)'
  <2>1. t = s \/ session'[t] = session[t] BY <1>0, <1>5, ClientShape, WorkerShape
  <2> HIDE DEF Part
  <2> QED BY <1>2, <1>3, <1>4, <1>5, <2>1
<1>6. ASSUME MasterAnswer \/ UNCHANGED vars, NEW t \in Sessions PROVE Part(t)'
  BY <1>2, <1>6 DEF MasterAnswer, vars
<1>7. \A t \in Sessions : Part(t)'
  <2> HIDE DEF Part
  <2> QED BY <1>5, <1>6 DEF Next
<1> QED BY <1>0, <1>7, OnlyWrites DEF OnlyInv

(***************************************************************************)
(* What one client asks for stays on its connection: whatever fails,       *)
(* hangs, is aborted or is answered in another order, a mail reaches only  *)
(* users whose RCPT was answered with 250 on the same connection before.   *)
(***************************************************************************)
THEOREM OnlyToRecipients == Spec => []OnlyRecipients
<1>1. Init => OnlyInv BY OnlyInit
<1>2. OnlyInv /\ [Next]_vars => OnlyInv' BY OnlyStep
<1>3. OnlyInv => OnlyRecipients BY DEF OnlyInv
<1> QED BY <1>1, <1>2, <1>3, PTL DEF Spec

LEMMA OwnInit == Init => OwnInv
BY TypeInit, RangeEmpty DEF Init, OwnInv, OwnRecipients, NewSession, Delivering

LEMMA OwnWrites ==
    ASSUME OwnInv, [Next]_vars
    PROVE  OwnRecipients'
<1>0. TypeInv /\ OwnRecipients BY DEF OwnInv
<1>1. ASSUME NEW u \in Users, NEW m \in mbox[u] PROVE u \in accepted'[m]
  <2>1. m \in Mails BY <1>0 DEF TypeInv, TypeOK
  <2> QED BY <1>0, <2>1, AcceptedGrows DEF OwnRecipients
<1>2. CASE mbox' = mbox BY <1>1, <1>2 DEF OwnRecipients
<1>3. CASE mbox' # mbox
  <2>1. PICK s \in Sessions :
            LET u == Head(session[s].todo) IN
            /\ mbox' = [mbox EXCEPT ![u] = @ \cup {This(s)}]
            /\ u \in Users /\ u \in Range(session[s].todo)
            /\ Delivering(s) /\ session[s].n > 0 /\ accepted' = accepted
    BY <1>0, <1>3, WriteShape
  <2> DEFINE v == Head(session[s].todo)
  <2>2. v \in accepted'[This(s)] BY <2>1 DEF OwnInv
  <2>3. mbox \in [Users -> SUBSET Mails] BY <1>0 DEF TypeInv, TypeOK
  <2>4. ASSUME NEW u \in Users, NEW m \in mbox'[u], m \notin mbox[u]
        PROVE  u = v /\ m = This(s)
    BY <2>1, <2>3, <2>4
  <2> HIDE DEF v
  <2> QED BY <1>1, <2>2, <2>4 DEF OwnRecipients
<1> QED BY <1>2, <1>3

LEMMA OwnStep ==
    ASSUME OwnInv, [Next]_vars, "again" \notin Hazards
    PROVE  OwnInv'
<1>0. TypeInv /\ TypeInv' BY TypeStep DEF OwnInv
<1> DEFINE Part(s) ==
              /\ session[s].n > 0 => Range(session[s].recipients) \subseteq accepted[This(s)]
              /\ Delivering(s) => Range(session[s].todo) \subseteq accepted[This(s)]
              /\ session[s].n = 0 => session[s].recipients = <<>>
<1>1. ASSUME NEW s \in Sessions PROVE Part(s) BY DEF OwnInv
<1>2. ASSUME NEW s \in Sessions, session'[s] = session[s] PROVE Part(s)'
  <2>1. This(s)' = This(s) /\ Delivering(s)' = Delivering(s)
    BY <1>2 DEF This, Delivering
  <2>2. Delivering(s) => session[s].n > 0
    BY <1>0 DEF TypeInv, DialogueInv, Delivering
  <2>3. session[s].n > 0 => accepted[This(s)] \subseteq accepted'[This(s)]
    BY <1>0, AboutAMail, AcceptedGrows
  <2> QED BY <1>1, <1>2, <2>1, <2>2, <2>3
<1>3. ASSUME NEW s \in Sessions, Client(s) PROVE Part(s)'
  <2>0. session[s] \in SessionType BY <1>0 DEF TypeInv, TypeOK, SessionType
  <2>1. CASE Kept(s)
    <3>1. This(s)' = This(s) /\ ~Delivering(s)' BY <2>1 DEF Kept, This, Delivering
    <3> QED BY <1>1, <2>1, <3>1 DEF Kept
  <2>2. CASE Opened(s)
    <3>1. ~Delivering(s)' /\ session'[s].n > 0 /\ session'[s].recipients = <<>>
      BY <2>0, <2>2 DEF Opened, Delivering, SessionType
    <3> QED BY <3>1, RangeEmpty, <2>0, <2>2 DEF Opened, SessionType
  <2>3. CASE Started(s)
    <3>1. This(s)' = This(s) /\ session[s].n > 0
      BY <1>0, <2>3 DEF Started, This, TypeInv, DialogueInv
    <3> QED BY <1>1, <2>3, <3>1 DEF Started
  <2>4. ASSUME NEW u \in Users, Added(s, u) PROVE Part(s)'
    <3>1. This(s)' = This(s) /\ session[s].n > 0 /\ ~Delivering(s)'
      BY <1>0, <2>4 DEF Added, This, TypeInv, DialogueInv, Delivering
    <3>2. accepted'[This(s)] = accepted[This(s)] \cup {u}
      BY <1>0, <2>4, <3>1, AboutAMail DEF Added, TypeInv, TypeOK
    <3>3. session'[s].n = session[s].n
          /\ session'[s].recipients = Append(session[s].recipients, u)
      BY <2>4 DEF Added
    <3>4. Range(session'[s].recipients) = Range(session[s].recipients) \cup {u}
      BY <2>0, <3>3, RangeAppend DEF SessionType
    <3>5. session[s].n \in Nat BY <2>0, SmtpBounds DEF SessionType
    <3> QED BY <1>1, <3>1, <3>2, <3>3, <3>4, <3>5
  <2> QED BY <1>0, <1>3, <2>1, <2>2, <2>3, <2>4, ClientShape
<1>4. ASSUME NEW s \in Sessions, Worker(s) \/ Silent(s) PROVE Part(s)'
  <2>1. This(s)' = This(s) /\ accepted' = accepted /\ session'[s].n = session[s].n
        /\ session'[s].recipients = session[s].recipients
    BY <1>0, <1>4, WorkerShape DEF This
  <2>2. Delivering(s)' => Range(session'[s].todo) \subseteq Range(session[s].todo) /\ Delivering(s)
    BY <1>0, <1>4, TodoShrinks
  <2> QED BY <1>1, <2>1, <2>2
<1>5. ASSUME NEW s \in Sessions, NEW t \in Sessions, Client(s) \/ Worker(s) \/ Silent(s)
      PROVE  Part(t)'
  <2>1. t = s \/ session'[t] = session[t] BY <1>0, <1>5, ClientShape, WorkerShape
  <2> HIDE DEF Part
  <2> QED BY <1>2, <1>3, <1>4, <1>5, <2>1
<1>6. ASSUME MasterAnswer \/ UNCHANGED vars, NEW t \in Sessions PROVE Part(t)'
  BY <1>2, <1>6 DEF MasterAnswer, vars
<1>7. \A t \in Sessions : Part(t)'
  <2> HIDE DEF Part
  <2> QED BY <1>5, <1>6 DEF Next
<1> QED BY <1>0, <1>7, OwnWrites DEF OwnInv

(***************************************************************************)
(* A mail goes to the recipients of its own transaction only.  The code    *)
(* keeps mail.recipients over RSET and over the end of DATA (Mail::clear), *)
(* so this takes clients that begin no second transaction on a connection  *)
(* that had recipients.                                                    *)
(***************************************************************************)
THEOREM OnlyToOwnRecipients ==
    ASSUME "again" \notin Hazards
    PROVE  Spec => []OwnRecipients
<1>1. Init => OwnInv BY OwnInit
<1>2. OwnInv /\ [Next]_vars => OwnInv' BY OwnStep
<1>3. OwnInv => OwnRecipients BY DEF OwnInv
<1> QED BY <1>1, <1>2, <1>3, PTL DEF Spec

LEMMA AllInit == Init => AllInv
<1> SUFFICES ASSUME Init PROVE AllInv
  OBVIOUS
<1>1. TypeInv BY TypeInit
<1>2. Asking = {} /\ TurnInv BY DEF Init, NewSession, Asking, TurnInv
<1>3. OwedInv
  BY SmtpBounds DEF Init, NewSession, OwedInv, Owed, Delivering, Mails
<1>4. AllRecipients BY DEF Init, AllRecipients
<1> QED BY <1>1, <1>2, <1>3, <1>4 DEF AllInv

LEMMA TurnStep ==
    ASSUME TypeInv, TurnInv, [Next]_vars, "overlap" \notin Hazards
    PROVE  TurnInv'
<1> DEFINE Right(s) ==
              LET u == Head(session[s].todo) IN
              /\ session[s].at = "wait" =>
                    \/ requests = <<u>> /\ answers = <<>>
                    \/ requests = <<>> /\ \E b \in {GroupOf[u], "none"} : answers = <<b>>
              /\ session[s].at = "write" => session[s].backend \in {GroupOf[u], "none"}
<1>0. /\ \A s, t \in Asking : s = t
      /\ Asking = {} => requests = <<>> /\ answers = <<>>
      /\ \A s \in Sessions : Right(s)
  BY DEF TurnInv
\* A step that leaves the connection alone.
<1>1. ASSUME requests' = requests, answers' = answers, Asking' = Asking,
             \A t \in Sessions : session'[t] = session[t] \/ session'[t].at \notin {"wait", "write"}
      PROVE  TurnInv'
  <2>1. \A s \in Sessions : Right(s)' BY <1>0, <1>1
  <2> QED BY <1>0, <1>1, <2>1 DEF TurnInv
<1>2. ASSUME NEW s \in Sessions, Client(s) PROVE TurnInv'
  <2>1. session[s].at = "read" /\ requests' = requests /\ answers' = answers
        /\ \A t \in Sessions \ {s} : session'[t] = session[t]
    BY <1>2, ClientShape DEF NoDelivery
  <2>2. session'[s].at \notin {"wait", "write"}
    BY <1>2, ClientShape DEF Kept, Opened, Added, Started
  <2> QED BY <1>1, <2>1, <2>2 DEF Asking
<1>3. ASSUME NEW s \in Sessions, Ask(s) PROVE TurnInv'
  <2>1. /\ Asking = {} /\ requests' = Append(requests, Head(session[s].todo))
        /\ answers' = answers
    BY <1>3 DEF Ask
  <2>2. \A t \in Sessions \ {s} : session'[t] = session[t]
    BY <1>3, WorkerShape DEF Worker
  <2>3. session'[s].at = "wait" /\ session'[s].todo = session[s].todo
    BY <1>3, WorkerShape DEF Worker
  <2>4. Asking' = {s} BY <2>1, <2>2, <2>3 DEF Asking
  <2>5. requests' = <<Head(session[s].todo)>> /\ answers' = <<>> BY <1>0, <2>1
  <2>6. ASSUME NEW t \in Sessions PROVE Right(t)'
    <3>1. CASE t = s BY <2>3, <2>5, <3>1
    <3>2. CASE t # s
      <4>1. session'[t] = session[t] /\ session[t].at # "wait"
        BY <2>1, <2>2, <3>2 DEF Asking
      <4> QED BY <1>0, <4>1
    <3> QED BY <3>1, <3>2
  <2> QED BY <2>4, <2>6 DEF TurnInv
<1>4. ASSUME MasterAnswer PROVE TurnInv'
  <2>1. requests # <<>> /\ session' = session /\ requests' = Tail(requests)
        /\ Asking' = Asking
    BY <1>4 DEF MasterAnswer, Asking
  <2>2. PICK s \in Asking : Right(s) BY <1>0, <2>1 DEF Asking
  <2> DEFINE u == Head(session[s].todo)
  <2>3. session[s].at = "wait" /\ requests = <<u>> /\ answers = <<>>
    BY <2>1, <2>2 DEF Asking
  <2>4. PICK b \in {GroupOf[u], "none"} : answers' = Append(answers, b)
    BY <1>4, <2>3 DEF MasterAnswer
  <2>5. requests' = <<>> /\ answers' = <<b>> BY <2>1, <2>3, <2>4
  <2>6. ASSUME NEW t \in Sessions PROVE Right(t)'
    <3>1. CASE t = s BY <2>1, <2>3, <2>4, <2>5, <3>1
    <3>2. CASE t # s
      <4>1. session'[t] = session[t] /\ session[t].at # "wait"
        BY <1>0, <2>1, <2>2, <3>2 DEF Asking
      <4> QED BY <1>0, <4>1
    <3> QED BY <3>1, <3>2
  <2> QED BY <1>0, <2>1, <2>2, <2>6 DEF TurnInv
<1>5. ASSUME NEW s \in Sessions, ReadAnswer(s) PROVE TurnInv'
  <2> DEFINE u == Head(session[s].todo)
  <2>1. session[s].at = "wait" /\ answers # <<>> /\ answers' = Tail(answers)
        /\ requests' = requests
    BY <1>5 DEF ReadAnswer
  <2>2. PICK b \in {GroupOf[u], "none"} : requests = <<>> /\ answers = <<b>> BY <1>0, <2>1
  <2>3. \A t \in Sessions \ {s} : session'[t] = session[t]
    BY <1>5, WorkerShape DEF Worker
  <2>4. session'[s].at = "write" /\ session'[s].todo = session[s].todo
        /\ session'[s].backend = Head(answers)
    BY <1>5, WorkerShape DEF Worker
  <2>5. requests' = <<>> /\ answers' = <<>> /\ Head(answers) = b BY <2>1, <2>2
  <2>6. \A t \in Sessions \ {s} : session[t].at # "wait" BY <1>0, <2>1 DEF Asking
  <2>7. Asking' = {} BY <2>3, <2>4, <2>6 DEF Asking
  <2>8. ASSUME NEW t \in Sessions PROVE Right(t)'
    <3>1. CASE t = s BY <2>2, <2>4, <2>5, <3>1
    <3>2. CASE t # s BY <1>0, <2>3, <2>6, <3>2
    <3> QED BY <3>1, <3>2
  <2> QED BY <2>5, <2>7, <2>8 DEF TurnInv
<1>6. ASSUME NEW s \in Sessions, WriteMbox(s) \/ Skip(s) \/ Delivered(s) \/ Silent(s)
      PROVE TurnInv'
  <2>1. session[s].at # "wait" /\ UNCHANGED <<requests, answers>>
    BY <1>6 DEF WriteMbox, Skip, Delivered, Silent
  <2>2. session'[s].at \notin {"wait", "write"}
        /\ \A t \in Sessions \ {s} : session'[t] = session[t]
    BY <1>6, WorkerShape DEF Worker
  <2>3. Asking' = Asking BY <2>1, <2>2 DEF Asking
  <2> QED BY <1>1, <2>1, <2>2, <2>3
<1>8. CASE UNCHANGED vars BY <1>1, <1>8 DEF vars, Asking
<1> QED BY <1>2, <1>3, <1>4, <1>5, <1>6, <1>8 DEF Next, Worker

\* A step that does not concern session t leaves what it owes as it is.
LEMMA OwedByOthers ==
    ASSUME TypeInv, NEW t \in Sessions, Owed(t), session'[t] = session[t],
           \A k \in 1 .. MaxMails :
               /\ accepted'[<<t, k>>] = accepted[<<t, k>>]
               /\ failed'[<<t, k>>] = failed[<<t, k>>]
               /\ <<t, k>> \in done' <=> <<t, k>> \in done,
           \A u \in Users : mbox[u] \subseteq mbox'[u]
    PROVE  Owed(t)'
<1>1. This(t)' = This(t) /\ Delivering(t)' = Delivering(t) BY DEF This, Delivering
<1>2. session[t].n > 0 =>
          /\ accepted'[This(t)] = accepted[This(t)]
          /\ Due(This(t))' = Due(This(t))
          /\ This(t) \in done' <=> This(t) \in done
          /\ accepted[This(t)] \subseteq Users
  BY <1>1, SmtpBounds DEF TypeInv, TypeOK, This, Mails, Due
<1>3. /\ session[t].state # "Init" => session[t].n > 0
      /\ Delivering(t) => session[t].n > 0
  BY DEF TypeInv, DialogueInv, Delivering
<1>4. (session[t].n > 0 => accepted[This(t)] \subseteq Range(session[t].recipients))'
  BY <1>1, <1>2 DEF Owed
<1>5. (\A k \in 1 .. MaxMails :
          k > session[t].n => accepted[<<t, k>>] = {} /\ <<t, k>> \notin done)'
  BY DEF Owed
<1>6. (session[t].state # "Init" => This(t) \notin done)' BY <1>1, <1>2, <1>3 DEF Owed
<1>7. (Delivering(t) => \A u \in Due(This(t)) :
                           This(t) \in mbox[u] \/ u \in Range(session[t].todo))'
  <2>1. session[t].n > 0 => Due(This(t)) \subseteq Users BY <1>2 DEF Due
  <2> QED BY <1>1, <1>2, <1>3, <2>1 DEF Owed
<1> QED BY <1>4, <1>5, <1>6, <1>7 DEF Owed

LEMMA OwedByClient ==
    ASSUME TypeInv, TypeInv', NEW s \in Sessions, Owed(s), Client(s)
    PROVE  /\ Owed(s)'
           /\ \A m \in Mails : (m = This(s) /\ m \notin done) \/ accepted'[m] = accepted[m]
<1> DEFINE New == \A m \in Mails : (m = This(s) /\ m \notin done) \/ accepted'[m] = accepted[m]
<1>0. /\ session[s] \in SessionType /\ session'[s] \in SessionType
      /\ accepted \in [Mails -> SUBSET Users]
      /\ session[s].state # "Init" => session[s].n > 0
  BY DEF TypeInv, TypeOK, DialogueInv, SessionType
<1>n. session[s].n \in 0 .. MaxMails /\ session'[s].n \in 0 .. MaxMails
      /\ session[s].recipients \in Seq(Users)
  BY <1>0 DEF SessionType
<1>1. mbox' = mbox /\ done' = done /\ failed' = failed BY ClientShape DEF NoDelivery
<1>2. CASE Kept(s)
  <2>1. This(s)' = This(s) /\ ~Delivering(s)' BY <1>2 DEF Kept, This, Delivering
  <2> QED BY <1>1, <1>2, <2>1 DEF Kept, Owed
<1>3. CASE Opened(s)
  <2> DEFINE k == session[s].n + 1
  <2>1. session'[s].n = k /\ accepted' = accepted /\ ~Delivering(s)'
    BY <1>3 DEF Opened, Delivering
  <2>2. k \in 1 .. MaxMails /\ k > session[s].n BY <1>n, <2>1, SmtpBounds
  <2>3. accepted[<<s, k>>] = {} /\ <<s, k>> \notin done BY <2>2 DEF Owed
  <2>4. This(s)' = <<s, k>> BY <2>1 DEF This
  <2>5. \A j \in 1 .. MaxMails : j > k => j > session[s].n BY <1>n, SmtpBounds
  <2> HIDE DEF k
  <2> QED BY <1>1, <2>1, <2>3, <2>4, <2>5 DEF Owed
<1>4. CASE Started(s)
  <2>1. This(s)' = This(s) /\ session[s].n > 0 /\ This(s) \notin done
    BY <1>0, <1>4 DEF Started, This, Owed
  <2> QED BY <1>1, <1>4, <2>1 DEF Started, Owed, Due
<1>5. ASSUME NEW u \in Users, Added(s, u) PROVE Owed(s)' /\ New
  <2>1. This(s)' = This(s) /\ session[s].n > 0 /\ ~Delivering(s)' /\ This(s) \notin done
        /\ session'[s].n = session[s].n
    BY <1>0, <1>5 DEF Added, This, Owed, Delivering
  <2>2. This(s) \in Mails BY <2>1, AboutAMail
  <2>3. accepted' = [accepted EXCEPT ![This(s)] = @ \cup {u}] BY <1>5 DEF Added
  <2>4. accepted'[This(s)] = accepted[This(s)] \cup {u} /\ New BY <1>0, <2>1, <2>2, <2>3
  <2>5. Range(session'[s].recipients) = Range(session[s].recipients) \cup {u}
    BY <1>n, <1>5, RangeAppend DEF Added
  <2>6. \A k \in 1 .. MaxMails : k > session[s].n =>
            <<s, k>> \in Mails /\ <<s, k>> # This(s)
    BY <1>n, SmtpBounds DEF Mails, This
  <2>7. \A k \in 1 .. MaxMails : k > session[s].n => accepted'[<<s, k>>] = {}
    BY <2>4, <2>6 DEF Owed
  <2> QED BY <1>1, <2>1, <2>4, <2>5, <2>7 DEF Owed
<1>6. (Kept(s) \/ Opened(s) \/ Started(s)) => accepted' = accepted
  BY DEF Kept, Opened, Started
<1> QED BY <1>2, <1>3, <1>4, <1>5, <1>6, ClientShape

LEMMA OwedByWorker ==
    ASSUME TypeInv, TurnInv, NEW s \in Sessions, Owed(s), Worker(s) \/ Silent(s), AllRecipients
    PROVE  /\ Owed(s)' /\ AllRecipients'
           /\ \A u \in Users : mbox[u] \subseteq mbox'[u]
           /\ \A m \in Mails : m = This(s) \/ failed'[m] = failed[m]
<1>0. /\ session[s].state # "Init" /\ session[s].n > 0 /\ Delivering(s)
      /\ session[s].n \in 0 .. MaxMails /\ session[s].todo \in Seq(Users)
      /\ mbox \in [Users -> SUBSET Mails] /\ accepted \in [Mails -> SUBSET Users]
      /\ failed \in [Mails -> SUBSET Users]
      /\ session[s].at \in {"wait", "write"} => session[s].todo # <<>>
      /\ done \subseteq Mails
  BY DEF TypeInv, TypeOK, DialogueInv, Worker, Ask, ReadAnswer, WriteMbox, Skip, Delivered,
         Silent, Delivering
<1>1. This(s) \in Mails /\ This(s) \notin done BY <1>0, AboutAMail DEF Owed
<1>2. This(s)' = This(s) /\ session'[s].n = session[s].n /\ accepted' = accepted
      /\ session'[s].recipients = session[s].recipients
  BY WorkerShape DEF This
<1>u. /\ Due(This(s)) \subseteq Users /\ Due(This(s)) \subseteq Accounts
      /\ \A m \in done : Due(m) \subseteq Users
  BY <1>0, <1>1 DEF Due
<1>3. CASE Ask(s) \/ ReadAnswer(s)
  <2>1. session'[s].todo = session[s].todo BY <1>3, WorkerShape
  <2>2. mbox' = mbox /\ done' = done /\ failed' = failed BY <1>3 DEF Ask, ReadAnswer
  <2>3. Owed(s)' BY <1>0, <1>1, <1>2, <2>1, <2>2 DEF Owed, Due
  <2>4. AllRecipients' BY <1>2, <2>2 DEF AllRecipients
  <2> QED BY <2>2, <2>3, <2>4
<1>4. CASE WriteMbox(s) \/ Skip(s)
  <2> DEFINE u == Head(session[s].todo)
  <2>1. /\ session[s].todo # <<>> /\ done' = done
        /\ mbox' = mbox \/ mbox' = [mbox EXCEPT ![u] = @ \cup {This(s)}]
        /\ failed' = failed \/ failed' = [failed EXCEPT ![This(s)] = @ \cup {u}]
    BY <1>0, <1>4 DEF WriteMbox, Skip, Written
  <2>2. u \in Users /\ Range(session[s].todo) = {u} \cup Range(Tail(session[s].todo))
    BY <1>0, <2>1, RangeTail
  <2>3. session'[s].todo = Tail(session[s].todo) /\ session'[s].state # "Init"
    <3>1. session'[s].state = session[s].state
      BY <1>4 DEF WriteMbox, Skip, GoOn, TypeInv, TypeOK
    <3> QED BY <1>0, <1>4, <3>1, WorkerShape
  <2>4. \A v \in Users : mbox[v] \subseteq mbox'[v]
    <3> HIDE DEF u
    <3> QED BY <1>0, <2>1, <2>2
  <2>5. \A m \in Mails : m = This(s) \/ failed'[m] = failed[m]
    <3> HIDE DEF u
    <3> QED BY <1>0, <2>1
  <2>6. Due(This(s))' \subseteq Due(This(s)) \ (IF Skip(s) THEN {u} ELSE {})
    <3>1. failed[This(s)] \subseteq failed'[This(s)] BY <1>0, <1>1, <2>1
    <3>2. Skip(s) => u \in failed'[This(s)] BY <1>0, <1>1 DEF Skip
    <3> QED BY <1>2, <3>1, <3>2 DEF Due
  <2>7. u \in Due(This(s)) => Skip(s) \/ This(s) \in mbox'[u]
    <3>1. SUFFICES ASSUME WriteMbox(s), u \in Accounts PROVE This(s) \in mbox'[u]
      BY <1>4, <1>u
    <3>2. session[s].at = "write" /\ session[s].backend # "none" BY <3>1 DEF WriteMbox
    <3>3. session[s].backend = GroupOf[u] BY <3>2 DEF TurnInv
    <3>4. mbox' = [mbox EXCEPT ![u] = @ \cup {This(s)}]
      BY <3>1, <3>3 DEF WriteMbox, Known, Written
    <3> HIDE DEF u
    <3> QED BY <1>0, <2>2, <3>4
  <2> HIDE DEF u
  <2>8. \A v \in Due(This(s))' : This(s) \in mbox'[v] \/ v \in Range(session'[s].todo)
    BY <1>0, <1>u, <2>2, <2>3, <2>4, <2>6, <2>7 DEF Owed
  <2>9. Owed(s)' BY <1>0, <1>1, <1>2, <2>1, <2>3, <2>8 DEF Owed
  <2>10. AllRecipients'
    <3>1. \A m \in done : Due(m)' = Due(m) BY <1>0, <1>1, <1>2, <2>5 DEF Due
    <3>2. \A m \in done : \A v \in Due(m) : m \in mbox[v] BY DEF AllRecipients, Due
    <3>3. \A m \in done' : \A v \in Due(m)' : m \in mbox'[v]
      BY <1>u, <2>1, <2>4, <3>1, <3>2
    <3> QED BY <3>3 DEF AllRecipients, Due
  <2> QED BY <2>4, <2>5, <2>9, <2>10
<1>5. CASE Delivered(s)
  <2>1. session[s].todo = <<>> /\ mbox' = mbox /\ done' = done \cup {This(s)}
        /\ failed' = failed
    BY <1>5 DEF Delivered
  <2>2. session'[s].at = "read" /\ session'[s].state = "Init" BY <1>5, WorkerShape
  <2>3. \A u \in Due(This(s)) : This(s) \in mbox[u]
    BY <1>0, <2>1, RangeEmpty DEF Owed
  <2>4. AllRecipients' BY <1>2, <2>1, <2>3 DEF AllRecipients, Due
  <2>5. \A k \in 1 .. MaxMails : k > session[s].n => <<s, k>> # This(s)
    BY <1>0, SmtpBounds DEF This
  <2>6. Owed(s)' BY <1>2, <2>1, <2>2, <2>5 DEF Owed, Delivering
  <2> QED BY <2>1, <2>4, <2>6
<1>6. CASE Silent(s)
  <2>1. mbox' = mbox /\ done' = done /\ failed' = failed BY <1>6 DEF Silent
  <2>2. ~Delivering(s)' BY <1>6, WorkerShape DEF Delivering
  <2>3. Owed(s)' BY <1>1, <1>2, <2>1, <2>2 DEF Owed
  <2>4. AllRecipients' BY <1>2, <2>1 DEF AllRecipients
  <2> QED BY <2>1, <2>3, <2>4
<1> QED BY <1>3, <1>4, <1>5, <1>6 DEF Worker

LEMMA AllStep ==
    ASSUME AllInv, [Next]_vars, "overlap" \notin Hazards
    PROVE  AllInv'
<1>0. TypeInv /\ TypeInv' /\ TurnInv /\ TurnInv' /\ AllRecipients
      /\ \A s \in Sessions : Owed(s)
  BY TypeStep, TurnStep DEF AllInv, OwedInv
<1>1. ASSUME NEW s \in Sessions, Client(s)
      PROVE  AllRecipients' /\ \A t \in Sessions : Owed(t)'
  <2>1. /\ mbox' = mbox /\ done' = done /\ failed' = failed
        /\ \A t \in Sessions \ {s} : session'[t] = session[t]
    BY <1>0, <1>1, ClientShape DEF NoDelivery
  <2>2. Owed(s)' /\ \A m \in Mails : (m = This(s) /\ m \notin done) \/ accepted'[m] = accepted[m]
    BY <1>0, <1>1, OwedByClient
  <2>3. AllRecipients'
    <3>1. done \subseteq Mails BY <1>0 DEF TypeInv, TypeOK
    <3> QED BY <1>0, <2>1, <2>2, <3>1 DEF AllRecipients
  <2>4. ASSUME NEW t \in Sessions, t # s PROVE Owed(t)'
    <3>1. \A k \in 1 .. MaxMails : <<t, k>> \in Mails /\ <<t, k>> # This(s)
      BY <2>4 DEF Mails, This
    <3>2. \A k \in 1 .. MaxMails : accepted'[<<t, k>>] = accepted[<<t, k>>]
      BY <2>2, <3>1
    <3> QED BY <1>0, <2>1, <2>4, <3>2, OwedByOthers
  <2> QED BY <2>2, <2>3, <2>4
<1>2. ASSUME NEW s \in Sessions, Worker(s) \/ Silent(s)
      PROVE  AllRecipients' /\ \A t \in Sessions : Owed(t)'
  <2>1. /\ Owed(s)' /\ AllRecipients' /\ \A u \in Users : mbox[u] \subseteq mbox'[u]
        /\ \A m \in Mails : m = This(s) \/ failed'[m] = failed[m]
    BY <1>0, <1>2, OwedByWorker
  <2>2. accepted' = accepted /\ \A t \in Sessions \ {s} : session'[t] = session[t]
    BY <1>0, <1>2, WorkerShape
  <2>3. done' = done \/ done' = done \cup {This(s)}
    BY <1>2 DEF Worker, Ask, ReadAnswer, WriteMbox, Skip, Delivered, Silent
  <2>4. ASSUME NEW t \in Sessions, t # s PROVE Owed(t)'
    <3>1. \A k \in 1 .. MaxMails : <<t, k>> \in done' <=> <<t, k>> \in done
      BY <2>3, <2>4 DEF This
    <3>2. \A k \in 1 .. MaxMails : failed'[<<t, k>>] = failed[<<t, k>>]
      BY <2>1, <2>4 DEF This, Mails
    <3> QED BY <1>0, <2>1, <2>2, <2>4, <3>1, <3>2, OwedByOthers
  <2> QED BY <2>1, <2>4
<1>3. ASSUME MasterAnswer \/ UNCHANGED vars
      PROVE  AllRecipients' /\ \A t \in Sessions : Owed(t)'
  <2>1. UNCHANGED <<session, mbox, accepted, failed, done>> BY <1>3 DEF MasterAnswer, vars
  <2>2. \A t \in Sessions : Owed(t)' BY <1>0, <2>1, OwedByOthers
  <2> QED BY <1>0, <2>1, <2>2 DEF AllRecipients
<1>4. AllRecipients' /\ \A t \in Sessions : Owed(t)' BY <1>1, <1>2, <1>3 DEF Next
<1> QED BY <1>0, <1>4 DEF AllInv, OwedInv

(***************************************************************************)
(* One recipient's failure is not another's: once the final "." was        *)
(* answered with 250, every accepted recipient with an account, at whom no *)
(* step of the delivery failed, has the mail, whoever else hangs, fails or *)
(* has no account.  The workers share one connection to the master without *)
(* a lock, so this takes that no two ask at the same time.                 *)
(***************************************************************************)
THEOREM AllRecipientsServed ==
    ASSUME "overlap" \notin Hazards
    PROVE  Spec => []AllRecipients
<1>1. Init => AllInv BY AllInit
<1>2. AllInv /\ [Next]_vars => AllInv' BY AllStep
<1>3. AllInv => AllRecipients BY DEF AllInv
<1> QED BY <1>1, <1>2, <1>3, PTL DEF Spec
==============================================================================
