--------------------------------- MODULE Smtp ---------------------------------
(***************************************************************************)
(* The SMTP server (email/smtp.cpp, struct Mail of email/mail.h): one      *)
(* worker thread per connection runs the dialogue and, at the end of DATA, *)
(* asks the master for the backend of every recipient and writes the mail  *)
(* to that user's mailbox.  All workers share one connection to the        *)
(* master.  The mailbox is that of module Mailbox, seen as the set of the  *)
(* mails it holds.                                                         *)
(***************************************************************************)
EXTENDS Integers, Sequences, SequencesExt

CONSTANTS
    Sessions,   \* connections of SMTP clients
    Users,      \* addresses at localhost that RCPT may name
    Accounts,   \* those that signed up: the others have no row at any backend
    GroupOf,    \* the cluster that serves each user
    MaxMails,   \* bound: MAIL commands accepted in one session
    MaxRcpts,   \* bound: length of mail.recipients
    Hazards     \* which of the situations below arise

(***************************************************************************)
(*  "again"    another MAIL on a connection that had recipients before     *)
(*  "overlap"  two workers ask the master at the same time; of all that    *)
(*             their reads on one connection may then return, the answers  *)
(*             in another order                                            *)
(*  "hangup"   the client closes the connection without QUIT               *)
(*  "down"     a lookup, a connection, a read or a write of a mailbox      *)
(*             fails                                                       *)
(*  "silent"   a backend never answers (KILLed while it was the primary)   *)
(*             or refuses every CPUT                                       *)
(***************************************************************************)
ASSUME SmtpHazards ==
    Hazards \subseteq {"again", "overlap", "hangup", "down", "silent"}
ASSUME SmtpUsers   == Accounts \subseteq Users /\ DOMAIN GroupOf = Users
ASSUME SmtpBounds  == MaxMails \in Nat /\ MaxRcpts \in Nat

VARIABLES
    session,    \* locals of smtp_worker
    code,       \* the last reply code of each session
    requests,   \* users asked for on master_fd, not yet answered
    answers,    \* groups answered on master_fd ("none": no server), not yet read
    mbox,       \* mails in each user's mailbox
    accepted,   \* history: recipients answered with 250, by mail
    failed,     \* history: recipients skipped because of "down", by mail
    done        \* history: mails whose final "." was answered with 250

vars == <<session, code, requests, answers, mbox, accepted, failed, done>>

Groups == {GroupOf[u] : u \in Users}
Codes  == {220, 221, 250, 354, 500, 501, 503, 550}
Mails  == Sessions \X (1 .. MaxMails)

NewSession ==
    [at |-> "read", state |-> "Init", n |-> 0, recipients |-> <<>>, todo |-> <<>>,
     backend |-> "none"]

\* The mail that session s is about.
This(s) == <<s, session[s].n>>

Reading(s, state) == session[s].at = "read" /\ session[s].state = state
Commands(s) == session[s].at = "read" /\ session[s].state # "Data"

\* (wrong on purpose, for the mutation checks, as every operator named Bad...)
BadAnswer(s, c) == code' = [code EXCEPT ![s] = IF c = 550 THEN 551 ELSE c]

\* send_msg; a code that msg_map lacks makes the server exit.
Answer(s, c) == code' = [code EXCEPT ![s] = c]
NoDelivery == UNCHANGED <<requests, answers, mbox, failed, done>>

Refuse(s, c) == Answer(s, c) /\ UNCHANGED <<session, accepted>> /\ NoDelivery

------------------------------------------------------------------------------
(* The dialogue.                                                           *)

\* Mail::clear resets the sender and the text, which n stands for; it keeps
\* the recipients.
Cleared(x) == [x EXCEPT !.state = "Init"]

\* HELO, NOOP and unknown commands.
Noop(s) == Commands(s) /\ \E c \in {250, 500} : Refuse(s, c)

MailFrom(s) ==
    /\ Commands(s)
    /\ \/ session[s].state # "Init" /\ Refuse(s, 503)
       \/ session[s].state = "Init" /\ Refuse(s, 501)
       \/ /\ session[s].state = "Init" /\ session[s].n < MaxMails
          /\ "again" \in Hazards \/ session[s].recipients = <<>>
          /\ session' = [session EXCEPT ![s].state = "From", ![s].n = @ + 1]
          /\ Answer(s, 250)
          /\ UNCHANGED accepted
          /\ NoDelivery

RcptAllowed(s) == session[s].state \in {"From", "To"}

BadPushed(s, u, local) == Append(session[s].recipients, u)

\* Only an address that matches both patterns is pushed.
Pushed(s, u, local) ==
    IF local THEN Append(session[s].recipients, u) ELSE session[s].recipients

RcptTo(s, u) ==
    /\ Commands(s)
    /\ \/ ~RcptAllowed(s) /\ Refuse(s, 503)
       \/ /\ RcptAllowed(s)
          /\ session' = [session EXCEPT ![s].recipients = Pushed(s, u, FALSE)]
          /\ \E c \in {501, 550} : Answer(s, c)
          /\ UNCHANGED accepted
          /\ NoDelivery
       \/ /\ RcptAllowed(s) /\ Len(session[s].recipients) < MaxRcpts
          /\ session' = [session EXCEPT ![s].state = "To",
                                        ![s].recipients = Pushed(s, u, TRUE)]
          /\ accepted' = [accepted EXCEPT ![This(s)] = @ \cup {u}]
          /\ Answer(s, 250)
          /\ NoDelivery

Data(s) ==
    /\ Commands(s)
    /\ \/ session[s].state # "To" /\ Refuse(s, 503)
       \/ /\ session[s].state = "To"
          /\ session' = [session EXCEPT ![s].state = "Data"]
          /\ Answer(s, 354)
          /\ UNCHANGED accepted
          /\ NoDelivery

Rset(s) ==
    /\ Commands(s)
    /\ session' = [session EXCEPT ![s] = Cleared(@)]
    /\ Answer(s, 250)
    /\ UNCHANGED accepted
    /\ NoDelivery

Quit(s) ==
    /\ Commands(s)
    /\ session' = [session EXCEPT ![s].at = "closed"]
    /\ Answer(s, 221)
    /\ UNCHANGED accepted
    /\ NoDelivery

\* The client is gone.  do_read does not stop at the end of the stream: it
\* reads nothing, again and again.
Hangup(s) ==
    /\ session[s].at = "read" /\ "hangup" \in Hazards
    /\ session' = [session EXCEPT ![s].at = "spin"]
    /\ UNCHANGED <<code, accepted>>
    /\ NoDelivery

------------------------------------------------------------------------------
(* The end of DATA: one recipient after the other.                         *)

Dot(s) ==
    /\ Reading(s, "Data")
    /\ session' = [session EXCEPT ![s].at = "ask", ![s].todo = session[s].recipients]
    /\ UNCHANGED <<code, accepted>>
    /\ NoDelivery

Asking == {s \in Sessions : session[s].at = "wait"}

\* usr_to_address: the request, its answer by the master, the read.  Whoever
\* reads first gets the first answer.
Ask(s) ==
    /\ session[s].at = "ask" /\ session[s].todo # <<>>
    /\ "overlap" \in Hazards \/ Asking = {}
    /\ requests' = Append(requests, Head(session[s].todo))
    /\ session' = [session EXCEPT ![s].at = "wait"]
    /\ UNCHANGED <<code, answers, mbox, accepted, failed, done>>

\* get_primary fails when the group has no server; its result is not looked at,
\* and the answer is an empty address.
MasterAnswer ==
    /\ requests # <<>>
    /\ \E b \in {GroupOf[Head(requests)]} \cup (IF "down" \in Hazards THEN {"none"} ELSE {}) :
          answers' = Append(answers, b)
    /\ requests' = Tail(requests)
    /\ UNCHANGED <<session, code, mbox, accepted, failed, done>>

ReadAnswer(s) ==
    /\ session[s].at = "wait" /\ answers # <<>>
    /\ session' = [session EXCEPT ![s].at = "write", ![s].backend = Head(answers)]
    /\ answers' = Tail(answers)
    /\ UNCHANGED <<code, requests, mbox, accepted, failed, done>>

BadRest(s) == <<>>
BadStuckRest(s) == session[s].todo

\* Recipients after this one.
Rest(s) == Tail(session[s].todo)

\* The loop goes on with the next recipient, whatever became of this one.
GoOn(s) == session' = [session EXCEPT ![s].at = "ask", ![s].todo = Rest(s)]

Written(s) == [mbox EXCEPT ![Head(session[s].todo)] = @ \cup {This(s)}]

\* The backend holds a row of the user; any other answers USER_ERROR to GETS.
Known(s) ==
    LET u == Head(session[s].todo)
    IN  session[s].backend = GroupOf[u] /\ u \in Accounts

\* The connection, MBox::init and write (module Mailbox).  No row, no mail.
WriteMbox(s) ==
    /\ session[s].at = "write" /\ session[s].backend # "none"
    /\ mbox' = IF Known(s) THEN Written(s) ELSE mbox
    /\ GoOn(s)
    /\ UNCHANGED <<code, requests, answers, accepted, failed, done>>

\* A step of the delivery to this recipient fails; nothing comes of it but a
\* warning, or the CPUT is done and only its answer is lost.
Skip(s) ==
    /\ "down" \in Hazards
    /\ session[s].at \in {"ask", "write"} /\ session[s].todo # <<>>
    /\ mbox' \in {mbox} \cup
          (IF session[s].at = "write" /\ Known(s) THEN {Written(s)} ELSE {})
    /\ failed' = [failed EXCEPT ![This(s)] = @ \cup {Head(session[s].todo)}]
    /\ GoOn(s)
    /\ UNCHANGED <<code, requests, answers, accepted, done>>

\* kv_trans waits without a limit, and write() tries again without one.  (What a
\* primary has run that was killed before it answered, Skip leaves too.)
Silent(s) ==
    /\ "silent" \in Hazards
    /\ session[s].at = "write" /\ session[s].backend # "none"
    /\ session' = [session EXCEPT ![s].at = "hung"]
    /\ UNCHANGED <<code, requests, answers, mbox, accepted, failed, done>>

Delivered(s) ==
    /\ session[s].at = "ask" /\ session[s].todo = <<>>
    /\ session' = [session EXCEPT ![s] = [Cleared(@) EXCEPT !.at = "read"]]
    /\ done' = done \cup {This(s)}
    /\ Answer(s, 250)
    /\ UNCHANGED <<requests, answers, mbox, accepted, failed>>

------------------------------------------------------------------------------
Init ==
    /\ session = [s \in Sessions |-> NewSession]
    /\ code = [s \in Sessions |-> 220]
    /\ requests = <<>> /\ answers = <<>>
    /\ mbox = [u \in Users |-> {}]
    /\ accepted = [m \in Mails |-> {}] /\ failed = [m \in Mails |-> {}]
    /\ done = {}

Client(s) ==
    \/ Noop(s) \/ MailFrom(s) \/ Data(s) \/ Rset(s) \/ Quit(s) \/ Hangup(s) \/ Dot(s)
    \/ \E u \in Users : RcptTo(s, u)

Worker(s) == Ask(s) \/ ReadAnswer(s) \/ WriteMbox(s) \/ Skip(s) \/ Delivered(s)

Next == MasterAnswer \/ \E s \in Sessions : Client(s) \/ Worker(s) \/ Silent(s)

Spec == Init /\ [][Next]_vars

\* The threads run on (strongly where they wait for their turn at master_fd)
\* and the master, which asks nobody, answers; clients and backends owe nothing.
Fairness == WF_vars(MasterAnswer) /\ \A s \in Sessions : SF_vars(Worker(s))

FairSpec == Spec /\ Fairness

------------------------------------------------------------------------------
(* Properties.                                                             *)

TypeOK ==
    /\ session \in [Sessions ->
          [at : {"read", "ask", "wait", "write", "hung", "closed", "spin"},
           state : {"Init", "From", "To", "Data"}, n : 0 .. MaxMails,
           recipients : Seq(Users), todo : Seq(Users), backend : Groups \cup {"none"}]]
    /\ code \in [Sessions -> Codes]
    /\ requests \in Seq(Users) /\ answers \in Seq(Groups \cup {"none"})
    /\ mbox \in [Users -> SUBSET Mails]
    /\ accepted \in [Mails -> SUBSET Users] /\ failed \in [Mails -> SUBSET Users]
    /\ done \subseteq Mails

(***************************************************************************)
(* What one client asks for stays on its connection: a mail is in a        *)
(* mailbox only if RCPT for its owner was answered with 250 on the same    *)
(* connection before, in this transaction or (Mail::clear keeps the        *)
(* recipients) in an earlier one.                                          *)
(***************************************************************************)
OnlyRecipients ==
    \A u \in Users : \A m \in mbox[u] : \E k \in 1 .. m[2] : u \in accepted[<<m[1], k>>]

(***************************************************************************)
(* Whoever has a mail was accepted as its recipient: RCPT for him was      *)
(* answered with 250 in the transaction of this mail, however commands     *)
(* that are refused, RSET, hang-ups, failing deliveries and the dialogues  *)
(* of other connections come between.  Without "again" no transaction      *)
(* follows one with recipients on a connection; with it the property       *)
(* fails, since Mail::clear, after RSET or DATA, keeps mail.recipients.    *)
(***************************************************************************)
OwnRecipients ==
    \A u \in Users : \A m \in mbox[u] : u \in accepted[m]

(***************************************************************************)
(* One recipient's failure is not another's: once the final "." was        *)
(* answered with 250, every accepted recipient that has an account has the *)
(* mail, but for those at whom a step of the delivery itself failed.       *)
(***************************************************************************)
AllRecipients ==
    \A m \in done : \A u \in (accepted[m] \cap Accounts) \ failed[m] : m \in mbox[u]

(***************************************************************************)
(* 250 says that the mail is delivered: once the final "." was answered    *)
(* with it, everyone whose RCPT was answered with it has the mail.  It     *)
(* fails for an address nobody has, and under "down": the loop skips a     *)
(* recipient without a word to the client.                                 *)
(***************************************************************************)
ConfirmedDelivered ==
    \A m \in done : \A u \in accepted[m] : m \in mbox[u]

(***************************************************************************)
(* The end of DATA is answered and the worker reads commands again, unless *)
(* it waits for a backend that never answers; failures on the way, and     *)
(* other workers that wait like that, do not keep it.                      *)
(***************************************************************************)
DotAnswered ==
    \A s \in Sessions : []<>(session[s].at \notin {"ask", "wait", "write"})
==============================================================================
