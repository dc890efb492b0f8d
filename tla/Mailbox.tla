------------------------------- MODULE Mailbox -------------------------------
(***************************************************************************)
(* The mailbox of a user is one value of the key-value store, "mbox", that *)
(* SMTP workers and frontend threads read, change and write back with a    *)
(* CPUT, reloading it when the CPUT fails (struct MBox of email/mbox.h and *)
(* frontend/mail/mbox.h), and the frontend's pages that open and delete a  *)
(* mail (frontend/email_reply.h).                                          *)
(*                                                                         *)
(* The text of a mailbox is the sequence of its mails: parse_mails and     *)
(* to_string are inverse to each other on mails whose text ends with a     *)
(* line end and has no line of the form of a header, which is what the     *)
(* SMTP server and the inbox page write.  GETS and CPUT are those of KvMap.*)
(***************************************************************************)
EXTENDS Integers, Sequences, FiniteSets, Pick

CONSTANTS
    Users,
    Readers,   \* users who open and delete mail
    Bodies,    \* what makes one mail different from another; each is sent once
    Workers,   \* threads of SMTP servers and frontends
    MaxLen,    \* bound: no mail is sent to a mailbox that holds this many
    Hazards    \* which of the situations below the environment produces

(***************************************************************************)
(*  "overlapWrite"   two deliveries at the same time to the mailbox of a   *)
(*                   reader (to the others, they overlap in any case)      *)
(*  "overlapDelete"  a deletion while another thread works on the mailbox, *)
(*                   or whose CPUT is refused for another reason: it tries *)
(*                   again, with mails that the reload has doubled         *)
(*  "sharedView"     two users have a mail open on the same frontend       *)
(*  "twoPages"       a user opens a mail while another one is open         *)
(*  "again"          a page asks for the same deletion more than once      *)
(*  "link"           the connection to the backend breaks                  *)
(*  "silent"         a command is never answered: the primary was killed   *)
(*                   from the console, and nobody waits with a time limit  *)
(*  "refused"        a CPUT fails although the mailbox has not changed     *)
(*                   (SEQ_ERROR): of a delivery, and of a deletion when    *)
(*                   "overlapDelete" is admitted too                       *)
(***************************************************************************)
ASSUME MailHazards ==
    Hazards \subseteq {"overlapWrite", "overlapDelete", "sharedView", "twoPages", "again",
                       "link", "silent", "refused"}
ASSUME ReadersAssumption == Readers \subseteq Users
ASSUME MailBound == MaxLen \in Nat

VARIABLES
    mbox,            \* the value "mbox" of each user
    worker,          \* the struct MBox of each thread, and where it is
    to_be_deleted,   \* static int to_be_deleted of email_reply.h
    open,            \* the mails each user has open in the browser
    sent,            \* history: bodies sent, by recipient, whose write returned true
    unsure,          \* history: those whose write returned false
    asked            \* history: mails that users asked to delete

vars == <<mbox, worker, to_be_deleted, open, sent, unsure, asked>>

IdleWorker == [at |-> "idle"]

Mail == [id : Nat \ {0}, body : Bodies]
Text == Seq(Mail)

\* current_id after parse_mails.
MaxId(text) ==
    LET ids == {text[n].id : n \in DOMAIN text} \cup {0}
    IN  CHOOSE i \in ids : \A j \in ids : j <= i

\* A thread that waits for an answer that will not come does nothing more.
Busy(u) == {w \in Workers : worker[w].at \notin {"idle", "hung"} /\ worker[w].usr = u}
Deleting(u) == {w \in Busy(u) : worker[w].op = "del"}

Begin(w, op, u, id, body) ==
    worker' = [worker EXCEPT ![w] =
        [at |-> "load", op |-> op, usr |-> u, id |-> id, body |-> body,
         text |-> <<>>, mails |-> <<>>]]

------------------------------------------------------------------------------
(* MBox::init, write and del.                                              *)

\* (wrong on purpose, for the mutation checks, as every operator named Bad...)
BadReloaded(w) == worker[w].mails \o mbox[worker[w].usr] \o mbox[worker[w].usr]

\* mails after another init: parse_mails appends to what is there.
Reloaded(w) == worker[w].mails \o mbox[worker[w].usr]

\* GETS
Reread(w) == mbox[worker[w].usr]

BadFirstId(w) == MaxId(mbox[worker[w].usr])

\* write() takes the next id before its first CPUT, and keeps it.
FirstId(w) == MaxId(mbox[worker[w].usr]) + 1

\* GETS and parse_mails, the first time.
Load(w) ==
    /\ worker[w].at = "load"
    /\ worker' = [worker EXCEPT
          ![w].at = "cput", ![w].text = Reread(w), ![w].mails = Reloaded(w),
          ![w].id = IF worker[w].op = "write" THEN FirstId(w) ELSE @]
    /\ UNCHANGED <<mbox, to_be_deleted, open, sent, unsure, asked>>

BadReload(w) ==
    /\ worker[w].at \in {"reload", "refused"}
    /\ worker' = [worker EXCEPT ![w].at = "cput"]
    /\ UNCHANGED <<mbox, to_be_deleted, open, sent, unsure, asked>>

\* The same in the retry loop.
Reload(w) ==
    /\ worker[w].at \in {"reload", "refused"}
    /\ worker' = [worker EXCEPT
          ![w].at = "cput", ![w].text = Reread(w), ![w].mails = Reloaded(w)]
    /\ UNCHANGED <<mbox, to_be_deleted, open, sent, unsure, asked>>

\* post_text
PostText(w) ==
    LET x == worker[w] IN
    IF x.op = "write" THEN Append(x.text, [id |-> x.id, body |-> x.body])
    ELSE Pick(x.mails, {n \in DOMAIN x.mails : x.mails[n].id # x.id})

BadUnchanged(w) == TRUE

\* The comparison of kv_cput.
Unchanged(w) == mbox[worker[w].usr] = worker[w].text

Finish(w) == worker' = [worker EXCEPT ![w] = IdleWorker]

Cput(w) ==
    /\ worker[w].at = "cput"
    /\ \/ /\ Unchanged(w)
          /\ mbox' = [mbox EXCEPT ![worker[w].usr] = PostText(w)]
          /\ Finish(w)
          /\ sent' = IF worker[w].op = "write"
                     THEN sent \cup {<<worker[w].usr, worker[w].body>>} ELSE sent
       \/ /\ ~Unchanged(w)
          /\ worker' = [worker EXCEPT ![w].at = "reload"]
          /\ UNCHANGED <<mbox, sent>>
    /\ UNCHANGED <<to_be_deleted, open, unsure, asked>>

\* Any status but FINISHED and LINK_ERROR starts the loop again (bound: while
\* the parsed mails, which a reload adds to, are few).
Refused(w) ==
    /\ worker[w].at = "cput" /\ "refused" \in Hazards
    /\ worker[w].op = "write" \/ "overlapDelete" \in Hazards
    /\ Len(worker[w].mails) <= MaxLen
    /\ worker' = [worker EXCEPT ![w].at = "refused"]
    /\ UNCHANGED <<mbox, to_be_deleted, open, sent, unsure, asked>>

\* A primary that was killed reads the command, does not run it and says nothing;
\* one that is killed while it runs the command leaves the mailbox as LinkError does.
Silent(w) ==
    /\ worker[w].at \notin {"idle", "hung"} /\ "silent" \in Hazards
    /\ worker' = [worker EXCEPT ![w].at = "hung"]
    /\ UNCHANGED <<mbox, to_be_deleted, open, sent, unsure, asked>>

\* LINK_ERROR: init fails, or a CPUT ends the loop, which may have been
\* executed.  The descriptor is of no use after it, so that an error of the
\* reload, which the code overlooks, ends the loop in its CPUT too.
LinkError(w) ==
    /\ worker[w].at # "idle" /\ "link" \in Hazards
    /\ mbox' \in IF worker[w].at = "cput" /\ Unchanged(w)
                THEN {mbox, [mbox EXCEPT ![worker[w].usr] = PostText(w)]} ELSE {mbox}
    /\ Finish(w)
    /\ unsure' = IF worker[w].op = "write"
                 THEN unsure \cup {<<worker[w].usr, worker[w].body>>} ELSE unsure
    /\ UNCHANGED <<to_be_deleted, open, sent, asked>>

------------------------------------------------------------------------------
(* Deliveries, and the pages of the frontend.                              *)

Fresh(body) ==
    /\ \A u \in Users : <<u, body>> \notin sent \cup unsure
    /\ \A w \in Workers : worker[w].at # "idle" => worker[w].body # body

Deliver(w, u, body) ==
    /\ worker[w].at = "idle" /\ Fresh(body) /\ Len(mbox[u]) < MaxLen
    /\ u \notin Readers \/ "overlapWrite" \in Hazards \/ Busy(u) = {}
    /\ "overlapDelete" \in Hazards \/ Deleting(u) = {}
    /\ Begin(w, "write", u, 0, body)
    /\ UNCHANGED <<mbox, to_be_deleted, open, sent, unsure, asked>>

\* email_display_handler: the id goes to a variable of the whole process.
Display(u, n) ==
    /\ n \in DOMAIN mbox[u]
    /\ "twoPages" \in Hazards \/ open[u] = {}
    /\ "sharedView" \in Hazards \/ \A v \in Users \ {u} : open[v] = {}
    /\ "overlapDelete" \in Hazards \/ Deleting(u) = {}
    /\ to_be_deleted' = mbox[u][n].id
    /\ open' = [open EXCEPT ![u] = @ \cup {mbox[u][n]}]
    /\ UNCHANGED <<mbox, worker, sent, unsure, asked>>

\* Back to the inbox without deleting.
Leave(u) ==
    /\ \E m \in open[u] : open' = [open EXCEPT ![u] = @ \ {m}]
    /\ UNCHANGED <<mbox, worker, to_be_deleted, sent, unsure, asked>>

\* email_inbox_handler on DELE: delete_mail(usr, to_be_deleted), which stays as
\* it is, whatever mail the page shows from which the user asks for it.
DeleteMail(w, u) ==
    /\ worker[w].at = "idle"
    /\ "overlapDelete" \in Hazards \/ Busy(u) = {}
    /\ \E m \in open[u] :
          /\ Begin(w, "del", u, to_be_deleted, m.body)
          /\ asked' = asked \cup {<<u, m.body>>}
          /\ open' = IF "again" \in Hazards THEN open ELSE [open EXCEPT ![u] = @ \ {m}]
    /\ UNCHANGED <<mbox, to_be_deleted, sent, unsure>>

------------------------------------------------------------------------------
Init ==
    /\ mbox = [u \in Users |-> <<>>]
    /\ worker = [w \in Workers |-> IdleWorker]
    /\ to_be_deleted = 0
    /\ open = [u \in Users |-> {}]
    /\ sent = {} /\ unsure = {} /\ asked = {}

Step(w) == Load(w) \/ Reload(w) \/ Cput(w)
Fault(w) == Refused(w) \/ Silent(w) \/ LinkError(w)

Next ==
    \/ \E w \in Workers : Step(w) \/ Fault(w)
    \/ \E w \in Workers, u \in Users, body \in Bodies : Deliver(w, u, body)
    \/ \E u \in Readers, n \in 1 .. MaxLen : Display(u, n)
    \/ \E u \in Readers : Leave(u)
    \/ \E w \in Workers, u \in Readers : DeleteMail(w, u)

Spec == Init /\ [][Next]_vars

\* A thread runs on; that its command is answered is not assumed (Silent).
Fairness == \A w \in Workers : WF_vars(Step(w))

FairSpec == Spec /\ Fairness

------------------------------------------------------------------------------
(* Properties.                                                             *)

Job == [at : {"load", "cput", "reload", "refused", "hung"}, op : {"write", "del"}, usr : Users,
        id : Nat, body : Bodies, text : Text, mails : Text]

TypeOK ==
    /\ mbox \in [Users -> Text]
    /\ worker \in [Workers -> Job \cup {IdleWorker}]
    /\ to_be_deleted \in Nat
    /\ open \in [Users -> SUBSET Mail]
    /\ sent \subseteq Users \X Bodies /\ unsure \subseteq Users \X Bodies
    /\ asked \subseteq Users \X Bodies

Holds(u, body) == \E n \in DOMAIN mbox[u] : mbox[u][n].body = body

(***************************************************************************)
(* No mail is lost: a mail whose write returned true is in the mailbox of  *)
(* its recipient until that user asks to delete this very mail, whatever   *)
(* other threads write or delete meanwhile.  The page sends no id: it      *)
(* takes a browser with one page, used once, and a frontend with one       *)
(* reader at a time for to_be_deleted to be the id of the mail it shows.   *)
(***************************************************************************)
NoMailLost ==
    \A u \in Users, b \in Bodies :
        <<u, b>> \in sent /\ <<u, b>> \notin asked => Holds(u, b)

(***************************************************************************)
(* No mail is in a mailbox twice, whatever write and del retried: each of  *)
(* them rewrites the whole mailbox from what it has parsed.                *)
(***************************************************************************)
NoMailTwice ==
    \A u \in Users : \A m, n \in DOMAIN mbox[u] :
        mbox[u][m].body = mbox[u][n].body => m = n

(***************************************************************************)
(* Ids tell the mails of a reader's mailbox apart: the inbox page links to *)
(* a mail, and del() removes it, by its id.                                *)
(***************************************************************************)
IdsUnique ==
    \A u \in Readers : \A m, n \in DOMAIN mbox[u] :
        mbox[u][m].id = mbox[u][n].id => m = n

(***************************************************************************)
(* The retry loops end: a thread that writes or deletes is done some time, *)
(* or it waits for an answer that never comes, unless a CPUT is refused    *)
(* again and again for another reason than a mailbox that changed: the     *)
(* loop repeats after any error but LINK_ERROR (mbox.h, write and del).    *)
(***************************************************************************)
WorkEnds ==
    \A w \in Workers :
        <>[](worker[w].at # "refused") =>
            []<>(worker[w].at \in {"idle", "hung"})
==============================================================================
