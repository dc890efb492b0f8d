------------------------------- MODULE Storage -------------------------------
(***************************************************************************)
(* The files of one user (frontend/storage.h): a tree of names and ids in  *)
(* one cell of the key-value table, storage_metadata, and the contents of  *)
(* the files in cells named by their ids.  Each request reads the tree,    *)
(* changes its copy and writes it back with CPUT; when that fails it takes *)
(* its change back, reads the tree again and tries once more.  Reading     *)
(* does not forget the former copy (FindOrCreateDirMapping, AddEntry).     *)
(*                                                                         *)
(* A session is one such request, in one of the frontends.  A step ends    *)
(* with at most one command of the key-value table.  Queries and downloads *)
(* change nothing and are left out.                                        *)
(***************************************************************************)
EXTENDS Naturals, Integers, Sequences, SequencesExt, FiniteSets

CONSTANTS
    Sessions,
    Names,        \* names of files and folders
    Start,        \* the metadata the user may have at first
    MaxAttempt,   \* kMaxAttempt
    MaxRequests,  \* bound: requests
    MaxFaults,    \* bound: requests cut off, broken connections, refused contents
    Hazards       \* which of the situations below the environment produces

(***************************************************************************)
(* Situations that are admitted by name:                                   *)
(*  "overlap"    an entry is removed, renamed or moved while another       *)
(*               request is under way                                      *)
(*  "clash"      a rename or a move to a name that is in use               *)
(*  "stalePage"  a request from a page that shows a folder where there is  *)
(*               a file by now, or offers a folder to move itself into     *)
(*  "link"       the connection to the backend breaks during a request      *)
(*  "silent"     the backend never answers (KILLed while it was the primary) *)
(***************************************************************************)
ASSUME StorageHazards ==
    Hazards \subseteq {"overlap", "clash", "stalePage", "link", "silent"}
ASSUME StorageBounds ==
    MaxAttempt \in Nat /\ MaxRequests \in Nat /\ MaxFaults \in Nat

VARIABLES
    store,     \* storage_metadata: the largest id used and the entries
    contents,  \* ids that have a content
    session,   \* the StorageHandler of each session
    answer,    \* status of the answer to the last request of each session
    requests,  \* requests so far
    faults,    \* faults so far
    kept,      \* ids whose creation came to its end and that no request to delete reached
    gone,      \* ids that were deleted
    cut        \* files left half-way by a request that did not finish

vars == <<store, contents, session, answer, requests, faults, kept, gone, cut>>

Root == 1
NoId == 0
Paths == {<<a>> : a \in Names} \cup {<<a, b>> : a, b \in Names}

MaxId == Root + MaxRequests + 2   \* Start has at most two entries
Entry == [dir : Root .. MaxId, name : Names, id : 2 .. MaxId, file : BOOLEAN]
Metadata == [latest : Root .. MaxId, ents : SUBSET Entry]

Idle == [op |-> "none", path |-> <<>>, to |-> <<>>, at |-> "idle", left |-> 0,
         text |-> [latest |-> Root, ents |-> {}],   \* metadata_str_
         mem  |-> [latest |-> Root, ents |-> {}],   \* latest_id_, directories_
         id |-> NoId,       \* the id given to the new entry
         frames |-> <<>>]   \* nested calls of HandleDelete

Frame(path, left, expect) ==
    [path |-> path, left |-> left, expect |-> expect, at |-> "enter", kids |-> {}]

------------------------------------------------------------------------------
(* The tree.                                                               *)

\* ValidatePathAndGetDir: the id a path leads to.
Walk(ents, path) ==
    LET child[d \in Nat, n \in Names] ==
            LET es == {e \in ents : e.dir = d /\ e.name = n}
            IN  IF es = {} THEN NoId ELSE (CHOOSE e \in es : TRUE).id
    IN  FoldLeft(LAMBDA d, n : child[d, n], Root, path)

ParentOf(ents, path) == Walk(ents, Front(path))
At(ents, path) == {e \in ents : e.dir = ParentOf(ents, path) /\ e.name = Last(path)}
Found(ents, path) == At(ents, path) # {}

IsFile(ents, id) == \E e \in ents : e.id = id /\ e.file

\* The folders in and under the folder from.
Folders(ents, from) ==
    LET below[ids \in SUBSET Nat] == ids \cup {e.id : e \in {x \in ents : x.dir \in ids /\ ~x.file}}
        upTo[n \in Nat] == IF n = 0 THEN {from} ELSE below[upTo[n - 1]]
    IN  upTo[Cardinality(ents)]

\* GetMetadataStr: what is reachable from the root.
Text(m) == [m EXCEPT !.ents = {e \in m.ents : e.dir \in Folders(m.ents, Root)}]

\* On a cycle GetMetadataStr does not return.
Cyclic(ents) ==
    LET fs == Folders(ents, Root)
    IN  \E e \in ents : e.dir \in fs /\ ~e.file /\ e.dir \in Folders(ents, e.id)

\* (wrong on purpose, for the mutation checks, as every operator named Bad...)
BadParsed(m, text) == [latest |-> text.latest, ents |-> m.ents]

\* ParseMetadataFile on top of what was parsed before.
Parsed(m, text) ==
    [latest |-> text.latest,
     ents   |-> text.ents \cup
                {e \in m.ents : \A t \in text.ents : t.dir # e.dir \/ t.name # e.name}]

BadNextId(m) == m.latest

\* GetLatestId, plus one.
NextId(m) == m.latest + 1

Listed == {e.id : e \in store.ents}
ListedFiles == {e.id : e \in {x \in store.ents : x.file}}

\* Everything at or under a path, as it is stored.
Under(path) ==
    LET id == Walk(store.ents, path)
    IN  {id} \cup {e.id : e \in {x \in store.ents : x.dir \in Folders(store.ents, id)}}

------------------------------------------------------------------------------
(* Requests.                                                               *)

\* A request that waits for an answer that will not come does nothing more.
Busy(s) == session[s].at \notin {"idle", "hung"}
Removing(s) ==
    Busy(s) /\ (session[s].op \in {"delete", "rename", "move"} \/ session[s].frames # <<>>)

\* The path that a request gives a name to.
Target(op, path, to) ==
    CASE op = "rename" -> Append(Front(path), to[1])
      [] op = "move"   -> Append(to, Last(path))
      [] OTHER         -> path

Clashes(op, path, to) ==
    \/ op \in {"rename", "move"} /\ Found(store.ents, Target(op, path, to))
    \/ \E s \in Sessions :
        /\ Busy(s) /\ {op, session[s].op} \cap {"rename", "move"} # {}
        /\ Target(op, path, to) = Target(session[s].op, session[s].path, session[s].to)

\* display_files offers folders to move to: not the root, not the entry's own
\* folder, nor the entry itself or a folder in it.  Paths lead through folders.
Offered(op, path, to) ==
    /\ ~IsFile(store.ents, ParentOf(store.ents, path))
    /\ op = "move" =>
        /\ to # Front(path) /\ ~IsFile(store.ents, Walk(store.ents, to))
        /\ Walk(store.ents, to) \notin Folders(store.ents, Walk(store.ents, path))

Admitted(op, path, to) ==
    /\ "clash" \in Hazards \/ ~Clashes(op, path, to)
    /\ "stalePage" \in Hazards \/ Offered(op, path, to)
    /\ \/ "overlap" \in Hazards
       \/ op \in {"upload", "create"} \/ \A s \in Sessions : ~Removing(s)

\* While a request is under way nothing is removed, except by itself.
MayRemove(s) == "overlap" \in Hazards \/ \A r \in Sessions \ {s} : ~Busy(r)

\* storage_handler: the handler is created and reads the metadata.
Begin(s) ==
    /\ session[s].at = "idle" /\ requests < MaxRequests
    /\ \E op \in {"upload", "create", "rename", "move", "delete"}, path \in Paths,
          to \in {<<n>> : n \in Names} :
        /\ op \in {"upload", "create", "delete"} => to = <<Last(path)>>
        /\ Admitted(op, path, to)
        /\ session' = [session EXCEPT ![s] =
              [Idle EXCEPT !.op = op, !.path = path, !.to = to, !.left = MaxAttempt,
                           !.text = store, !.mem = Parsed(Idle.mem, store),
                           !.at = IF op = "delete" THEN "delete" ELSE "try",
                           !.frames = IF op = "delete"
                                      THEN <<Frame(path, MaxAttempt, FALSE)>> ELSE <<>>]]
    /\ answer' = [answer EXCEPT ![s] = "none"]
    /\ requests' = requests + 1
    /\ UNCHANGED <<store, contents, faults, kept, gone, cut>>

\* Files that the request has given an entry and no content yet, or the reverse.
Touched(s) ==
    IF session[s].id # NoId THEN {session[s].id}
    ELSE {Walk(session[s].mem.ents, f.path) :
            f \in {x \in Range(session[s].frames) : x.at = "remove" \/ x.expect}} \cap ListedFiles

\* The answer, a status or none.
Answer(s, status) == answer' = [answer EXCEPT ![s] = status]

\* The request ends before it has done its work.
End(s, status) ==
    /\ session' = [session EXCEPT ![s] = Idle]
    /\ Answer(s, status)
    /\ cut' = cut \cup Touched(s)
    /\ UNCHANGED <<store, kept, gone>>

Top(s) == Last(session[s].frames)

BadMaxAttemptReached(left) == left < -1
MaxAttemptReached(left) == left < 0

\* CPUT of the changed tree new; when it fails the tree is back, and is to be
\* read again.
Written(s) == store = session[s].text
Retry(s, back) ==
    /\ ~Written(s)
    /\ session' = [session EXCEPT ![s] = [@ EXCEPT !.mem.ents = back, !.at = "reload",
                                                   !.left = @ - 1]]
    /\ UNCHANGED <<store, contents, answer, requests, faults, kept, gone, cut>>

\* HandleCreationAndQuery, up to the CPUT.
Create(s) ==
    LET h == session[s]
        new == [dir |-> ParentOf(h.mem.ents, h.path), name |-> Last(h.path),
                id |-> NextId(h.mem), file |-> h.op = "upload"]
        tree == Text([latest |-> new.id, ents |-> h.mem.ents \cup {new}])
    IN  /\ h.op \in {"upload", "create"} /\ h.at = "try" /\ ~MaxAttemptReached(h.left)
        /\ ~Found(h.mem.ents, h.path) /\ new.dir # NoId
        /\ \/ /\ Written(s)
              /\ store' = tree
              /\ session' = [session EXCEPT ![s] =
                    IF new.file THEN [h EXCEPT !.at = "content", !.id = new.id, !.text = tree,
                                               !.mem = [latest |-> new.id,
                                                        ents |-> h.mem.ents \cup {new}]]
                    ELSE Idle]
              /\ answer' = IF new.file THEN answer ELSE [answer EXCEPT ![s] = "SUCCESS"]
              /\ kept' = IF new.file THEN kept ELSE kept \cup {new.id}
              /\ UNCHANGED <<contents, requests, faults, gone, cut>>
           \/ Retry(s, h.mem.ents)

\* kv_puts of the uploaded file.
PutContent(s) ==
    /\ session[s].at = "content"
    /\ contents' = contents \cup {session[s].id}
    /\ kept' = kept \cup {session[s].id}
    /\ session' = [session EXCEPT ![s] = Idle]
    /\ Answer(s, "SUCCESS")
    /\ UNCHANGED <<store, requests, faults, gone, cut>>

\* The backend answers it with an error: the entry is to be deleted again.
PutRefused(s) ==
    /\ session[s].at = "content" /\ faults < MaxFaults
    /\ "overlap" \in Hazards \/ \A r \in Sessions : ~Removing(r)
    /\ session' = [session EXCEPT ![s].at = "reload",
                                  ![s].frames = <<Frame(session[s].path, 1, TRUE)>>]
    /\ faults' = faults + 1
    /\ UNCHANGED <<store, contents, answer, requests, kept, gone, cut>>

\* HandleRename and HandleMove: the entry old is replaced by new.
Replace(s, old, new) ==
    LET h == session[s]
        ents == {e \in h.mem.ents \ {old} : e.dir # new.dir \/ e.name # new.name} \cup {new}
    IN  /\ MayRemove(s) /\ ~Cyclic(ents)
        /\ \/ /\ Written(s)
              /\ store' = Text([h.mem EXCEPT !.ents = ents])
              /\ session' = [session EXCEPT ![s] = Idle]
              /\ Answer(s, "SUCCESS")
              /\ UNCHANGED <<contents, requests, faults, kept, gone, cut>>
           \/ Retry(s, (ents \cup {old}) \ {new})

Rename(s) ==
    LET h == session[s] IN
    /\ h.op = "rename" /\ h.at = "try" /\ ~MaxAttemptReached(h.left)
    /\ \E old \in At(h.mem.ents, h.path) : Replace(s, old, [old EXCEPT !.name = h.to[1]])

Move(s) ==
    LET h == session[s] IN
    /\ h.op = "move" /\ h.at = "try" /\ ~MaxAttemptReached(h.left)
    /\ \E old \in At(h.mem.ents, h.path) :
        /\ Found(h.mem.ents, h.to)
        /\ Replace(s, old, [old EXCEPT !.dir = Walk(h.mem.ents, h.to)])

BadResumed(frames) == IF frames = <<>> THEN "try" ELSE "reload"
Resumed(frames) == IF frames = <<>> THEN "try" ELSE "delete"

\* ReadMetadata after a failure.
Reload(s) ==
    /\ session[s].at = "reload"
    /\ session' = [session EXCEPT ![s].mem = Parsed(@, store), ![s].text = store,
                       ![s].at = Resumed(session[s].frames)]
    /\ UNCHANGED <<store, contents, answer, requests, faults, kept, gone, cut>>

\* No attempt is left, or the paths are not (or, to create, already) there.
Hopeless(s) ==
    LET h == session[s] IN
    \/ /\ h.at = "try"
       /\ \/ MaxAttemptReached(h.left)
          \/ h.op \in {"upload", "create"}
               /\ (Found(h.mem.ents, h.path) \/ ParentOf(h.mem.ents, h.path) = NoId)
          \/ h.op \in {"rename", "move"} /\ ~Found(h.mem.ents, h.path)
          \/ h.op = "move" /\ ~Found(h.mem.ents, h.to)
    \/ /\ h.at = "delete" /\ Top(s).at = "enter"
       /\ MaxAttemptReached(Top(s).left) \/ ~Found(h.mem.ents, Top(s).path)

GiveUp(s) == Hopeless(s) /\ End(s, "FAIL") /\ UNCHANGED <<contents, requests, faults>>

------------------------------------------------------------------------------
(* HandleDelete.                                                           *)

SetTop(s, f) == [session EXCEPT ![s].frames = Front(@) \o f]

BadKids(ents, id) == {}
Kids(ents, id) == {e.name : e \in {x \in ents : x.dir = id}}

\* A folder: its entries first, one by one, each with a single attempt.
Descend(s) ==
    LET f == Top(s)
        ents == session[s].mem.ents
    IN  /\ session[s].at = "delete" /\ ~MaxAttemptReached(f.left) /\ Found(ents, f.path)
        /\ ~IsFile(ents, Walk(ents, f.path))
        /\ \/ /\ f.at = "enter"
              /\ LET ns == Kids(ents, Walk(ents, f.path))
                 IN  session' = SetTop(s, <<[f EXCEPT !.kids = ns,
                                                 !.at = IF ns = {} THEN "remove" ELSE "kids"]>>)
           \/ /\ f.at = "kids"
              /\ \E n \in f.kids :
                    session' = SetTop(s, <<[f EXCEPT !.kids = @ \ {n},
                                                 !.at = IF f.kids = {n} THEN "remove" ELSE "kids"],
                                           Frame(Append(f.path, n), 0, f.expect)>>)
        /\ UNCHANGED <<store, contents, answer, requests, faults, kept, gone, cut>>

\* A file: kv_dele of its content.
DeleteContent(s) ==
    LET f == Top(s)
        id == Walk(session[s].mem.ents, f.path)
    IN  /\ session[s].at = "delete" /\ f.at = "enter" /\ ~MaxAttemptReached(f.left)
        /\ Found(session[s].mem.ents, f.path) /\ IsFile(session[s].mem.ents, id)
        /\ MayRemove(s)
        /\ contents' = contents \ {id}
        /\ kept' = kept \ Under(session[s].path)
        /\ session' = SetTop(s, <<[f EXCEPT !.at = "remove"]>>)
        /\ UNCHANGED <<store, answer, requests, faults, gone, cut>>

BadDeleteAnswer(s) == "SUCCESS"

\* An upload that was undone is answered FAIL.
DeleteAnswer(s) == IF session[s].op = "delete" THEN "SUCCESS" ELSE "FAIL"

\* The entry is taken out and the tree written.
RemoveEntry(s) ==
    LET h == session[s]
        f == Top(s)
        old == At(h.mem.ents, f.path)
        tree == [h.mem EXCEPT !.ents = @ \ old]
        done == Len(h.frames) = 1
    IN  /\ h.at = "delete" /\ f.at = "remove" /\ MayRemove(s)
        /\ \/ /\ Written(s)
              /\ store' = Text(tree)
              /\ session' = [session EXCEPT ![s] =
                    IF done THEN Idle
                    ELSE [h EXCEPT !.mem = tree, !.text = Text(tree), !.frames = Front(@)]]
              /\ kept' = kept \ Under(h.path)
              /\ answer' = IF done THEN [answer EXCEPT ![s] = DeleteAnswer(s)] ELSE answer
              /\ gone' = gone \cup {e.id : e \in old}
              /\ UNCHANGED <<contents, requests, faults, cut>>
           \/ /\ ~Written(s)
              /\ session' = [SetTop(s, <<Frame(f.path, f.left - 1, TRUE)>>)
                                EXCEPT ![s].at = "reload"]
              /\ UNCHANGED <<store, contents, answer, requests, faults, kept, gone, cut>>

------------------------------------------------------------------------------
(* What goes wrong outside.                                                *)

\* The frontend dies: there is no answer.
CutOff(s) ==
    /\ Busy(s) /\ faults < MaxFaults
    /\ End(s, "none")
    /\ faults' = faults + 1 /\ UNCHANGED <<contents, requests>>

\* The next command fails, and ReadMetadata after it.  resp.Clear() has left the
\* status at its default, SUCCESS; only a deletion and an upload that could not
\* be stored set it to FAIL.  (A command that is done and whose answer is lost:
\* the CPUT or the PUTS of an upload.  The other lost answers are those of a last
\* CPUT, with the effect and but for a deletion the answer of a CPUT that went well.)
LinkBreaks(s) ==
    /\ "link" \in Hazards /\ Busy(s) /\ ~Hopeless(s) /\ faults < MaxFaults
    /\ \E status \in IF session[s].frames # <<>> THEN {"FAIL"}
                     ELSE IF session[s].at = "content" THEN {"FAIL", "SUCCESS"}
                     ELSE {"SUCCESS"} : End(s, status)
    /\ contents' \in {contents} \cup
          (IF session[s].at = "content" /\ answer'[s] = "FAIL"
           THEN {contents \cup {session[s].id}} ELSE {})
    /\ faults' = faults + 1 /\ UNCHANGED requests

\* A KILLed primary drops the command without a reply, and kv_trans waits without
\* a limit.  If it was killed while it ran the command, the table is as LinkBreaks
\* and CutOff leave it.
Silent(s) ==
    /\ "silent" \in Hazards /\ Busy(s) /\ ~Hopeless(s)
    /\ session' = [session EXCEPT ![s].at = "hung"]
    /\ UNCHANGED <<store, contents, answer, requests, faults, kept, gone, cut>>

------------------------------------------------------------------------------
Init ==
    /\ store \in Start
    /\ contents = ListedFiles
    /\ session = [s \in Sessions |-> Idle]
    /\ answer = [s \in Sessions |-> "none"]
    /\ requests = 0 /\ faults = 0
    /\ kept = Listed /\ gone = {} /\ cut = {}

Handle(s) ==
    \/ Create(s) \/ PutContent(s) \/ Rename(s) \/ Move(s) \/ Reload(s) \/ GiveUp(s)
    \/ Descend(s) \/ DeleteContent(s) \/ RemoveEntry(s)

Next == \E s \in Sessions :
    Begin(s) \/ Handle(s) \/ PutRefused(s) \/ CutOff(s) \/ LinkBreaks(s) \/ Silent(s)

Spec == Init /\ [][Next]_vars

\* A frontend runs the handler of a request on while its commands are answered.
FairSpec == Spec /\ \A s \in Sessions : WF_vars(Handle(s))

------------------------------------------------------------------------------
(* Properties.                                                             *)

TypeOK ==
    /\ store \in Metadata
    /\ contents \in SUBSET (2 .. MaxId)
    /\ \A s \in Sessions :
        /\ session[s].at \in {"idle", "try", "reload", "content", "delete", "hung"}
        /\ answer[s] \in {"none", "SUCCESS", "FAIL"}
        /\ session[s].left \in -1 .. MaxAttempt
        /\ session[s].mem \in Metadata /\ session[s].text \in Metadata
        /\ \A f \in Range(session[s].frames) :
              f.path \in Seq(Names) /\ f.left \in -1 .. MaxAttempt /\ f.kids \subseteq Names
    /\ kept \cup gone \cup cut \subseteq 2 .. MaxId
    /\ requests \in 0 .. MaxRequests /\ faults \in 0 .. MaxFaults

(***************************************************************************)
(* What is stored is a tree: every id has one place in it, in a folder     *)
(* that is reachable from the root, no two entries of a folder share a     *)
(* name, and no id is above the latest, so that the next id is new.        *)
(***************************************************************************)
TreeIntact ==
    /\ \A e, f \in store.ents : e # f => e.id # f.id /\ <<e.dir, e.name>> # <<f.dir, f.name>>
    /\ \A e \in store.ents : e.dir \in Folders(store.ents, Root) /\ e.id \in 2 .. store.latest

(***************************************************************************)
(* A file or folder whose creation came to its end (its CPUT and, for a    *)
(* file, the PUTS after it went well) stays in the tree, and a file keeps  *)
(* its content, until someone deletes it or a folder it is in: no retry,   *)
(* rename or move of another request loses it.                             *)
(***************************************************************************)
UploadsKept ==
    \A i \in kept : i \in Listed /\ (i \in ListedFiles => i \in contents)

(***************************************************************************)
(* Contents and entries match: a content belongs to a file in the tree,    *)
(* and a file in the tree has a content unless a request is at work on     *)
(* it, or stopped or hangs since it was.                                   *)
(***************************************************************************)
ContentMatches ==
    /\ contents \subseteq ListedFiles
    /\ ListedFiles \subseteq contents \cup cut \cup UNION {Touched(s) : s \in Sessions}

(***************************************************************************)
(* What was deleted does not come back, whatever copies of the tree other  *)
(* requests still hold: they hold nothing more after "reload state and     *)
(* try" again (HandleCreationAndQuery).  It fails under "overlap":         *)
(* ParseMetadataFile keeps the entries of the former copy, and the next    *)
(* CPUT writes them back.                                                  *)
(***************************************************************************)
DeletedGone == gone \cap Listed = {}

\* What a request is for, in a tree st and with contents cs.
Effect(st, cs, op, path, to) ==
    CASE op = "delete" -> ~Found(st.ents, path)
      [] op = "upload" -> \E e \in At(st.ents, path) : e.file /\ e.id \in cs
      [] OTHER         -> Found(st.ents, Target(op, path, to))

\* SUCCESS is the truth.
Truthful(s) ==
    Busy(s) /\ answer'[s] = "SUCCESS" =>
        Effect(store', contents', session[s].op, session[s].path, session[s].to)

(***************************************************************************)
(* A request that is answered with SUCCESS is done: the entry is where it  *)
(* wanted it (the file with its content), or gone, after whatever failed   *)
(* CPUTs, reloads and undone uploads came before, unless a connection to   *)
(* the table breaks at this very step: then HandleCreationAndQuery may     *)
(* answer with the default of the status, which is SUCCESS, and nothing is *)
(* written.                                                                *)
(***************************************************************************)
DoneUnlessBroken == [][faults' = faults => \A s \in Sessions : Truthful(s)]_vars

\* Without that exception: fails under "link".
SuccessMeansDone == [][\A s \in Sessions : Truthful(s)]_vars

(***************************************************************************)
(* Every request comes to its end, after any number of failed CPUTs,       *)
(* nested deletions and deletions that undo an upload: with an answer, or  *)
(* without one when the frontend dies; or it waits for a backend that      *)
(* never answers.  One that waits like that does not keep the others.      *)
(***************************************************************************)
RequestsEnd == \A s \in Sessions : []<>(session[s].at \in {"idle", "hung"})
==============================================================================
