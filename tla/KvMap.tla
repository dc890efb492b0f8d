-------------------------------- MODULE KvMap --------------------------------
(***************************************************************************)
(* What one backend promises its clients (common/kv_interface.h): a table  *)
(* of values by row (user) and column (key) that every answered command    *)
(* reads or changes atomically, and that survives the crash or the restart *)
(* of the process that serves it.                                          *)
(***************************************************************************)
EXTENDS KvInterface

VARIABLES kv,      \* the table
          reply    \* the answer to the last command, if it was answered

vars == <<kv, reply>>

Init == /\ kv = [i \in Item |-> Empty]
        /\ reply = NoReply

(***************************************************************************)
(* PUT(usr, key, value): stores "value" in column "key" of row "usr".  The *)
(* answer is lost when the server dies after it made the change durable.   *)
(***************************************************************************)
Put(i, v) ==
    /\ kv' = [kv EXCEPT ![i] = v]
    /\ reply' \in {Answer("PUTS", i, "FINISHED", Empty), NoReply}

(* CPUT(usr, key, value1, value2): stores value2 only if the current value *)
(* is value1.                                                              *)
Cput(i, prev, new) ==
    \/ /\ kv[i] = prev
       /\ kv' = [kv EXCEPT ![i] = new]
       /\ reply' \in {Answer("CPUT", i, "FINISHED", Empty), NoReply}
    \/ /\ kv[i] # prev
       /\ kv' = kv
       /\ reply' = Answer("CPUT", i, "VALUE_ERROR", Empty)

(* DELETE(usr, key): deletes the value.                                    *)
Dele(i) ==
    /\ kv' = [kv EXCEPT ![i] = Empty]
    /\ reply' \in {Answer("DELE", i, "FINISHED", Empty), NoReply}

(* GET(usr, key): the value; an error is allowed only for an empty cell.   *)
Get(i) ==
    /\ kv' = kv
    /\ \/ reply' = Answer("GETS", i, "FINISHED", kv[i])
       \/ /\ kv[i] = Empty
          /\ \E s \in {"USER_ERROR", "KEY_ERROR"} :
                reply' = Answer("GETS", i, s, Empty)

(* ALL(usr): the row; an error is allowed only for an empty row.           *)
All(u) ==
    /\ kv' = kv
    /\ \/ reply' = AnswerAll(u, "FINISHED", Row(kv, u))
       \/ /\ Row(kv, u) = {}
          /\ reply' = AnswerAll(u, "USER_ERROR", {})

\* Anything that is not a client's command: the table stays as it is.
Silent == kv' = kv /\ reply' = NoReply

Next ==
    \/ \E i \in Item, v \in Val : Put(i, v)
    \/ \E i \in Item, prev, new \in Val : Cput(i, prev, new)
    \/ \E i \in Item : Dele(i) \/ Get(i)
    \/ \E u \in Users : All(u)
    \/ Silent

Spec == Init /\ [][Next]_vars
==============================================================================
