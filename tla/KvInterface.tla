---------------------------- MODULE KvInterface ------------------------------
(***************************************************************************)
(* Vocabulary of common/kv_interface.h shared by the models of the         *)
(* backend: rows and columns of the key-value store, values, and the       *)
(* answers (kv_ret) that a client reads.  The empty string is both "no     *)
(* value" and what a deletion leaves behind, as for every caller of the    *)
(* interface.                                                              *)
(***************************************************************************)
CONSTANTS Users,   \* rows: the "usr" field of a kv_command
          Keys,    \* columns: the "key" field
          Pwd,     \* the column "pwd", which a sign-up writes first
          Values,  \* non-empty values
          Empty,   \* the empty string
          NoVal    \* "no entry", in a cache or on the disk

ASSUME PwdAssumption == Pwd \in Keys
ASSUME EmptyAssumption == Empty \notin Values
ASSUME NoValAssumption == NoVal \notin Values \cup {Empty}

Item == Users \X Keys

UserOf(i) == i[1]
KeyOf(i)  == i[2]

Val == Values \cup {Empty}
MaybeVal == Val \cup {NoVal}

Status == {"FINISHED", "USER_ERROR", "KEY_ERROR", "VALUE_ERROR", "SEQ_ERROR"}

\* kv_ret of a command about one cell; kv_ret of ALL; no answer at all.
Answer(com, i, status, value) ==
    [com |-> com, item |-> i, status |-> status, value |-> value]
AnswerAll(u, status, kvs) ==
    [com |-> "ALL", usr |-> u, status |-> status, kvs |-> kvs]
NoReply == [com |-> "NONE"]

Reply == {NoReply}
    \cup [com : {"PUTS", "CPUT", "DELE", "GETS"}, item : Item,
          status : Status, value : Val]
    \cup [com : {"ALL"}, usr : Users, status : {"FINISHED", "USER_ERROR"},
          kvs : SUBSET (Keys \X Val)]

\* The non-empty cells of row u, as <<key, value>> pairs.
Row(table, u) ==
    {<<k, table[<<u, k>>]>> : k \in {c \in Keys : table[<<u, c>>] # Empty}}
==============================================================================
