---------------------------- MODULE RecordStore ----------------------------
(***************************************************************************)
(* What fds promises of the records in flash (fds.h): a record appears     *)
(* when a write or an update of it is being executed and goes only when    *)
(* its deletion is, by ID, by file or as the old copy of an update.        *)
(* Nothing else, in particular no garbage collection, no power failure and *)
(* no initialization, changes which records there are.                     *)
(***************************************************************************)
EXTENDS Naturals

CONSTANTS Ids, Files

VARIABLES
    live,      \* the records in the store
    executing  \* the operation being executed: its code, ID, file and old ID

vars == <<live, executing>>

Records == [id : Ids, file : Files]

Init == live = {} /\ executing.code = "none"

\* The operation being executed changes.
Turn == UNCHANGED live

\* A write or an update is finalized.
Appear ==
    /\ executing.code \in {"write", "update"}
    /\ \E r \in Records :
        /\ r.id = executing.id /\ r.file = executing.file
        /\ \A s \in live : s.id # r.id
        /\ live' = live \cup {r}

\* One record is flagged dirty.
Go ==
    \E r \in live :
        /\ \/ executing.code = "delete" /\ r.id = executing.id
           \/ executing.code = "deleteFile" /\ r.file = executing.file
           \/ executing.code = "update" /\ r.id = executing.old
        /\ live' = live \ {r}

Next == Turn \/ Appear \/ Go

Spec == Init /\ [][Next]_vars
=============================================================================
