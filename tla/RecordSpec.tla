------------------------------ MODULE RecordSpec ------------------------------
(***************************************************************************)
(* What the record storage of furi/core/record.c promises to its clients,  *)
(* without the dictionary, the counters and the event flags: a record is   *)
(* published and retracted, a user of it gets what is published, and it is *)
(* not retracted while it has users, the ones that still wait included.    *)
(***************************************************************************)
CONSTANTS
    Records,  \* names of records
    Handles,  \* uses of a record by some thread, from open to close
    Data,     \* the pointers records are created with
    NoRecord, \* a handle that is not in use
    NoData    \* the null pointer

VARIABLES
    val, \* what is published under a name
    use, \* the record a handle has asked for
    got  \* what it has received

vars == <<val, use, got>>

Init ==
    /\ val = [r \in Records |-> NoData]
    /\ use = [h \in Handles |-> NoRecord]
    /\ got = [h \in Handles |-> NoData]

\* A record is made available.
Publish(r, d) ==
    /\ val[r] = NoData
    /\ val' = [val EXCEPT ![r] = d]
    /\ UNCHANGED <<use, got>>

\* A record without users is withdrawn.
Retract(r) ==
    /\ \A h \in Handles : use[h] # r
    /\ val' = [val EXCEPT ![r] = NoData]
    /\ UNCHANGED <<use, got>>

\* A user asks for a record, published or not.
Ask(h, r) ==
    /\ use[h] = NoRecord
    /\ use' = [use EXCEPT ![h] = r]
    /\ UNCHANGED <<val, got>>

\* It receives what is published.
Receive(h) ==
    /\ use[h] \in Records
    /\ got[h] = NoData
    /\ val[use[h]] # NoData
    /\ got' = [got EXCEPT ![h] = val[use[h]]]
    /\ UNCHANGED <<val, use>>

\* It is done.
Leave(h) ==
    /\ got[h] # NoData
    /\ use' = [use EXCEPT ![h] = NoRecord]
    /\ got' = [got EXCEPT ![h] = NoData]
    /\ UNCHANGED val

Next ==
    \/ \E r \in Records : Retract(r) \/ \E d \in Data : Publish(r, d)
    \/ \E h \in Handles : \/ \E r \in Records : Ask(h, r)
                          \/ Receive(h) \/ Leave(h)

Spec == Init /\ [][Next]_vars
=============================================================================
