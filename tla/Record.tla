-------------------------------- MODULE Record --------------------------------
(***************************************************************************)
(* The record storage (furi/core/record.c): a dictionary from names to a   *)
(* pointer, an event flag and a counter of holders, guarded by one mutex.  *)
(* Each section under the mutex is one step.  furi_record_open waits for   *)
(* the event flag and reads the pointer outside of it, through a reference *)
(* to the dictionary's entry.                                              *)
(*                                                                         *)
(* A handle is one use of a record by some thread, from its open to its    *)
(* close; a thread with several records open has several handles.          *)
(***************************************************************************)
EXTENDS Naturals, FiniteSets

CONSTANTS
    Records,  \* names
    Handles,  \* uses of a record, from open to close
    Data,     \* the pointers records are created with
    NoRecord, \* a handle that is not in use
    NoData    \* the null pointer

ASSUME RecordAssumption ==
    /\ NoRecord \notin Records
    /\ NoData \notin Data
    /\ IsFiniteSet(Handles)

VARIABLES
    known,   \* the names in the dictionary
    data,    \* FuriRecordData.data
    ready,   \* FURI_RECORD_FLAG_READY in FuriRecordData.flags
    holders, \* FuriRecordData.holders_count
    pc,      \* where the open of a handle is
    rec,     \* its record
    got      \* what furi_record_open returned

dictVars == <<known, data, ready, holders>>
vars == <<known, data, ready, holders, pc, rec, got>>

Init ==
    /\ known = {}
    /\ data = [r \in Records |-> NoData]
    /\ ready = [r \in Records |-> FALSE]
    /\ holders = [r \in Records |-> 0]
    /\ pc = [h \in Handles |-> "closed"]
    /\ rec = [h \in Handles |-> NoRecord]
    /\ got = [h \in Handles |-> NoData]

-----------------------------------------------------------------------------
\* furi_record_data_get_or_create: an entry without data and holders.
GetOrCreate(r) == known' = known \cup {r}

\* furi_record_create.  (Creating a record twice is a failed furi_check.)
Create(r, d) ==
    /\ data[r] = NoData
    /\ GetOrCreate(r)
    /\ data' = [data EXCEPT ![r] = d]
    /\ ready' = [ready EXCEPT ![r] = TRUE]
    /\ UNCHANGED <<holders, pc, rec, got>>

\* furi_record_erase.
Erase(r) ==
    /\ known' = known \ {r}
    /\ data' = [data EXCEPT ![r] = NoData]
    /\ ready' = [ready EXCEPT ![r] = FALSE]

\* Mutant: the holders are not asked.
DestroyHeld(r) ==
    /\ r \in known
    /\ Erase(r)
    /\ UNCHANGED <<holders, pc, rec, got>>

\* furi_record_destroy, by any thread.  It fails while there are holders.
Destroy(r) ==
    /\ r \in known
    /\ holders[r] = 0
    /\ Erase(r)
    /\ UNCHANGED <<holders, pc, rec, got>>

\* furi_record_open: the section under the mutex.
Open(h, r) ==
    /\ pc[h] = "closed"
    /\ GetOrCreate(r)
    /\ holders' = [holders EXCEPT ![r] = @ + 1]
    /\ pc' = [pc EXCEPT ![h] = "wait"]
    /\ rec' = [rec EXCEPT ![h] = r]
    /\ UNCHANGED <<data, ready, got>>

\* Mutant: the wait clears the flag.
OpenReadyClears(h) ==
    /\ pc[h] = "wait"
    /\ ready[rec[h]]
    /\ ready' = [ready EXCEPT ![rec[h]] = FALSE]
    /\ pc' = [pc EXCEPT ![h] = "read"]
    /\ UNCHANGED <<known, data, holders, rec, got>>

\* ... furi_event_flag_wait without clearing the flag ...
OpenReady(h) ==
    /\ pc[h] = "wait"
    /\ ready[rec[h]]
    /\ pc' = [pc EXCEPT ![h] = "read"]
    /\ UNCHANGED <<dictVars, rec, got>>

\* ... and the pointer is read and returned.
OpenReturn(h) ==
    /\ pc[h] = "read"
    /\ got' = [got EXCEPT ![h] = data[rec[h]]]
    /\ pc' = [pc EXCEPT ![h] = "open"]
    /\ UNCHANGED <<dictVars, rec>>

\* furi_record_close.
Close(h) ==
    /\ pc[h] = "open"
    /\ holders' = [holders EXCEPT ![rec[h]] = @ - 1]
    /\ pc' = [pc EXCEPT ![h] = "closed"]
    /\ rec' = [rec EXCEPT ![h] = NoRecord]
    /\ got' = [got EXCEPT ![h] = NoData]
    /\ UNCHANGED <<known, data, ready>>

-----------------------------------------------------------------------------
OpenStep(h) == OpenReady(h) \/ OpenReturn(h)

Next ==
    \/ \E r \in Records : Destroy(r) \/ \E d \in Data : Create(r, d)
    \/ \E h \in Handles : \/ \E r \in Records : Open(h, r)
                          \/ OpenStep(h) \/ Close(h)

Spec == Init /\ [][Next]_vars

\* A thread whose wait is over is scheduled.
FairSpec == Spec /\ \A h \in Handles : WF_vars(OpenStep(h))

-----------------------------------------------------------------------------
\* Properties.

(***************************************************************************)
(* The type invariant.                                                     *)
(***************************************************************************)
TypeOK ==
    /\ known \subseteq Records
    /\ data \in [Records -> Data \cup {NoData}]
    /\ ready \in [Records -> BOOLEAN]
    /\ holders \in [Records -> Nat]
    /\ pc \in [Handles -> {"closed", "wait", "read", "open"}]
    /\ rec \in [Handles -> Records \cup {NoRecord}]
    /\ got \in [Handles -> Data \cup {NoData}]

(***************************************************************************)
(* The entry that furi_record_open refers to outside the mutex, while it   *)
(* waits and when it reads the pointer, is not erased from the dictionary  *)
(* before furi_record_close.                                               *)
(***************************************************************************)
EntryIsValid ==
    \A h \in Handles :
        pc[h] # "closed" => rec[h] \in known

(***************************************************************************)
(* The counter of a record, which is all that furi_record_destroy asks,    *)
(* counts each use of it, from the first step of furi_record_open on.      *)
(***************************************************************************)
HoldersCounted ==
    \A r \in Records : holders[r] = Cardinality({h \in Handles : rec[h] = r})

(***************************************************************************)
(* What furi_record_open returned is not null and stays what the record    *)
(* holds until furi_record_close.                                          *)
(***************************************************************************)
DataIsStable ==
    \A h \in Handles :
        pc[h] = "open" => got[h] # NoData /\ got[h] = data[rec[h]]

(***************************************************************************)
(* No entry is left behind: an entry in the dictionary has been created or *)
(* is held, so furi_record_destroy gets rid of all of them.                *)
(***************************************************************************)
NoOrphans == \A r \in known : data[r] # NoData \/ holders[r] > 0

(***************************************************************************)
(* Whoever waits for a record that is created gets it, although it was     *)
(* asked for before.                                                       *)
(***************************************************************************)
OpenReturns ==
    \A h \in Handles, r \in Records :
        (rec[h] = r /\ data[r] # NoData) ~> (rec[h] # r \/ pc[h] = "open")

(***************************************************************************)
(* The storage does what RecordSpec promises.                              *)
(***************************************************************************)
Abstract == INSTANCE RecordSpec WITH val <- data, use <- rec
Implements == Abstract!Spec
=============================================================================
