----------------------------- MODULE RecordProofs -----------------------------
(***************************************************************************)
(* Proofs about Record, for any records, users, threads and pointers: the  *)
(* entry that furi_record_open uses outside the mutex stays in the         *)
(* dictionary, the pointer it returns stays valid, and the storage         *)
(* implements RecordSpec.                                                  *)
(***************************************************************************)
EXTENDS Record, FiniteSetTheorems, TLAPS

\* Who uses r, by the function f from handles to records.
Users(f, r) == {h \in Handles : f[h] = r}

(***************************************************************************)
(* What the code keeps between the dictionary's fields and about a handle  *)
(* at each of its steps.                                                   *)
(***************************************************************************)
EntryOK ==
    \A r \in Records : /\ ready[r] <=> data[r] # NoData
                       /\ data[r] # NoData => r \in known

HandleOK ==
    \A h \in Handles : /\ pc[h] = "closed" <=> rec[h] = NoRecord
                       /\ pc[h] = "open" <=> got[h] # NoData
                       /\ pc[h] \in {"read", "open"} => data[rec[h]] # NoData

IndInv ==
    /\ TypeOK /\ HoldersCounted /\ EntryIsValid /\ DataIsStable /\ NoOrphans
    /\ EntryOK /\ HandleOK

-----------------------------------------------------------------------------
\* The users of a record are finitely many.
LEMMA UsersFinite ==
    ASSUME NEW f, NEW r
    PROVE  IsFiniteSet(Users(f, r)) /\ Cardinality(Users(f, r)) \in Nat
<1>1. IsFiniteSet(Handles) BY RecordAssumption
<1>2. Users(f, r) \subseteq Handles BY DEF Users
<1>3. IsFiniteSet(Users(f, r)) BY <1>1, <1>2, FS_Subset
<1> QED BY <1>3, FS_CardinalityType

\* A handle that asks for a record is one user more of it, and of no other.
LEMMA OneMore ==
    ASSUME NEW f \in [Handles -> Records \cup {NoRecord}],
           NEW h \in Handles, f[h] = NoRecord,
           NEW r \in Records, NEW q \in Records
    PROVE  Cardinality(Users([f EXCEPT ![h] = r], q)) =
               IF q = r THEN Cardinality(Users(f, q)) + 1
                        ELSE Cardinality(Users(f, q))
<1> DEFINE g == [f EXCEPT ![h] = r]
<1>1. r # NoRecord /\ q # NoRecord BY RecordAssumption
<1>2. CASE q = r
  <2>1. Users(g, q) = Users(f, q) \cup {h} BY <1>1, <1>2 DEF Users
  <2>2. h \notin Users(f, q) BY <1>1 DEF Users
  <2>3. IsFiniteSet(Users(f, q)) BY UsersFinite
  <2>4. Cardinality(Users(f, q) \cup {h}) = Cardinality(Users(f, q)) + 1
        BY <2>2, <2>3, FS_AddElement
  <2> QED BY <1>2, <2>1, <2>4
<1>3. CASE q # r
  <2>1. Users(g, q) = Users(f, q) BY <1>1, <1>3 DEF Users
  <2> QED BY <1>3, <2>1
<1> QED BY <1>2, <1>3

\* A handle that is closed is one user less of its record, and of no other.
LEMMA OneLess ==
    ASSUME NEW f \in [Handles -> Records \cup {NoRecord}],
           NEW h \in Handles, f[h] \in Records, NEW q \in Records
    PROVE  /\ Cardinality(Users(f, f[h])) > 0
           /\ Cardinality(Users([f EXCEPT ![h] = NoRecord], q)) =
                  IF q = f[h] THEN Cardinality(Users(f, q)) - 1
                              ELSE Cardinality(Users(f, q))
<1> DEFINE g == [f EXCEPT ![h] = NoRecord]
<1>1. q # NoRecord /\ f[h] # NoRecord BY RecordAssumption
<1>2. IsFiniteSet(Users(f, f[h])) /\ Cardinality(Users(f, f[h])) \in Nat
      BY UsersFinite
<1>3. h \in Users(f, f[h]) BY DEF Users
<1>4. Cardinality(Users(f, f[h])) > 0
  <2>1. Cardinality(Users(f, f[h])) # 0 BY <1>2, <1>3, FS_EmptySet
  <2> QED BY <2>1, <1>2
<1>5. CASE q = f[h]
  <2>1. Users(g, q) = Users(f, q) \ {h} BY <1>1, <1>5 DEF Users
  <2>2. Cardinality(Users(f, q) \ {h}) = Cardinality(Users(f, q)) - 1
        BY <1>2, <1>3, <1>5, FS_RemoveElement
  <2> QED BY <1>4, <1>5, <2>1, <2>2
<1>6. CASE q # f[h]
  <2>1. Users(g, q) = Users(f, q) BY <1>1, <1>6 DEF Users
  <2> QED BY <1>4, <1>6, <2>1
<1> QED BY <1>5, <1>6

-----------------------------------------------------------------------------
\* The empty dictionary satisfies the invariant.
LEMMA InitInv == Init => IndInv
<1> SUFFICES ASSUME Init PROVE IndInv OBVIOUS
<1>1. TypeOK BY DEF Init, TypeOK
<1>2. HoldersCounted
  <2> SUFFICES ASSUME NEW r \in Records
               PROVE  holders[r] = Cardinality({h \in Handles : rec[h] = r})
      BY DEF HoldersCounted
  <2>1. {h \in Handles : rec[h] = r} = {} BY RecordAssumption DEF Init
  <2>2. Cardinality({}) = 0 BY FS_EmptySet
  <2> QED BY <2>1, <2>2 DEF Init
<1>3. EntryIsValid /\ DataIsStable /\ NoOrphans
      BY DEF Init, EntryIsValid, DataIsStable, NoOrphans
<1>4. EntryOK /\ HandleOK BY DEF Init, EntryOK, HandleOK
<1> QED BY <1>1, <1>2, <1>3, <1>4 DEF IndInv

\* The counters follow the handles: when neither changes, ...
LEMMA CountedSame ==
    ASSUME HoldersCounted, UNCHANGED <<holders, rec>>
    PROVE  HoldersCounted'
BY DEF HoldersCounted

\* ... when a handle asks for a record ...
LEMMA CountedOpen ==
    ASSUME IndInv, NEW h \in Handles, NEW r \in Records, Open(h, r)
    PROVE  HoldersCounted'
<1> SUFFICES ASSUME NEW q \in Records
             PROVE  holders'[q] = Cardinality(Users(rec', q))
    BY DEF HoldersCounted, Users
<1>1. holders[q] = Cardinality(Users(rec, q))
      BY DEF IndInv, HoldersCounted, Users
<1>2. rec \in [Handles -> Records \cup {NoRecord}] BY DEF IndInv, TypeOK
<1>3. rec[h] = NoRecord BY DEF IndInv, HandleOK, Open
<1>4. rec' = [rec EXCEPT ![h] = r] BY DEF Open
<1>5. Cardinality(Users(rec', q)) =
          IF q = r THEN Cardinality(Users(rec, q)) + 1
                   ELSE Cardinality(Users(rec, q))
      BY <1>2, <1>3, <1>4, OneMore
<1>6. holders'[q] = IF q = r THEN holders[q] + 1 ELSE holders[q]
      BY DEF Open, IndInv, TypeOK
<1> QED BY <1>1, <1>5, <1>6

\* ... and when it is closed, which never takes a counter below zero.
LEMMA CountedClose ==
    ASSUME IndInv, NEW h \in Handles, Close(h)
    PROVE  HoldersCounted' /\ holders[rec[h]] > 0
<1>1. rec \in [Handles -> Records \cup {NoRecord}] BY DEF IndInv, TypeOK
<1>2. rec[h] \in Records BY <1>1 DEF IndInv, HandleOK, Close
<1>3. rec' = [rec EXCEPT ![h] = NoRecord] BY DEF Close
<1>4. \A q \in Records : holders[q] = Cardinality(Users(rec, q))
      BY DEF IndInv, HoldersCounted, Users
<1>5. holders[rec[h]] > 0 BY <1>1, <1>2, <1>4, OneLess
<1>6. ASSUME NEW q \in Records
      PROVE  holders'[q] = Cardinality(Users(rec', q))
  <2>1. Cardinality(Users(rec', q)) =
            IF q = rec[h] THEN Cardinality(Users(rec, q)) - 1
                          ELSE Cardinality(Users(rec, q))
        BY <1>1, <1>2, <1>3, OneLess
  <2>2. holders'[q] = IF q = rec[h] THEN holders[q] - 1 ELSE holders[q]
        BY <1>2 DEF Close, IndInv, TypeOK
  <2> QED BY <1>4, <2>1, <2>2
<1>7. HoldersCounted' BY <1>6 DEF HoldersCounted, Users
<1> QED BY <1>5, <1>7

\* A record whose counter is zero has no user.
LEMMA NoUsers ==
    ASSUME IndInv, NEW r \in Records, holders[r] = 0, NEW h \in Handles
    PROVE  rec[h] # r
<1> SUFFICES ASSUME rec[h] = r PROVE FALSE OBVIOUS
<1>1. rec \in [Handles -> Records \cup {NoRecord}] BY DEF IndInv, TypeOK
<1>2. Cardinality(Users(rec, r)) > 0 BY <1>1, OneLess
<1>3. holders[r] = Cardinality(Users(rec, r))
      BY DEF IndInv, HoldersCounted, Users
<1> QED BY <1>2, <1>3

-----------------------------------------------------------------------------
\* Each step keeps the invariant.
LEMMA StepInv == IndInv /\ [Next]_vars => IndInv'
<1> SUFFICES ASSUME IndInv, [Next]_vars PROVE IndInv' OBVIOUS
<1> USE DEF IndInv
<1>1. ASSUME NEW r \in Records, NEW d \in Data,
             Create(r, d)
      PROVE  IndInv'
  <2>1. TypeOK' BY <1>1 DEF TypeOK, Create, GetOrCreate
  <2>2. HoldersCounted' BY <1>1, CountedSame DEF Create
  <2>3. EntryIsValid' BY <1>1 DEF EntryIsValid, Create, GetOrCreate
  <2>4. d # NoData BY RecordAssumption
  <2>5. DataIsStable' BY <1>1, <2>4 DEF DataIsStable, Create, TypeOK, HandleOK
  <2>6. NoOrphans' BY <1>1, <2>4 DEF NoOrphans, Create, GetOrCreate, TypeOK
  <2>7. EntryOK'
        BY <1>1, <2>4 DEF EntryOK, Create, GetOrCreate, TypeOK
  <2>8. HandleOK' BY <1>1, <2>4 DEF HandleOK, Create, TypeOK
  <2> QED BY <2>1, <2>2, <2>3, <2>5, <2>6, <2>7, <2>8
<1>2. ASSUME NEW r \in Records, Destroy(r)
      PROVE  IndInv'
  <2>1. TypeOK' BY <1>2 DEF TypeOK, Destroy, Erase
  <2>2. HoldersCounted' BY <1>2, CountedSame DEF Destroy
  <2>3. \A h \in Handles : rec[h] # r BY <1>2, NoUsers DEF Destroy
  <2>4. EntryIsValid' BY <1>2, <2>3 DEF EntryIsValid, Destroy, Erase
  <2>5. DataIsStable'
        BY <1>2, <2>3 DEF DataIsStable, Destroy, Erase, TypeOK, EntryIsValid
  <2>6. NoOrphans' BY <1>2 DEF NoOrphans, Destroy, Erase, TypeOK
  <2>7. EntryOK' BY <1>2 DEF EntryOK, Destroy, Erase, TypeOK
  <2>8. HandleOK'
        BY <1>2, <2>3 DEF HandleOK, Destroy, Erase, TypeOK, EntryIsValid
  <2> QED BY <2>1, <2>2, <2>4, <2>5, <2>6, <2>7, <2>8
<1>3. ASSUME NEW h \in Handles, NEW r \in Records, Open(h, r)
      PROVE  IndInv'
  <2>0. r # NoRecord BY RecordAssumption
  <2>1. TypeOK' BY <1>3 DEF TypeOK, Open, GetOrCreate
  <2>2. HoldersCounted' BY <1>3, CountedOpen
  <2>3. EntryIsValid'
        BY <1>3 DEF EntryIsValid, Open, GetOrCreate, TypeOK
  <2>4. DataIsStable' BY <1>3 DEF DataIsStable, Open, TypeOK
  <2>5. NoOrphans' BY <1>3 DEF NoOrphans, Open, GetOrCreate, TypeOK
  <2>6. EntryOK' BY <1>3 DEF EntryOK, Open, GetOrCreate, TypeOK
  <2>7. HandleOK' BY <1>3, <2>0 DEF HandleOK, Open, TypeOK
  <2> QED BY <2>1, <2>2, <2>3, <2>4, <2>5, <2>6, <2>7
<1>4. ASSUME NEW h \in Handles, OpenReady(h) PROVE IndInv'
  <2>0. rec[h] \in Records BY <1>4 DEF OpenReady, HandleOK, TypeOK
  <2>1. TypeOK' BY <1>4 DEF TypeOK, OpenReady, dictVars
  <2>2. HoldersCounted' BY <1>4, CountedSame DEF OpenReady, dictVars
  <2>3. EntryIsValid' BY <1>4 DEF EntryIsValid, OpenReady, dictVars, TypeOK
  <2>4. DataIsStable' BY <1>4 DEF DataIsStable, OpenReady, dictVars, TypeOK
  <2>5. NoOrphans' BY <1>4 DEF NoOrphans, OpenReady, dictVars
  <2>6. EntryOK' BY <1>4 DEF EntryOK, OpenReady, dictVars
  <2>7. HandleOK'
        BY <1>4, <2>0 DEF HandleOK, EntryOK, OpenReady, dictVars, TypeOK
  <2> QED BY <2>1, <2>2, <2>3, <2>4, <2>5, <2>6, <2>7
<1>5. ASSUME NEW h \in Handles, OpenReturn(h) PROVE IndInv'
  <2>0. rec[h] \in Records BY <1>5 DEF OpenReturn, HandleOK, TypeOK
  <2>1. TypeOK' BY <1>5, <2>0 DEF TypeOK, OpenReturn, dictVars
  <2>2. HoldersCounted' BY <1>5, CountedSame DEF OpenReturn, dictVars
  <2>3. EntryIsValid' BY <1>5 DEF EntryIsValid, OpenReturn, dictVars, TypeOK
  <2>4. DataIsStable'
        BY <1>5 DEF DataIsStable, HandleOK, OpenReturn, dictVars, TypeOK
  <2>5. NoOrphans' BY <1>5 DEF NoOrphans, OpenReturn, dictVars
  <2>6. EntryOK' BY <1>5 DEF EntryOK, OpenReturn, dictVars
  <2>7. HandleOK' BY <1>5 DEF HandleOK, OpenReturn, dictVars, TypeOK
  <2> QED BY <2>1, <2>2, <2>3, <2>4, <2>5, <2>6, <2>7
<1>6. ASSUME NEW h \in Handles, Close(h) PROVE IndInv'
  <2>0. rec[h] \in Records BY <1>6 DEF Close, HandleOK, TypeOK
  <2>a. HoldersCounted' /\ holders[rec[h]] > 0 BY <1>6, CountedClose
  <2>1. TypeOK' BY <1>6, <2>0, <2>a DEF TypeOK, Close
  <2>3. EntryIsValid' BY <1>6 DEF EntryIsValid, Close, TypeOK
  <2>4. DataIsStable' BY <1>6 DEF DataIsStable, Close, TypeOK
  <2>5. NoOrphans'
        BY <1>6, <2>0 DEF NoOrphans, Close, TypeOK, HandleOK
  <2>6. EntryOK' BY <1>6 DEF EntryOK, Close
  <2>7. HandleOK' BY <1>6 DEF HandleOK, Close, TypeOK
  <2> QED BY <2>a, <2>1, <2>3, <2>4, <2>5, <2>6, <2>7
<1>7. CASE UNCHANGED vars
  BY <1>7 DEF vars, TypeOK, HoldersCounted, EntryIsValid, DataIsStable,
              NoOrphans, EntryOK, HandleOK
<1> QED BY <1>1, <1>2, <1>3, <1>4, <1>5, <1>6, <1>7 DEF Next, OpenStep

\* So every reachable state satisfies it.
LEMMA Inductive == Spec => []IndInv
BY InitInv, StepInv, PTL DEF Spec

-----------------------------------------------------------------------------
(***************************************************************************)
(* The counters of record.c never go below zero, whatever the order of     *)
(* opens, closes, creations and destructions, and every field has its      *)
(* type.                                                                   *)
(***************************************************************************)
THEOREM TypeCorrect == Spec => []TypeOK
<1>1. IndInv => TypeOK BY DEF IndInv
<1> QED BY <1>1, Inductive, PTL

(***************************************************************************)
(* holders_count is the number of users from the first section of          *)
(* furi_record_open to furi_record_close.                                  *)
(***************************************************************************)
THEOREM CountersAreRight == Spec => []HoldersCounted
<1>1. IndInv => HoldersCounted BY DEF IndInv
<1> QED BY <1>1, Inductive, PTL

(***************************************************************************)
(* furi_record_open may use its reference outside the mutex: the entry is  *)
(* not erased before furi_record_close.                                    *)
(***************************************************************************)
THEOREM EntryStays == Spec => []EntryIsValid
<1>1. IndInv => EntryIsValid BY DEF IndInv
<1> QED BY <1>1, Inductive, PTL

(***************************************************************************)
(* The pointer from furi_record_open is not null and stays the record's    *)
(* until furi_record_close.                                                *)
(***************************************************************************)
THEOREM PointerStays == Spec => []DataIsStable
<1>1. IndInv => DataIsStable BY DEF IndInv
<1> QED BY <1>1, Inductive, PTL

(***************************************************************************)
(* Every entry of the dictionary is a created record or has a user.        *)
(***************************************************************************)
THEOREM NothingLeftBehind == Spec => []NoOrphans
<1>1. IndInv => NoOrphans BY DEF IndInv
<1> QED BY <1>1, Inductive, PTL

-----------------------------------------------------------------------------
\* Each step of the storage is a step of RecordSpec, or none.
LEMMA StepMaps == IndInv /\ [Next]_vars => [Abstract!Next]_(Abstract!vars)
<1> SUFFICES ASSUME IndInv, [Next]_vars
             PROVE  Abstract!Next \/ UNCHANGED Abstract!vars
    BY DEF Abstract!vars
<1> USE DEF IndInv
<1>1. ASSUME NEW r \in Records, NEW d \in Data,
             Create(r, d)
      PROVE  Abstract!Publish(r, d)
  BY <1>1 DEF Create, Abstract!Publish
<1>2. ASSUME NEW r \in Records, Destroy(r)
      PROVE  Abstract!Retract(r)
  <2>1. \A h \in Handles : rec[h] # r BY <1>2, NoUsers DEF Destroy
  <2> QED BY <1>2, <2>1 DEF Destroy, Erase, Abstract!Retract
<1>3. ASSUME NEW h \in Handles, NEW r \in Records, Open(h, r)
      PROVE  Abstract!Ask(h, r)
  BY <1>3 DEF Open, HandleOK, Abstract!Ask
<1>4. ASSUME NEW h \in Handles, OpenReady(h) PROVE UNCHANGED Abstract!vars
  BY <1>4 DEF OpenReady, dictVars, Abstract!vars
<1>5. ASSUME NEW h \in Handles, OpenReturn(h) PROVE Abstract!Receive(h)
  <2>1. pc[h] = "read" BY <1>5 DEF OpenReturn
  <2>2. rec[h] \in Records BY <2>1 DEF HandleOK, TypeOK
  <2>3. got[h] = NoData /\ data[rec[h]] # NoData BY <2>1 DEF HandleOK
  <2> QED BY <1>5, <2>2, <2>3 DEF OpenReturn, dictVars, Abstract!Receive
<1>6. ASSUME NEW h \in Handles, Close(h) PROVE Abstract!Leave(h)
  BY <1>6 DEF Close, HandleOK, Abstract!Leave
<1>7. CASE UNCHANGED vars BY <1>7 DEF vars, Abstract!vars
<1> QED BY <1>1, <1>2, <1>3, <1>4, <1>5, <1>6, <1>7
        DEF Next, OpenStep, Abstract!Next

(***************************************************************************)
(* The record storage implements RecordSpec: a record is withdrawn only    *)
(* when nobody uses it or waits for it, and a user gets what is published. *)
(***************************************************************************)
THEOREM StorageRefines == Spec => Implements
<1>1. Init => Abstract!Init BY DEF Init, Abstract!Init
<1>2. Spec => [][Abstract!Next]_(Abstract!vars)
      BY StepMaps, Inductive, PTL DEF Spec
<1> QED BY <1>1, <1>2, PTL DEF Spec, Implements, Abstract!Spec
=============================================================================
