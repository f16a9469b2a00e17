------------------------------ MODULE KeyProofs ------------------------------
(***************************************************************************)
(* Proofs about the way of a key.                                          *)
(*                                                                         *)
(* The first part is about ViewDispatcher, for any keys, views, lengths of *)
(* the queues and injective mappings of the keys.  IndInv is inductive: it  *)
(* follows the Release of a key from the device to the queue of the GUI,   *)
(* and from there, under the key of the orientation, to that of the        *)
(* application.                                                            *)
(*                                                                         *)
(* The second part is about Input: with ServiceInv, its steps are those of *)
(* KeyEvents, which ViewDispatcher takes for the input service.            *)
(*                                                                         *)
(* The third part puts the two together in KeyPath.                        *)
(***************************************************************************)
EXTENDS KeyPath, SequenceTheorems, TLAPS

PressOf(k) == [key |-> k, type |-> "Press"]
ReleaseOf(k) == [key |-> k, type |-> "Release"]

\* What a queue of events has of one key: its Release, one after every Press,
\* one before every Press, and one between any two.
Has(q, k) == \E i \in 1..Len(q) : q[i] = ReleaseOf(k)
Closed(q, k) ==
    \A i \in 1..Len(q) : q[i] = PressOf(k) => \E j \in (i + 1)..Len(q) : q[j] = ReleaseOf(k)
Opens(q, k) ==
    \A i \in 1..Len(q) : q[i] = PressOf(k) => \E j \in 1..(i - 1) : q[j] = ReleaseOf(k)
Alternates(q, k) ==
    \A i, j \in 1..Len(q) : i < j /\ q[i] = PressOf(k) /\ q[j] = PressOf(k) =>
        \E n \in (i + 1)..(j - 1) : q[n] = ReleaseOf(k)

-----------------------------------------------------------------------------
(***************************************************************************)
(* The inductive invariant.                                                *)
(***************************************************************************)

\* The GUI, once it has counted the Press of a key of the device, gets its
\* Release, and sees no second Press before it.
DeviceOK ==
    \A p \in Keys :
        /\ p \in guiOngoing => last[p] # "Release" \/ Has(queue, p)
        /\ last[p] # "Release" \/ Closed(queue, p)
        /\ p \in guiOngoing => Opens(queue, p)
        /\ Alternates(queue, p)

\* The Release of a key is still in front of the GUI, and will be routed to
\* the application.
Owed(k) == guiPort = "app" /\ \E p \in guiOngoing : MappedKey(p) = k

\* The same of the dispatcher and the keys of the application.
AppOK ==
    \A k \in Keys :
        /\ k \in ongoing => Has(appQueue, k) \/ sending = ReleaseOf(k) \/ Owed(k)
        /\ Closed(appQueue, k) \/ sending = ReleaseOf(k) \/ Owed(k)
        /\ k \in ongoing => Opens(appQueue, k)
        /\ Alternates(appQueue, k)
        /\ sending = PressOf(k) =>
             /\ Owed(k) /\ Closed(appQueue, k)
             /\ k \notin ongoing \/ Has(appQueue, k)

\* Only the view that the events go to holds a key, and only keys that count.
ViewOK ==
    \A v \in AllViews : holds[v] \subseteq ongoing /\ (holds[v] # {} => v = target)

IndInv ==
    /\ TypeOK
    /\ DeviceOK
    /\ torn \/ app = "gone" \/ AppOK
    /\ torn \/ app \in {"drain", "exit", "gone"} \/ ViewOK

USE RouteAssumption, EventsAssumption

-----------------------------------------------------------------------------
\* Events and queues of events.

(***************************************************************************)
(* An event of the input service is known by its key and its type.         *)
(***************************************************************************)
LEMMA EventLemma ==
    ASSUME NEW e \in Event
    PROVE  /\ e.key \in Keys /\ e.type \in Types
           /\ e = [key |-> e.key, type |-> e.type]
           /\ e # NoEvent
           /\ \A k : /\ e = PressOf(k) <=> e.type = "Press" /\ e.key = k
                     /\ e = ReleaseOf(k) <=> e.type = "Release" /\ e.key = k
<1>1. e.key \in Keys /\ e.type \in Types /\ e = [key |-> e.key, type |-> e.type]
  BY DEF Event
<1>2. e # NoEvent
  OBVIOUS
<1>3. ASSUME NEW k
      PROVE  /\ e = PressOf(k) <=> e.type = "Press" /\ e.key = k
             /\ e = ReleaseOf(k) <=> e.type = "Release" /\ e.key = k
  BY <1>1 DEF PressOf, ReleaseOf
<1> QED BY <1>1, <1>2, <1>3

(***************************************************************************)
(* The Press and the Release of a key are different events, and neither is *)
(* no event.                                                               *)
(***************************************************************************)
LEMMA KindLemma ==
    ASSUME NEW k \in Keys
    PROVE  /\ PressOf(k) \in Event /\ ReleaseOf(k) \in Event
           /\ PressOf(k) # ReleaseOf(k)
           /\ PressOf(k) # NoEvent /\ ReleaseOf(k) # NoEvent
<1>1. PressOf(k) \in Event /\ ReleaseOf(k) \in Event
  BY DEF PressOf, ReleaseOf, Event, Types
<1>2. PressOf(k).type = "Press" /\ ReleaseOf(k).type = "Release"
  BY DEF PressOf, ReleaseOf
<1>3. "Press" # "Release"
  OBVIOUS
<1>4. PressOf(k) # ReleaseOf(k)
  BY <1>2, <1>3
<1> QED BY <1>1, <1>4

(***************************************************************************)
(* Putting an event into a queue: a Release closes the Press before it, a  *)
(* Press must come when the one before it is closed.                       *)
(***************************************************************************)
LEMMA PutLemma ==
    ASSUME NEW q \in Seq(Event), NEW e \in Event, NEW k \in Keys
    PROVE  /\ Append(q, e) \in Seq(Event)
           /\ Has(Append(q, e), k) <=> Has(q, k) \/ e = ReleaseOf(k)
           /\ e = ReleaseOf(k) \/ (Closed(q, k) /\ e # PressOf(k)) => Closed(Append(q, e), k)
           /\ Opens(q, k) /\ (e # PressOf(k) \/ Has(q, k)) => Opens(Append(q, e), k)
           /\ Alternates(q, k) /\ (e # PressOf(k) \/ Closed(q, k))
                => Alternates(Append(q, e), k)
<1> DEFINE r == Append(q, e)
           n == Len(q)
<1>1. /\ r \in Seq(Event) /\ n \in Nat /\ Len(r) = n + 1
      /\ \A i \in 1..n : r[i] = q[i]
      /\ r[n + 1] = e
  BY AppendProperties
<1> HIDE DEF r, n
<1>2. \A i : i \in 1..(n + 1) <=> i \in 1..n \/ i = n + 1
  BY <1>1
<1>3. Has(r, k) <=> Has(q, k) \/ e = ReleaseOf(k)
  BY <1>1, <1>2 DEF Has, n
<1>4. ASSUME e = ReleaseOf(k) \/ (Closed(q, k) /\ e # PressOf(k))
      PROVE  Closed(r, k)
  <2> SUFFICES ASSUME NEW i \in 1..Len(r), r[i] = PressOf(k)
               PROVE  \E j \in (i + 1)..Len(r) : r[j] = ReleaseOf(k)
    BY DEF Closed
  <2>1. e # PressOf(k)
    BY <1>4, KindLemma
  <2>2. i \in 1..n /\ q[i] = PressOf(k)
    BY <1>1, <1>2, <2>1
  <2>3. CASE e = ReleaseOf(k)
    <3>1. n + 1 \in (i + 1)..Len(r)
      BY <1>1, <2>2
    <3> QED BY <1>1, <2>3, <3>1
  <2>4. CASE Closed(q, k)
    <3>1. PICK j \in (i + 1)..n : q[j] = ReleaseOf(k)
      BY <2>2, <2>4 DEF Closed, n
    <3>2. j \in 1..n /\ j \in (i + 1)..Len(r)
      BY <1>1, <2>2, <3>1
    <3> QED BY <1>1, <3>1, <3>2
  <2> QED BY <1>4, <2>3, <2>4
<1>5. ASSUME Opens(q, k), e # PressOf(k) \/ Has(q, k)
      PROVE  Opens(r, k)
  <2> SUFFICES ASSUME NEW i \in 1..Len(r), r[i] = PressOf(k)
               PROVE  \E j \in 1..(i - 1) : r[j] = ReleaseOf(k)
    BY DEF Opens
  <2>1. CASE i \in 1..n
    <3>1. PICK j \in 1..(i - 1) : q[j] = ReleaseOf(k)
      BY <1>1, <1>5, <2>1 DEF Opens, n
    <3>2. j \in 1..n
      BY <1>1, <2>1, <3>1
    <3> QED BY <1>1, <3>1, <3>2
  <2>2. CASE i = n + 1
    <3>1. PICK j \in 1..n : q[j] = ReleaseOf(k)
      BY <1>1, <1>5, <2>2 DEF Has, n
    <3>2. j \in 1..(i - 1)
      BY <1>1, <2>2, <3>1
    <3> QED BY <1>1, <3>1, <3>2
  <2> QED BY <1>1, <1>2, <2>1, <2>2
<1>6. ASSUME Alternates(q, k), e # PressOf(k) \/ Closed(q, k)
      PROVE  Alternates(r, k)
  <2> SUFFICES ASSUME NEW i \in 1..Len(r), NEW j \in 1..Len(r), i < j,
                      r[i] = PressOf(k), r[j] = PressOf(k)
               PROVE  \E m \in (i + 1)..(j - 1) : r[m] = ReleaseOf(k)
    BY DEF Alternates
  <2>1. i \in 1..n /\ q[i] = PressOf(k)
    BY <1>1, <1>2
  <2>2. CASE j \in 1..n
    <3>1. PICK m \in (i + 1)..(j - 1) : q[m] = ReleaseOf(k)
      BY <1>1, <1>6, <2>1, <2>2 DEF Alternates, n
    <3>2. m \in 1..n
      BY <1>1, <2>1, <2>2, <3>1
    <3> QED BY <1>1, <3>1, <3>2
  <2>3. CASE j = n + 1
    <3>1. PICK m \in (i + 1)..n : q[m] = ReleaseOf(k)
      BY <1>1, <1>6, <2>1, <2>3 DEF Closed, n
    <3>2. m \in 1..n /\ m \in (i + 1)..(j - 1)
      BY <1>1, <2>1, <2>3, <3>1
    <3> QED BY <1>1, <3>1, <3>2
  <2> QED BY <1>1, <1>2, <2>2, <2>3
<1> QED BY <1>1, <1>3, <1>4, <1>5, <1>6 DEF r

(***************************************************************************)
(* Taking the first event of a queue.  When it is a Press, all that follow *)
(* it are preceded by a Release.                                           *)
(***************************************************************************)
LEMMA TakeLemma ==
    ASSUME NEW q \in Seq(Event), q # <<>>, NEW k \in Keys
    PROVE  /\ Tail(q) \in Seq(Event) /\ Head(q) \in Event
           /\ Has(q, k) /\ Head(q) # ReleaseOf(k) => Has(Tail(q), k)
           /\ Closed(q, k) => Closed(Tail(q), k)
           /\ Closed(q, k) /\ Head(q) = PressOf(k) => Has(Tail(q), k)
           /\ Opens(q, k) => Head(q) # PressOf(k)
           /\ Opens(q, k) /\ Head(q) # ReleaseOf(k) => Opens(Tail(q), k)
           /\ Alternates(q, k) /\ Head(q) = PressOf(k) => Opens(Tail(q), k)
           /\ Alternates(q, k) => Alternates(Tail(q), k)
<1> DEFINE r == Tail(q)
           n == Len(q)
           h == Head(q)
<1>1. /\ r \in Seq(Event) /\ h \in Event
      /\ n \in Nat \ {0} /\ Len(r) = n - 1
      /\ \A i \in 1..(n - 1) : r[i] = q[i + 1]
      /\ h = q[1]
  <2>1. r \in Seq(Event) /\ h \in Event /\ Len(r) = n - 1
    BY HeadTailProperties
  <2>2. n \in Nat \ {0} /\ h = q[1]
    BY EmptySeq, LenProperties
  <2>3. \A i \in 1..Len(r) : r[i] = q[i + 1]
    BY HeadTailProperties
  <2> QED BY <2>1, <2>2, <2>3
<1> HIDE DEF r, n, h
<1>2. \A i \in 1..n : i = 1 \/ (i - 1 \in 1..(n - 1) /\ r[i - 1] = q[i])
  <2> TAKE i \in 1..n
  <2>1. CASE i # 1
    <3>1. i - 1 \in 1..(n - 1) /\ (i - 1) + 1 = i
      BY <1>1, <2>1
    <3>2. r[i - 1] = q[(i - 1) + 1]
      BY <1>1, <3>1
    <3> QED BY <3>1, <3>2
  <2>2. CASE i = 1 BY <2>2
  <2> QED BY <2>1, <2>2
<1>3. ASSUME Has(q, k), h # ReleaseOf(k)
      PROVE  Has(r, k)
  <2>1. PICK i \in 1..n : q[i] = ReleaseOf(k)
    BY <1>3 DEF Has, n
  <2>2. i - 1 \in 1..(n - 1) /\ r[i - 1] = q[i]
    BY <1>1, <1>2, <1>3, <2>1
  <2> QED BY <1>1, <2>1, <2>2 DEF Has
<1>4. ASSUME Closed(q, k)
      PROVE  Closed(r, k)
  <2> SUFFICES ASSUME NEW i \in 1..Len(r), r[i] = PressOf(k)
               PROVE  \E j \in (i + 1)..Len(r) : r[j] = ReleaseOf(k)
    BY DEF Closed
  <2>1. i + 1 \in 1..n /\ q[i + 1] = PressOf(k)
    BY <1>1
  <2>2. PICK j \in ((i + 1) + 1)..n : q[j] = ReleaseOf(k)
    BY <1>4, <2>1 DEF Closed, n
  <2>3. j \in 1..n /\ j # 1 /\ j - 1 \in (i + 1)..Len(r)
    BY <1>1, <2>1, <2>2
  <2> QED BY <1>2, <2>2, <2>3
<1>5. ASSUME Closed(q, k), h = PressOf(k)
      PROVE  Has(r, k)
  <2>1. PICK j \in 2..n : q[j] = ReleaseOf(k)
    <3>1. 1 \in 1..n /\ 1 + 1 = 2
      BY <1>1
    <3> QED BY <1>1, <1>5, <3>1 DEF Closed, n
  <2>2. j \in 1..n /\ j # 1
    BY <1>1
  <2> QED BY <1>1, <1>2, <2>1, <2>2 DEF Has
<1>6. ASSUME Opens(q, k)
      PROVE  h # PressOf(k)
  <2>1. 1 \in 1..n /\ \A j : j \notin 1..(1 - 1)
    BY <1>1
  <2> QED BY <1>1, <1>6, <2>1 DEF Opens, n
<1>7. ASSUME Opens(q, k), h # ReleaseOf(k)
      PROVE  Opens(r, k)
  <2> SUFFICES ASSUME NEW i \in 1..Len(r), r[i] = PressOf(k)
               PROVE  \E j \in 1..(i - 1) : r[j] = ReleaseOf(k)
    BY DEF Opens
  <2>1. i \in 1..(n - 1) /\ i + 1 \in 1..n /\ (i + 1) - 1 = i /\ q[i + 1] = PressOf(k)
    BY <1>1
  <2>2. PICK j \in 1..i : q[j] = ReleaseOf(k)
    BY <1>7, <2>1 DEF Opens, n
  <2>3. j \in 1..n /\ j # 1
    BY <1>1, <1>7, <2>1, <2>2
  <2>4. j - 1 \in 1..(i - 1)
    BY <1>1, <2>1, <2>3
  <2> QED BY <1>2, <2>2, <2>3, <2>4
<1>8. ASSUME Alternates(q, k), h = PressOf(k)
      PROVE  Opens(r, k)
  <2> SUFFICES ASSUME NEW i \in 1..Len(r), r[i] = PressOf(k)
               PROVE  \E j \in 1..(i - 1) : r[j] = ReleaseOf(k)
    BY DEF Opens
  <2>1. i \in 1..(n - 1) /\ i + 1 \in 1..n /\ 1 \in 1..n /\ 1 < i + 1 /\ q[i + 1] = PressOf(k)
    BY <1>1
  <2>2. PICK j \in (1 + 1)..((i + 1) - 1) : q[j] = ReleaseOf(k)
    BY <1>1, <1>8, <2>1 DEF Alternates, n
  <2>3. j \in 1..n /\ j # 1 /\ j - 1 \in 1..(i - 1)
    BY <1>1, <2>1, <2>2
  <2> QED BY <1>2, <2>2, <2>3
<1>9. ASSUME Alternates(q, k)
      PROVE  Alternates(r, k)
  <2> SUFFICES ASSUME NEW i \in 1..Len(r), NEW j \in 1..Len(r), i < j,
                      r[i] = PressOf(k), r[j] = PressOf(k)
               PROVE  \E m \in (i + 1)..(j - 1) : r[m] = ReleaseOf(k)
    BY DEF Alternates
  <2>1. /\ i + 1 \in 1..n /\ j + 1 \in 1..n /\ i + 1 < j + 1
        /\ q[i + 1] = PressOf(k) /\ q[j + 1] = PressOf(k)
    BY <1>1
  <2>2. PICK m \in ((i + 1) + 1)..((j + 1) - 1) : q[m] = ReleaseOf(k)
    BY <1>9, <2>1 DEF Alternates, n
  <2>3. m \in 1..n /\ m # 1 /\ m - 1 \in (i + 1)..(j - 1)
    BY <1>1, <2>1, <2>2
  <2> QED BY <1>2, <2>2, <2>3
<1> QED BY <1>1, <1>3, <1>4, <1>5, <1>6, <1>7, <1>8, <1>9 DEF r, h

(***************************************************************************)
(* An empty queue has no event of any key.                                 *)
(***************************************************************************)
LEMMA EmptyLemma ==
    ASSUME NEW k
    PROVE  /\ ~Has(<<>>, k) /\ Closed(<<>>, k) /\ Opens(<<>>, k) /\ Alternates(<<>>, k)
<1>1. Len(<<>>) = 0 /\ \A i : i \notin 1..0
  OBVIOUS
<1> QED BY <1>1 DEF Has, Closed, Opens, Alternates

-----------------------------------------------------------------------------
\* The types.

\* An event stays one when the view port maps its key.
LEMMA MappedLemma ==
    ASSUME NEW e \in Event, TypeOK
    PROVE  /\ MappedKey(e.key) \in Keys
           /\ Mapped(e) \in Event
           /\ Mapped(e).type = e.type /\ Mapped(e).key = MappedKey(e.key)
<1>1. e.key \in Keys /\ e.type \in Types /\ e = [key |-> e.key, type |-> e.type]
  BY EventLemma
<1>2. MappedKey(e.key) \in Keys
  BY <1>1 DEF MappedKey, Handed
<1>3. Mapped(e) = [key |-> MappedKey(e.key), type |-> e.type]
  BY <1>1 DEF Mapped
<1> QED BY <1>1, <1>2, <1>3 DEF Event

\* Two keys are never mapped to one.
LEMMA MappedInjective ==
    ASSUME NEW j \in Keys, NEW k \in Keys, MappedKey(j) = MappedKey(k)
    PROVE  j = k
<1>1. Handed(j) \in Keys /\ Handed(k) \in Keys
  BY DEF Handed
<1>2. Handed(j) = Handed(k)
  BY <1>1 DEF MappedKey
<1> QED BY <1>2 DEF Handed

\* The mapping is that of the orientation and the left-hand flag.
LEMMA MappedSame ==
    ASSUME UNCHANGED <<port, lefty>> PROVE \A x : MappedKey(x)' = MappedKey(x)
BY DEF MappedKey, Handed, LeftHanded

\* The keys that are counted are keys.
LEMMA CountedLemma ==
    ASSUME NEW e \in Event, NEW keys \in SUBSET Keys
    PROVE  Counted(e, keys) \subseteq Keys
BY EventLemma DEF Counted

\* A change of the current view keeps the types.
LEMMA CurrentType ==
    ASSUME TypeOK, NEW v \in AllViews \cup {NoView}, SetCurrentView(v)
    PROVE  /\ appQueue' \in Seq(Event) /\ current' \in AllViews \cup {NoView}
           /\ port' \in [added: BOOLEAN, enabled: BOOLEAN, turned: BOOLEAN]
           /\ stop' \in BOOLEAN
<1>1. appQueue' \in Seq(Event)
  <2>1. <<>> \in Seq(Event)
    OBVIOUS
  <2> QED BY <2>1 DEF TypeOK, SetCurrentView
<1>2. port' \in [added: BOOLEAN, enabled: BOOLEAN, turned: BOOLEAN]
  <2>1. port \in [added: BOOLEAN, enabled: BOOLEAN, turned: BOOLEAN]
    BY DEF TypeOK
  <2>2. PICK b \in BOOLEAN : port' = [port EXCEPT !.enabled = b]
    BY DEF SetCurrentView
  <2> QED BY <2>1, <2>2
<1>3. stop' \in BOOLEAN /\ current' \in AllViews \cup {NoView}
  BY DEF TypeOK, SetCurrentView
<1> QED BY <1>1, <1>2, <1>3

\* The books of the views stay books.
LEMMA DeliveredType ==
    ASSUME TypeOK, NEW v \in AllViews, NEW e \in Event, Delivered(v, e)
    PROVE  holds' \in [AllViews -> SUBSET Keys]
<1>1. holds \in [AllViews -> SUBSET Keys] /\ e.key \in Keys
  BY EventLemma DEF TypeOK
<1>2. holds[v] \subseteq Keys
  BY <1>1
<1>3. PICK s \in SUBSET Keys : holds' = [holds EXCEPT ![v] = s]
  <2>1. CASE e.type = "Press"
    <3>1. holds' = [holds EXCEPT ![v] = holds[v] \cup {e.key}]
      BY <2>1 DEF Delivered
    <3> QED BY <1>1, <1>2, <3>1
  <2>2. CASE e.type = "Release"
    <3>1. holds' = [holds EXCEPT ![v] = holds[v] \ {e.key}]
      BY <2>2 DEF Delivered
    <3> QED BY <1>1, <1>2, <3>1
  <2>3. CASE e.type \notin {"Press", "Release"}
    <3>1. holds' = [holds EXCEPT ![v] = holds[v]]
      BY <2>3 DEF Delivered
    <3> QED BY <1>1, <1>2, <3>1
  <2> QED BY <2>1, <2>2, <2>3
<1> QED BY <1>1, <1>3

\* A step, without the bounds that a run of TLC sets the events.
AnyNext == RouteNext \/ \E k \in Keys, type \in Types : Arrives(k, type)

(***************************************************************************)
(* Every step keeps the types.                                             *)
(***************************************************************************)
LEMMA TypeStep == TypeOK /\ [AnyNext]_vars => TypeOK'
<1> SUFFICES ASSUME TypeOK, [AnyNext]_vars PROVE TypeOK'
  OBVIOUS
<1>1. ASSUME NEW k \in Keys, NEW type \in Types, Arrives(k, type)
      PROVE  TypeOK'
  <2>1. [key |-> k, type |-> type] \in Event
    BY DEF Event
  <2>2. queue' \in Seq(Event)
    BY <1>1, <2>1, PutLemma DEF Arrives, Publish, Put, TypeOK
  <2>3. last' \in [Keys -> Types] /\ presses' \in Nat
    BY <1>1 DEF Arrives, Publish, Put, TypeOK
  <2> QED BY <1>1, <2>2, <2>3 DEF Arrives, guiVars, appVars, TypeOK
<1>2. ASSUME GuiInput PROVE TypeOK'
  <2> DEFINE e == Head(queue)
             keys == Counted(e, guiOngoing)
             p == IF FirstPress(e, keys) THEN TopPort ELSE guiPort
  <2>1. queue # <<>> /\ queue \in Seq(Event)
    BY <1>2 DEF GuiInput, TypeOK
  <2>2. queue' \in Seq(Event) /\ e \in Event
    BY <1>2, <2>1, HeadTailProperties DEF GuiInput
  <2>3. guiOngoing' \subseteq Keys
    BY <1>2, <2>2, CountedLemma DEF GuiInput, TypeOK
  <2>4. Mapped(e) \in Event
    BY <2>2, MappedLemma
  <2>5. p \in {"none", "app", "other"}
    BY DEF TopPort, TypeOK
  <2>6. guiPort' \in {guiPort, p} /\ sending' \in {sending, Mapped(e), NoEvent}
    <3> HIDE DEF e
    <3> QED BY <1>2 DEF GuiInput, e
  <2> HIDE DEF e, p
  <2>7. guiPort' \in {"none", "app", "other"} /\ sending' \in Event \cup {NoEvent}
    BY <2>4, <2>5, <2>6 DEF TypeOK
  <2> QED BY <1>2, <2>2, <2>3, <2>7 DEF GuiInput, appVars, TypeOK
<1>3. ASSUME GuiDeliver PROVE TypeOK'
  <2>1. sending \in Event /\ appQueue \in Seq(Event)
    BY <1>3 DEF GuiDeliver, TypeOK
  <2>2. appQueue' \in Seq(Event)
    BY <1>3, <2>1, AppendProperties DEF GuiDeliver
  <2> QED BY <1>3, <2>2 DEF GuiDeliver, eventVars, appVars, TypeOK
<1>4. ASSUME ScreenChange PROVE TypeOK'
  <2>1. screen \in [covered: BOOLEAN, direct: BOOLEAN] /\ changes \in Nat
    BY DEF TypeOK
  <2>2. changes' \in Nat
    BY <1>4, <2>1 DEF ScreenChange
  <2>3. screen' \in [covered: BOOLEAN, direct: BOOLEAN]
    <3>1. (~screen.covered) \in BOOLEAN /\ (~screen.direct) \in BOOLEAN
      OBVIOUS
    <3>2. \/ screen' = [screen EXCEPT !.covered = ~screen.covered]
          \/ screen' = [screen EXCEPT !.direct = ~screen.direct]
      BY <1>4 DEF ScreenChange
    <3> QED BY <2>1, <3>1, <3>2
  <2> QED BY <1>4, <2>2, <2>3 DEF ScreenChange, eventVars, guiVars, appVars, TypeOK
<1>5. ASSUME HandleInput PROVE TypeOK'
  <2> DEFINE e == Head(appQueue)
             keys == Counted(e, ongoing)
             t == IF FirstPress(e, keys) THEN current ELSE target
  <2>1. appQueue # <<>> /\ appQueue \in Seq(Event)
    BY <1>5 DEF HandleInput, TypeOK
  <2>2. appQueue' \in Seq(Event) /\ e \in Event
    BY <1>5, <2>1, HeadTailProperties DEF HandleInput
  <2>3. ongoing' \subseteq Keys
    BY <1>5, <2>2, CountedLemma DEF HandleInput, TypeOK
  <2>4. t \in AllViews \cup {NoView}
    BY DEF TypeOK
  <2>5. /\ target' \in {target, t} /\ app' \in {app, "callback"}
        /\ \/ holds' = holds
           \/ current # NoView /\ Delivered(current, e)
           \/ t # NoView /\ Delivered(t, e)
    <3> HIDE DEF e
    <3> QED BY <1>5 DEF HandleInput, ReleaseBehind, e
  <2> HIDE DEF e, t
  <2>6. holds' \in [AllViews -> SUBSET Keys]
    <3>1. current \in AllViews \cup {NoView} /\ holds \in [AllViews -> SUBSET Keys]
      BY DEF TypeOK
    <3> QED BY <2>2, <2>4, <2>5, <3>1, DeliveredType
  <2>7. target' \in AllViews \cup {NoView}
        /\ app' \in {"loop", "callback", "turn", "drain", "exit", "gone"}
    BY <2>4, <2>5 DEF TypeOK
  <2> QED BY <1>5, <2>2, <2>3, <2>6, <2>7 DEF HandleInput, eventVars, guiVars, TypeOK
<1>6. ASSUME OtherCallback PROVE TypeOK'
  BY <1>6 DEF OtherCallback, eventVars, guiVars, TypeOK
<1>7. ASSUME Rotate PROVE TypeOK'
  <2>1. port' \in [added: BOOLEAN, enabled: BOOLEAN, turned: BOOLEAN]
    <3>1. port \in [added: BOOLEAN, enabled: BOOLEAN, turned: BOOLEAN]
      BY DEF TypeOK
    <3> QED BY <1>7, <3>1 DEF Rotate
  <2>2. torn' \in BOOLEAN
    BY <1>7 DEF Rotate, InFlight, TypeOK
  <2> QED BY <1>7, <2>1, <2>2 DEF Rotate, eventVars, guiVars, TypeOK
<1>8. ASSUME CallbackReturn PROVE TypeOK'
  BY <1>8 DEF CallbackReturn, eventVars, guiVars, TypeOK
<1>9. ASSUME Stop PROVE TypeOK'
  BY <1>9 DEF Stop, eventVars, guiVars, TypeOK
<1>10. ASSUME LoopEnds PROVE TypeOK'
  BY <1>10 DEF LoopEnds, eventVars, guiVars, TypeOK
<1>11. ASSUME Drain PROVE TypeOK'
  <2>1. CASE ongoing = {}
    BY <1>11, <2>1 DEF Drain, eventVars, guiVars, TypeOK
  <2>2. CASE ongoing # {}
    <3>1. appQueue # <<>> /\ appQueue \in Seq(Event)
      BY <1>11, <2>2 DEF Drain, TypeOK
    <3>2. appQueue' \in Seq(Event) /\ Head(appQueue) \in Event
      BY <1>11, <2>2, <3>1, HeadTailProperties DEF Drain
    <3>3. ongoing' \subseteq Keys
      BY <1>11, <2>2, <3>2, CountedLemma DEF Drain, TypeOK
    <3> QED BY <1>11, <2>2, <3>2, <3>3 DEF Drain, eventVars, guiVars, TypeOK
  <2> QED BY <2>1, <2>2
<1>12. ASSUME NEW v \in AllViews \cup {NoView}, Switch(v) PROVE TypeOK'
  <2>1. SetCurrentView(v)
    BY <1>12 DEF Switch
  <2>2. app' \in {"turn", "callback"} /\ changes' \in Nat
    BY <1>12 DEF Switch, TypeOK
  <2> QED BY <1>12, <2>1, <2>2, CurrentType DEF Switch, eventVars, guiVars, TypeOK
<1>13. ASSUME NEW v \in AllViews \cup {NoView}, RemoveView(v) PROVE TypeOK'
  <2>1. SetCurrentView(NoView) \/ UNCHANGED <<appQueue, current, port, stop>>
    BY <1>13 DEF RemoveView
  <2>2. /\ appQueue' \in Seq(Event) /\ current' \in AllViews \cup {NoView}
        /\ port' \in [added: BOOLEAN, enabled: BOOLEAN, turned: BOOLEAN]
        /\ stop' \in BOOLEAN
    BY <2>1, CurrentType DEF TypeOK
  <2>3. views' \subseteq Views /\ target' \in AllViews \cup {NoView}
    BY <1>13 DEF RemoveView, TypeOK
  <2> QED BY <1>13, <2>2, <2>3 DEF RemoveView, eventVars, guiVars, TypeOK
<1>14. ASSUME FreeDispatcher PROVE TypeOK'
  <2>1. port' \in [added: BOOLEAN, enabled: BOOLEAN, turned: BOOLEAN]
    <3>1. port \in [added: BOOLEAN, enabled: BOOLEAN, turned: BOOLEAN]
      BY DEF TypeOK
    <3> QED BY <1>14, <3>1 DEF FreeDispatcher
  <2>2. appQueue' \in Seq(Event)
    BY <1>14 DEF FreeDispatcher
  <2> QED BY <1>14, <2>1, <2>2 DEF FreeDispatcher, eventVars, TypeOK
<1>15. ASSUME HandChange PROVE TypeOK'
  <2>1. changes' \in Nat /\ lefty' \in BOOLEAN
    BY <1>15 DEF HandChange, TypeOK
  <2>2. torn' \in BOOLEAN
    BY <1>15 DEF HandChange, InFlight, TypeOK
  <2> QED BY <1>15, <2>1, <2>2 DEF HandChange, eventVars, guiVars, appVars, TypeOK
<1>16. CASE UNCHANGED vars
  BY <1>16 DEF vars, eventVars, guiVars, appVars, TypeOK
<1> QED BY <1>1, <1>2, <1>3, <1>4, <1>5, <1>6, <1>7, <1>8, <1>9, <1>10, <1>11, <1>12, <1>13,
           <1>14, <1>15, <1>16 DEF AnyNext, RouteNext

-----------------------------------------------------------------------------
\* The device and the GUI.

(***************************************************************************)
(* An event that is counted changes what is counted of its own key only.   *)
(***************************************************************************)
LEMMA CountLemma ==
    ASSUME NEW e \in Event, NEW keys \in SUBSET Keys, NEW k \in Keys
    PROVE  k \in Counted(e, keys) <=> e = PressOf(k) \/ (k \in keys /\ e # ReleaseOf(k))
<1>1. /\ e = PressOf(k) <=> e.type = "Press" /\ e.key = k
      /\ e = ReleaseOf(k) <=> e.type = "Release" /\ e.key = k
  BY EventLemma
<1>2. CASE e.type = "Press" BY <1>1, <1>2 DEF Counted
<1>3. CASE e.type = "Release" BY <1>1, <1>3 DEF Counted
<1>4. CASE e.type \notin {"Press", "Release"} BY <1>1, <1>4 DEF Counted
<1> QED BY <1>2, <1>3, <1>4

(***************************************************************************)
(* What the input service publishes keeps the keys of the device in order. *)
(***************************************************************************)
LEMMA InputStep ==
    ASSUME TypeOK, DeviceOK, NEW k \in Keys, NEW type \in Types, Arrives(k, type)
    PROVE  DeviceOK'
<1> DEFINE e == [key |-> k, type |-> type]
<1>1. queue \in Seq(Event) /\ last \in [Keys -> Types]
  BY DEF TypeOK
<1>2. /\ queue' = Append(queue, e) /\ last' = [last EXCEPT ![k] = type]
      /\ guiOngoing' = guiOngoing /\ <<last[k], type>> \in Follows
  BY DEF Arrives, Publish, Put, guiVars
<1>3. e \in Event /\ e.key = k /\ e.type = type
  BY DEF Event
<1> HIDE DEF e
<1>4. type = "Press" => last[k] = "Release"
  BY <1>2 DEF Follows
<1> SUFFICES ASSUME NEW p \in Keys
             PROVE  /\ p \in guiOngoing => last'[p] # "Release" \/ Has(queue', p)
                    /\ last'[p] # "Release" \/ Closed(queue', p)
                    /\ p \in guiOngoing => Opens(queue', p)
                    /\ Alternates(queue', p)
  BY <1>2 DEF DeviceOK, Has, Closed, Opens, Alternates
<1>5. /\ p \in guiOngoing => last[p] # "Release" \/ Has(queue, p)
      /\ last[p] # "Release" \/ Closed(queue, p)
      /\ p \in guiOngoing => Opens(queue, p)
      /\ Alternates(queue, p)
  BY DEF DeviceOK
<1>6. /\ Has(queue', p) <=> Has(queue, p) \/ e = ReleaseOf(p)
      /\ e = ReleaseOf(p) \/ (Closed(queue, p) /\ e # PressOf(p)) => Closed(queue', p)
      /\ Opens(queue, p) /\ (e # PressOf(p) \/ Has(queue, p)) => Opens(queue', p)
      /\ Alternates(queue, p) /\ (e # PressOf(p) \/ Closed(queue, p)) => Alternates(queue', p)
  BY <1>1, <1>2, <1>3, PutLemma
<1>7. /\ e = PressOf(p) <=> type = "Press" /\ k = p
      /\ e = ReleaseOf(p) <=> type = "Release" /\ k = p
  BY <1>3, EventLemma
<1>8. last'[p] = IF p = k THEN type ELSE last[p]
  BY <1>1, <1>2
<1> QED BY <1>4, <1>5, <1>6, <1>7, <1>8

(***************************************************************************)
(* So does the GUI, which takes one of its events and counts it.           *)
(***************************************************************************)
LEMMA GuiInputStep ==
    ASSUME TypeOK, DeviceOK, GuiInput
    PROVE  DeviceOK'
<1> DEFINE e == Head(queue)
<1>1. queue \in Seq(Event) /\ queue # <<>> /\ guiOngoing \in SUBSET Keys
  BY DEF TypeOK, GuiInput
<1>2. /\ queue' = Tail(queue) /\ last' = last /\ guiOngoing' = Counted(e, guiOngoing)
      /\ e \in Event
  BY <1>1, HeadTailProperties DEF GuiInput
<1> HIDE DEF e
<1> SUFFICES ASSUME NEW p \in Keys
             PROVE  /\ p \in guiOngoing' => last[p] # "Release" \/ Has(queue', p)
                    /\ last[p] # "Release" \/ Closed(queue', p)
                    /\ p \in guiOngoing' => Opens(queue', p)
                    /\ Alternates(queue', p)
  BY <1>2 DEF DeviceOK, Has, Closed, Opens, Alternates
<1>3. /\ p \in guiOngoing => last[p] # "Release" \/ Has(queue, p)
      /\ last[p] # "Release" \/ Closed(queue, p)
      /\ p \in guiOngoing => Opens(queue, p)
      /\ Alternates(queue, p)
  BY DEF DeviceOK
<1>4. /\ Has(queue, p) /\ e # ReleaseOf(p) => Has(queue', p)
      /\ Closed(queue, p) => Closed(queue', p)
      /\ Closed(queue, p) /\ e = PressOf(p) => Has(queue', p)
      /\ Opens(queue, p) /\ e # ReleaseOf(p) => Opens(queue', p)
      /\ Alternates(queue, p) /\ e = PressOf(p) => Opens(queue', p)
      /\ Alternates(queue, p) => Alternates(queue', p)
  BY <1>1, <1>2, TakeLemma DEF e
<1>5. p \in guiOngoing' <=> e = PressOf(p) \/ (p \in guiOngoing /\ e # ReleaseOf(p))
  BY <1>1, <1>2, CountLemma
<1> QED BY <1>3, <1>4, <1>5

(***************************************************************************)
(* The keys of the device stay in order in every step.                     *)
(***************************************************************************)
LEMMA DeviceStep == TypeOK /\ DeviceOK /\ [AnyNext]_vars => DeviceOK'
<1> SUFFICES ASSUME TypeOK, DeviceOK, [AnyNext]_vars PROVE DeviceOK'
  OBVIOUS
<1>1. \/ \E k \in Keys, type \in Types : Arrives(k, type)
      \/ GuiInput
      \/ UNCHANGED <<queue, last, guiOngoing>>
  <2>1. ASSUME NEW v, Switch(v) \/ RemoveView(v) PROVE UNCHANGED <<queue, last, guiOngoing>>
    BY <2>1 DEF Switch, RemoveView, eventVars, guiVars
  <2> QED BY <2>1 DEF AnyNext, RouteNext, GuiDeliver, ScreenChange, HandChange, HandleInput,
             OtherCallback, Rotate, CallbackReturn, Stop, LoopEnds, Drain, FreeDispatcher, vars, eventVars, guiVars
<1>2. CASE UNCHANGED <<queue, last, guiOngoing>>
  BY <1>2 DEF DeviceOK, Has, Closed, Opens, Alternates
<1> QED BY <1>1, <1>2, InputStep, GuiInputStep

(***************************************************************************)
(* The GUI routes the Release of a key to the application if it has routed *)
(* the first Press there, and sends the Press of no key whose Release it   *)
(* still owes.                                                             *)
(***************************************************************************)
LEMMA RouteLemma ==
    ASSUME TypeOK, DeviceOK, GuiInput, NEW k \in Keys
    PROVE  /\ Owed(k) => Owed(k)' \/ sending' = ReleaseOf(k)
           /\ sending' = PressOf(k) => Owed(k)' /\ ~Owed(k)
<1> DEFINE e == Head(queue)
           keys == Counted(e, guiOngoing)
           p == IF FirstPress(e, keys) THEN TopPort ELSE guiPort
           to == Routed(e, TopPort, p)
<1>1. queue \in Seq(Event) /\ queue # <<>> /\ guiOngoing \in SUBSET Keys
  BY DEF TypeOK, GuiInput
<1>2. e \in Event
  BY <1>1, HeadTailProperties
<1>3. /\ e.key \in Keys /\ MappedKey(e.key) \in Keys /\ Mapped(e) \in Event
      /\ Mapped(e).type = e.type /\ Mapped(e).key = MappedKey(e.key)
  BY <1>2, EventLemma, MappedLemma
<1>4. TopPort \in {"app", "other"} /\ guiPort \in {"none", "app", "other"}
  BY DEF TopPort, TypeOK
<1>5. e = PressOf(e.key) <=> e.type = "Press"
  BY <1>2, EventLemma
<1>6. e.type = "Press" => e.key \notin guiOngoing
  <2>1. e.key \in guiOngoing => Opens(queue, e.key)
    BY <1>3 DEF DeviceOK
  <2>2. Opens(queue, e.key) => e # PressOf(e.key)
    BY <1>1, <1>3, TakeLemma
  <2> QED BY <1>5, <2>1, <2>2
<1>7. /\ guiOngoing' = keys /\ port' = port /\ lefty' = lefty /\ sending = NoEvent
      /\ IF \/ e.type \notin {"Press", "Release"} /\ e.key \notin keys
            \/ screen.direct /\ guiPort = "none"
         THEN UNCHANGED <<guiPort, sending>>
         ELSE /\ guiPort' = p
              /\ sending' = IF to = "app" THEN Mapped(e) ELSE NoEvent
  <2> HIDE DEF e
  <2> QED BY DEF GuiInput, e
<1>8. \A x : MappedKey(x)' = MappedKey(x)
  BY <1>7, MappedSame
<1>9. \A x \in Keys : /\ Mapped(e) = PressOf(x) <=> e.type = "Press" /\ MappedKey(e.key) = x
                      /\ Mapped(e) = ReleaseOf(x) <=> e.type = "Release" /\ MappedKey(e.key) = x
  BY <1>3, EventLemma
<1>10. NoEvent # PressOf(k)
  BY KindLemma
<1>11. Owed(k)' <=> guiPort' = "app" /\ \E x \in keys : MappedKey(x) = k
  BY <1>7, <1>8 DEF Owed
<1>12. CASE e.type = "Press"
  <2>1. keys = guiOngoing \cup {e.key}
    BY <1>12 DEF Counted
  <2>2. FirstPress(e, keys) <=> guiOngoing = {}
    BY <1>6, <1>12, <2>1 DEF FirstPress
  <2>3. Owed(k) => p = guiPort /\ guiPort = "app"
    BY <2>2 DEF Owed
  <2> HIDE DEF e, keys
  <2>4. Owed(k) => Owed(k)'
    BY <1>7, <1>11, <2>1, <2>3 DEF Owed
  <2>5. ASSUME sending' = PressOf(k)
        PROVE  Owed(k)' /\ ~Owed(k)
    <3>1. guiPort' = p /\ to = "app" /\ MappedKey(e.key) = k
      BY <1>7, <1>9, <1>10, <2>5
    <3>2. p = "app"
      BY <1>4, <1>12, <3>1 DEF Routed
    <3>3. Owed(k)'
      BY <1>11, <2>1, <3>1, <3>2
    <3>4. ASSUME NEW x \in guiOngoing, MappedKey(x) = k PROVE FALSE
      <4>1. x \in Keys
        BY <1>1
      <4>2. x = e.key
        BY <1>3, <3>1, <3>4, <4>1, MappedInjective
      <4> QED BY <1>6, <1>12, <4>2
    <3> QED BY <3>3, <3>4 DEF Owed
  <2> QED BY <2>4, <2>5
<1>13. CASE e.type = "Release"
  <2>1. keys = guiOngoing \ {e.key}
    BY <1>13 DEF Counted
  <2>2. p = guiPort
    BY <1>13 DEF FirstPress
  <2> HIDE DEF e, keys
  <2>3. sending' # PressOf(k)
    BY <1>7, <1>9, <1>10, <1>13
  <2>4. ASSUME Owed(k)
        PROVE  Owed(k)' \/ sending' = ReleaseOf(k)
    <3>1. PICK x \in guiOngoing : guiPort = "app" /\ MappedKey(x) = k
      BY <2>4 DEF Owed
    <3>2. guiPort' = "app"
      BY <1>7, <2>2, <3>1
    <3>3. to = "app"
      BY <1>13, <2>2, <3>1 DEF Routed
    <3>4. sending' = Mapped(e)
      BY <1>7, <1>13, <3>1, <3>3
    <3>5. CASE x = e.key
      BY <1>9, <1>13, <3>1, <3>4, <3>5
    <3>6. CASE x # e.key
      BY <1>11, <2>1, <3>1, <3>2, <3>6
    <3> QED BY <3>5, <3>6
  <2> QED BY <2>3, <2>4
<1>14. CASE e.type \notin {"Press", "Release"}
  <2>1. keys = guiOngoing
    BY <1>14 DEF Counted
  <2>2. p = guiPort
    BY <1>14 DEF FirstPress
  <2> HIDE DEF e, keys
  <2>3. sending' # PressOf(k)
    BY <1>7, <1>9, <1>10, <1>14
  <2>4. guiPort' = guiPort
    BY <1>7, <2>2
  <2> QED BY <1>11, <2>1, <2>3, <2>4 DEF Owed
<1> QED BY <1>12, <1>13, <1>14

-----------------------------------------------------------------------------
\* The GUI and the application.

(***************************************************************************)
(* The GUI's routing keeps the keys of the application in order.           *)
(***************************************************************************)
LEMMA RoutedStep ==
    ASSUME TypeOK, DeviceOK, AppOK, GuiInput
    PROVE  AppOK'
<1>1. appQueue' = appQueue /\ ongoing' = ongoing /\ sending = NoEvent
  BY DEF GuiInput, appVars
<1> SUFFICES ASSUME NEW k \in Keys
             PROVE  /\ k \in ongoing => Has(appQueue, k) \/ sending' = ReleaseOf(k) \/ Owed(k)'
                    /\ Closed(appQueue, k) \/ sending' = ReleaseOf(k) \/ Owed(k)'
                    /\ k \in ongoing => Opens(appQueue, k)
                    /\ Alternates(appQueue, k)
                    /\ sending' = PressOf(k) =>
                         /\ Owed(k)' /\ Closed(appQueue, k)
                         /\ k \notin ongoing \/ Has(appQueue, k)
  BY <1>1 DEF AppOK, Has, Closed, Opens, Alternates
<1>2. /\ k \in ongoing => Has(appQueue, k) \/ sending = ReleaseOf(k) \/ Owed(k)
      /\ Closed(appQueue, k) \/ sending = ReleaseOf(k) \/ Owed(k)
      /\ k \in ongoing => Opens(appQueue, k)
      /\ Alternates(appQueue, k)
  BY DEF AppOK
<1>3. sending # ReleaseOf(k)
  BY <1>1, KindLemma
<1>4. /\ Owed(k) => Owed(k)' \/ sending' = ReleaseOf(k)
      /\ sending' = PressOf(k) => Owed(k)' /\ ~Owed(k)
  BY RouteLemma
<1> QED BY <1>2, <1>3, <1>4

(***************************************************************************)
(* So does the delivery of an event to the queue of the dispatcher.        *)
(***************************************************************************)
LEMMA DeliverStep ==
    ASSUME TypeOK, AppOK, GuiDeliver
    PROVE  AppOK'
<1>1. appQueue \in Seq(Event) /\ sending \in Event
  BY DEF TypeOK, GuiDeliver
<1>2. /\ appQueue' = Append(appQueue, sending) /\ sending' = NoEvent
      /\ ongoing' = ongoing
      /\ guiOngoing' = guiOngoing /\ guiPort' = guiPort /\ port' = port /\ lefty' = lefty
  BY DEF GuiDeliver, appVars
<1>3. \A k : Owed(k)' <=> Owed(k)
  BY <1>2, MappedSame DEF Owed
<1> SUFFICES ASSUME NEW k \in Keys
             PROVE  /\ k \in ongoing => Has(appQueue', k) \/ Owed(k)
                    /\ Closed(appQueue', k) \/ Owed(k)
                    /\ k \in ongoing => Opens(appQueue', k)
                    /\ Alternates(appQueue', k)
                    /\ sending' # PressOf(k)
  BY <1>2, <1>3 DEF AppOK, Has, Closed, Opens, Alternates
<1>4. /\ k \in ongoing => Has(appQueue, k) \/ sending = ReleaseOf(k) \/ Owed(k)
      /\ Closed(appQueue, k) \/ sending = ReleaseOf(k) \/ Owed(k)
      /\ k \in ongoing => Opens(appQueue, k)
      /\ Alternates(appQueue, k)
      /\ sending = PressOf(k) =>
           /\ Owed(k) /\ Closed(appQueue, k)
           /\ k \notin ongoing \/ Has(appQueue, k)
  BY DEF AppOK
<1>5. /\ Has(appQueue', k) <=> Has(appQueue, k) \/ sending = ReleaseOf(k)
      /\ sending = ReleaseOf(k) \/ (Closed(appQueue, k) /\ sending # PressOf(k))
           => Closed(appQueue', k)
      /\ Opens(appQueue, k) /\ (sending # PressOf(k) \/ Has(appQueue, k)) => Opens(appQueue', k)
      /\ Alternates(appQueue, k) /\ (sending # PressOf(k) \/ Closed(appQueue, k))
           => Alternates(appQueue', k)
  BY <1>1, <1>2, PutLemma
<1>6. sending' # PressOf(k)
  BY <1>2, KindLemma
<1> QED BY <1>4, <1>5, <1>6

(***************************************************************************)
(* And so does the dispatcher that takes an event and counts it, in the    *)
(* event loop or in the drain after it.                                    *)
(***************************************************************************)
LEMMA CountStep ==
    ASSUME TypeOK, AppOK, appQueue # <<>>, appQueue' = Tail(appQueue),
           ongoing' = Counted(Head(appQueue), ongoing),
           UNCHANGED <<sending, guiOngoing, guiPort, port, lefty>>
    PROVE  AppOK'
<1> DEFINE e == Head(appQueue)
<1>1. appQueue \in Seq(Event) /\ ongoing \in SUBSET Keys
  BY DEF TypeOK
<1>2. e \in Event
  BY <1>1, HeadTailProperties
<1>3. \A k : Owed(k)' <=> Owed(k)
  BY MappedSame DEF Owed
<1> HIDE DEF e
<1> SUFFICES ASSUME NEW k \in Keys
             PROVE  /\ k \in ongoing' => Has(appQueue', k) \/ sending = ReleaseOf(k) \/ Owed(k)
                    /\ Closed(appQueue', k) \/ sending = ReleaseOf(k) \/ Owed(k)
                    /\ k \in ongoing' => Opens(appQueue', k)
                    /\ Alternates(appQueue', k)
                    /\ sending = PressOf(k) =>
                         /\ Owed(k) /\ Closed(appQueue', k)
                         /\ k \notin ongoing' \/ Has(appQueue', k)
  BY <1>3 DEF AppOK, Has, Closed, Opens, Alternates
<1>4. /\ k \in ongoing => Has(appQueue, k) \/ sending = ReleaseOf(k) \/ Owed(k)
      /\ Closed(appQueue, k) \/ sending = ReleaseOf(k) \/ Owed(k)
      /\ k \in ongoing => Opens(appQueue, k)
      /\ Alternates(appQueue, k)
      /\ sending = PressOf(k) =>
           /\ Owed(k) /\ Closed(appQueue, k)
           /\ k \notin ongoing \/ Has(appQueue, k)
  BY DEF AppOK
<1>5. /\ Has(appQueue, k) /\ e # ReleaseOf(k) => Has(appQueue', k)
      /\ Closed(appQueue, k) => Closed(appQueue', k)
      /\ Closed(appQueue, k) /\ e = PressOf(k) => Has(appQueue', k)
      /\ Opens(appQueue, k) /\ e # ReleaseOf(k) => Opens(appQueue', k)
      /\ Alternates(appQueue, k) /\ e = PressOf(k) => Opens(appQueue', k)
      /\ Alternates(appQueue, k) => Alternates(appQueue', k)
  BY <1>1, TakeLemma DEF e
<1>6. k \in ongoing' <=> e = PressOf(k) \/ (k \in ongoing /\ e # ReleaseOf(k))
  BY <1>1, <1>2, CountLemma DEF e
<1> QED BY <1>4, <1>5, <1>6

(***************************************************************************)
(* A queue that is emptied when no key is counted owes nothing: the loading *)
(* view may be left, and the last view removed.                            *)
(***************************************************************************)
LEMMA CurrentStep ==
    ASSUME TypeOK, AppOK, NEW v, SetCurrentView(v),
           UNCHANGED <<ongoing, sending, guiOngoing, guiPort, lefty>>
    PROVE  AppOK'
<1>1. port'.turned = port.turned
  BY DEF SetCurrentView, TypeOK
<1>2. \A k : Owed(k)' <=> Owed(k)
  BY <1>1 DEF Owed, MappedKey, Handed, LeftHanded
<1>3. CASE appQueue' = appQueue
  BY <1>2, <1>3 DEF AppOK, Has, Closed, Opens, Alternates
<1>4. CASE appQueue' = <<>> /\ ongoing = {}
  BY <1>2, <1>4, EmptyLemma DEF AppOK
<1> QED BY <1>3, <1>4 DEF SetCurrentView, LeavesLoading

(***************************************************************************)
(* When the keys are rotated and none is on its way, none is counted.      *)
(***************************************************************************)
LEMMA RotateStep ==
    ASSUME TypeOK, DeviceOK, AppOK, Rotate, ~torn'
    PROVE  AppOK' /\ ongoing = {}
<1>1. /\ \A k \in Keys : last[k] = "Release"
      /\ queue = <<>> /\ sending = NoEvent /\ appQueue = <<>>
  BY DEF Rotate, InFlight
<1>2. guiOngoing = {}
  BY <1>1, EmptyLemma DEF DeviceOK, TypeOK
<1>3. \A k : ~Owed(k)
  BY <1>2 DEF Owed
<1>4. ongoing = {}
  BY <1>1, <1>3, EmptyLemma, KindLemma DEF AppOK, TypeOK
<1>5. /\ appQueue' = <<>> /\ ongoing' = {} /\ sending' = NoEvent
  BY <1>1 DEF Rotate, guiVars
<1>6. AppOK'
  BY <1>5, EmptyLemma, KindLemma DEF AppOK
<1> QED BY <1>4, <1>6

(***************************************************************************)
(* The left-hand flag leaves the mapping of another orientation alone, and *)
(* changes that of a horizontal one when no key is on its way.             *)
(***************************************************************************)
LEMMA HandStep ==
    ASSUME TypeOK, DeviceOK, AppOK, HandChange, ~torn'
    PROVE  AppOK'
<1>1. UNCHANGED <<appQueue, ongoing, sending, guiOngoing, guiPort, port, queue, last>>
  BY DEF HandChange, eventVars, guiVars, appVars
<1>2. CASE InFlight
  <2>1. port.turned /\ ~Flipped
    BY <1>2 DEF HandChange
  <2>2. \A k : Owed(k)' <=> Owed(k)
    BY <1>1, <2>1 DEF Owed, MappedKey, Handed, LeftHanded
  <2> QED BY <1>1, <2>2 DEF AppOK, Has, Closed, Opens, Alternates
<1>3. CASE ~InFlight
  <2>1. /\ \A k \in Keys : last[k] = "Release"
        /\ queue = <<>> /\ sending = NoEvent /\ appQueue = <<>>
    BY <1>3 DEF InFlight
  <2>2. guiOngoing = {}
    BY <2>1, EmptyLemma DEF DeviceOK, TypeOK
  <2>3. ongoing = {}
    BY <2>1, <2>2, EmptyLemma, KindLemma DEF AppOK, Owed, TypeOK
  <2>4. appQueue' = <<>> /\ ongoing' = {} /\ sending' = NoEvent
    BY <1>1, <2>1, <2>3
  <2> QED BY <2>4, EmptyLemma, KindLemma DEF AppOK
<1> QED BY <1>2, <1>3

(***************************************************************************)
(* The keys of the application stay in order in every step, unless their   *)
(* mapping changes under an event on its way.                              *)
(***************************************************************************)
LEMMA AppKept ==
    ASSUME TypeOK, DeviceOK, AppOK, [AnyNext]_vars
    PROVE  torn' \/ app' = "gone" \/ AppOK'
<1>1. ASSUME UNCHANGED <<appQueue, ongoing, sending, guiOngoing, guiPort, port, lefty>>
      PROVE  AppOK'
  <2>1. \A k : Owed(k)' <=> Owed(k)
    BY <1>1, MappedSame DEF Owed
  <2> QED BY <1>1, <2>1 DEF AppOK, Has, Closed, Opens, Alternates
<1>2. CASE GuiInput BY <1>2, RoutedStep
<1>3. CASE GuiDeliver BY <1>3, DeliverStep
<1>4. CASE HandleInput
  <2>1. /\ appQueue # <<>> /\ appQueue' = Tail(appQueue)
        /\ ongoing' = Counted(Head(appQueue), ongoing)
        /\ UNCHANGED <<sending, guiOngoing, guiPort, port, lefty>>
    BY <1>4 DEF HandleInput, guiVars
  <2> QED BY <2>1, CountStep
<1>5. CASE Drain
  <2>1. CASE ongoing = {}
    BY <1>1, <1>5, <2>1 DEF Drain, guiVars
  <2>2. CASE ongoing # {}
    <3>1. /\ appQueue # <<>> /\ appQueue' = Tail(appQueue)
          /\ ongoing' = Counted(Head(appQueue), ongoing)
          /\ UNCHANGED <<sending, guiOngoing, guiPort, port, lefty>>
      BY <1>5, <2>2 DEF Drain, guiVars
    <3> QED BY <3>1, CountStep
  <2> QED BY <2>1, <2>2
<1>6. ASSUME NEW v, Switch(v) PROVE AppOK'
  BY <1>6, CurrentStep DEF Switch, guiVars
<1>7. ASSUME NEW v, RemoveView(v) PROVE AppOK'
  <2>1. UNCHANGED <<ongoing, sending, guiOngoing, guiPort, lefty>>
    BY <1>7 DEF RemoveView, guiVars
  <2>2. SetCurrentView(NoView) \/ UNCHANGED <<appQueue, port>>
    BY <1>7 DEF RemoveView
  <2> QED BY <1>1, <2>1, <2>2, CurrentStep
<1>8. CASE Rotate \/ HandChange BY <1>8, RotateStep, HandStep
<1>9. CASE FreeDispatcher BY <1>9 DEF FreeDispatcher
<1>10. CASE \/ \E k \in Keys, type \in Types : Arrives(k, type)
            \/ ScreenChange \/ OtherCallback \/ CallbackReturn \/ Stop \/ LoopEnds
            \/ UNCHANGED vars
  BY <1>1, <1>10 DEF Arrives, ScreenChange, OtherCallback, CallbackReturn, Stop, LoopEnds, vars,
                     guiVars, appVars
<1> QED BY <1>2, <1>3, <1>4, <1>5, <1>6, <1>7, <1>8, <1>9, <1>10 DEF AnyNext, RouteNext

-----------------------------------------------------------------------------
\* The application and its views.

(***************************************************************************)
(* The dispatcher gives a Press to the view that then holds it, and the    *)
(* Release to the same view, whatever the current one is by then.          *)
(***************************************************************************)
LEMMA HandleStep ==
    ASSUME TypeOK, AppOK, ViewOK, HandleInput
    PROVE  ViewOK'
<1> DEFINE e == Head(appQueue)
           keys == Counted(e, ongoing)
           t == IF FirstPress(e, keys) THEN current ELSE target
<1>1. /\ appQueue \in Seq(Event) /\ appQueue # <<>> /\ ongoing \in SUBSET Keys
      /\ holds \in [AllViews -> SUBSET Keys]
      /\ current \in AllViews \cup {NoView} /\ target \in AllViews \cup {NoView}
  BY DEF TypeOK, HandleInput
<1>2. e \in Event /\ e.key \in Keys
  BY <1>1, HeadTailProperties, EventLemma
<1>3. e.type = "Press" => e.key \notin ongoing
  <2>1. e.key \in ongoing => Opens(appQueue, e.key)
    BY <1>2 DEF AppOK
  <2>2. Opens(appQueue, e.key) => e # PressOf(e.key)
    BY <1>1, <1>2, TakeLemma
  <2>3. e = PressOf(e.key) <=> e.type = "Press"
    BY <1>2, EventLemma
  <2> QED BY <2>1, <2>2, <2>3
<1>4. /\ ongoing' = keys
      /\ IF e.type \notin {"Press", "Release"} /\ e.key \notin keys
         THEN UNCHANGED <<target, app, holds>>
         ELSE /\ target' = t
              /\ IF current # NoView /\ t = current
                 THEN Delivered(current, e)
                 ELSE IF ReleaseBehind(e, t) THEN Delivered(t, e) ELSE UNCHANGED holds
  <2> HIDE DEF e
  <2> QED BY DEF HandleInput, e
<1>5. \A v \in AllViews : holds[v] \subseteq ongoing /\ (holds[v] # {} => v = target)
  BY DEF ViewOK
<1> SUFFICES ASSUME NEW v \in AllViews
             PROVE  holds'[v] \subseteq ongoing' /\ (holds'[v] # {} => v = target')
  BY DEF ViewOK
<1>6. CASE e.type = "Press"
  <2>1. keys = ongoing \cup {e.key}
    BY <1>6 DEF Counted
  <2>2. FirstPress(e, keys) <=> ongoing = {}
    BY <1>3, <1>6, <2>1 DEF FirstPress
  <2>3. holds[v] # {} => v = t
    BY <1>5, <2>2
  <2> HIDE DEF e, keys, t
  <2>4. target' = t
    BY <1>4, <1>6
  <2>5. \/ holds' = holds
        \/ t # NoView /\ holds' = [holds EXCEPT ![t] = holds[t] \cup {e.key}]
    BY <1>4, <1>6 DEF Delivered, ReleaseBehind
  <2>6. holds'[v] = holds[v] \/ (v = t /\ holds'[v] = holds[v] \cup {e.key})
    BY <1>1, <2>5
  <2> QED BY <1>4, <1>5, <2>1, <2>3, <2>4, <2>6
<1>7. CASE e.type = "Release"
  <2>1. keys = ongoing \ {e.key}
    BY <1>7 DEF Counted
  <2>2. t = target
    BY <1>7 DEF FirstPress
  <2> HIDE DEF e, keys, t
  <2>3. target' = target
    BY <1>4, <1>7, <2>2
  <2>4. target # NoView => holds' = [holds EXCEPT ![target] = holds[target] \ {e.key}]
    BY <1>4, <1>7, <2>2 DEF Delivered, ReleaseBehind
  <2>5. target = NoView => holds' = holds
    BY <1>4, <1>7, <2>2 DEF ReleaseBehind
  <2>6. CASE v = target
    <3>1. holds'[v] = holds[v] \ {e.key}
      BY <1>1, <2>4, <2>6
    <3> QED BY <1>4, <1>5, <2>1, <2>3, <2>6, <3>1
  <2>7. CASE v # target
    <3>1. holds'[v] = holds[v]
      BY <1>1, <2>4, <2>5, <2>7
    <3> QED BY <1>5, <2>7, <3>1
  <2> QED BY <2>6, <2>7
<1>8. CASE e.type \notin {"Press", "Release"}
  <2>1. keys = ongoing
    BY <1>8 DEF Counted
  <2>2. t = target
    BY <1>8 DEF FirstPress
  <2> HIDE DEF e, keys, t
  <2>3. target' = target
    BY <1>4, <2>2
  <2>4. holds' = holds \/ \E x : holds' = [holds EXCEPT ![x] = holds[x]]
    BY <1>4, <1>8 DEF Delivered, ReleaseBehind
  <2>5. holds'[v] = holds[v]
    BY <1>1, <2>4
  <2> QED BY <1>4, <1>5, <2>1, <2>3, <2>5
<1> QED BY <1>6, <1>7, <1>8

(***************************************************************************)
(* As long as the event loop runs, the views hold counted keys only.       *)
(***************************************************************************)
LEMMA ViewKept ==
    ASSUME TypeOK, DeviceOK, AppOK, ViewOK, [AnyNext]_vars,
           app \notin {"drain", "exit", "gone"}
    PROVE  torn' \/ app' \in {"drain", "exit", "gone"} \/ ViewOK'
<1>1. ASSUME UNCHANGED <<ongoing, target, holds>> PROVE ViewOK'
  BY <1>1 DEF ViewOK
<1>2. CASE HandleInput BY <1>2, HandleStep
<1>3. CASE Rotate
  <2>1. ~torn' => ongoing = {}
    BY <1>3, RotateStep
  <2>2. ongoing' = {} /\ target' = target /\ holds' = holds
    BY <1>3 DEF Rotate
  <2> QED BY <1>1, <2>1, <2>2
<1>4. CASE LoopEnds BY <1>4 DEF LoopEnds
<1>5. CASE Drain \/ FreeDispatcher BY <1>5 DEF Drain, FreeDispatcher
<1>6. ASSUME NEW v, Switch(v) PROVE ViewOK'
  BY <1>1, <1>6 DEF Switch
<1>7. ASSUME NEW v, RemoveView(v) PROVE FALSE
  BY <1>7 DEF RemoveView
<1>8. CASE \/ \E k \in Keys, type \in Types : Arrives(k, type)
           \/ GuiInput \/ GuiDeliver
           \/ ScreenChange \/ HandChange \/ OtherCallback \/ CallbackReturn \/ Stop
           \/ UNCHANGED vars
  BY <1>1, <1>8 DEF Arrives, GuiInput, GuiDeliver, ScreenChange, HandChange, OtherCallback,
                    CallbackReturn, Stop, vars, appVars
<1> QED BY <1>2, <1>3, <1>4, <1>5, <1>6, <1>7, <1>8 DEF AnyNext, RouteNext

-----------------------------------------------------------------------------
\* The theorems.

(***************************************************************************)
(* A change of the mapping under an event, and the end of the loop and the *)
(* dispatcher, are not undone.                                             *)
(***************************************************************************)
LEMMA NoReturn ==
    ASSUME TypeOK, [AnyNext]_vars
    PROVE  /\ torn => torn'
           /\ app = "gone" => app' = "gone"
           /\ app \in {"drain", "exit", "gone"} => app' \in {"drain", "exit", "gone"}
<1>1. ASSUME NEW v, Switch(v) \/ RemoveView(v)
      PROVE  torn' = torn /\ (app' = app \/ app = "callback")
  BY <1>1 DEF Switch, RemoveView
<1>2. torn => torn'
  BY <1>1 DEF AnyNext, RouteNext, Arrives, GuiInput, GuiDeliver, ScreenChange, HandChange,
              HandleInput, OtherCallback, Rotate, CallbackReturn, Stop, LoopEnds, Drain, FreeDispatcher, vars
<1>3. app = "gone" => app' = "gone"
  BY <1>1 DEF AnyNext, RouteNext, Arrives, GuiInput, GuiDeliver, ScreenChange, HandChange,
              HandleInput, OtherCallback, Rotate, CallbackReturn, Stop, LoopEnds, Drain, FreeDispatcher, vars, appVars
<1>4. app \in {"drain", "exit", "gone"} => app' \in {"drain", "exit", "gone"}
  BY <1>1 DEF AnyNext, RouteNext, Arrives, GuiInput, GuiDeliver, ScreenChange, HandChange,
              HandleInput, OtherCallback, Rotate, CallbackReturn, Stop, LoopEnds, Drain, FreeDispatcher, vars, appVars
<1> QED BY <1>2, <1>3, <1>4

(***************************************************************************)
(* At first nothing is on its way.                                         *)
(***************************************************************************)
LEMMA InitInv == Init => IndInv
<1> SUFFICES ASSUME Init PROVE IndInv
  OBVIOUS
<1>1. TypeOK
  <2>1. queue \in Seq(Event) /\ last \in [Keys -> Types] /\ appQueue \in Seq(Event)
    BY DEF Init, InitEvents, Types
  <2>2. /\ screen \in [covered: BOOLEAN, direct: BOOLEAN]
        /\ port \in [added: BOOLEAN, enabled: BOOLEAN, turned: BOOLEAN]
    BY DEF Init
  <2>3. holds \in [AllViews -> SUBSET Keys] /\ current \in AllViews \cup {NoView}
    BY DEF Init, AllViews
  <2> QED BY <2>1, <2>2, <2>3 DEF Init, TypeOK
<1>2. DeviceOK
  BY EmptyLemma DEF Init, InitEvents, DeviceOK
<1>3. AppOK
  BY EmptyLemma, KindLemma DEF Init, AppOK
<1>4. ViewOK
  BY DEF Init, ViewOK
<1> QED BY <1>1, <1>2, <1>3, <1>4 DEF IndInv

(***************************************************************************)
(* IndInv is inductive.                                                    *)
(***************************************************************************)
LEMMA StepInv == IndInv /\ [AnyNext]_vars => IndInv'
<1> SUFFICES ASSUME IndInv, [AnyNext]_vars PROVE IndInv'
  OBVIOUS
<1>1. TypeOK' /\ DeviceOK'
  BY TypeStep, DeviceStep DEF IndInv
<1>2. torn' \/ app' = "gone" \/ AppOK'
  BY NoReturn, AppKept DEF IndInv
<1>3. torn' \/ app' \in {"drain", "exit", "gone"} \/ ViewOK'
  BY NoReturn, ViewKept DEF IndInv
<1> QED BY <1>1, <1>2, <1>3 DEF IndInv

(***************************************************************************)
(* IndInv holds in every state the program can reach.                      *)
(***************************************************************************)
THEOREM Invariance == Spec => []IndInv
<1>1. [Next]_vars => [AnyNext]_vars
  BY DEF Next, AnyNext, Input
<1> QED BY InitInv, StepInv, <1>1, PTL DEF Spec

(***************************************************************************)
(* The types are correct.                                                  *)
(***************************************************************************)
THEOREM TypeCorrect == Spec => []TypeOK
<1>1. IndInv => TypeOK
  BY DEF IndInv
<1> QED BY Invariance, <1>1, PTL

\* A counted key is one whose Release has not come yet.
LEMMA KeysOwn == IndInv => KeysOwnRelease
<1> SUFFICES ASSUME IndInv, ~torn, app # "gone", NEW k \in ongoing
             PROVE  Comes(k)
  BY DEF KeysOwnRelease
<1>1. TypeOK /\ DeviceOK /\ AppOK
  BY DEF IndInv
<1>2. k \in Keys
  BY <1>1 DEF TypeOK
<1>3. Has(appQueue, k) \/ sending = ReleaseOf(k) \/ Owed(k)
  BY <1>1, <1>2 DEF AppOK
<1>4. CASE Has(appQueue, k)
  <2>1. appQueue \in Seq(Event)
    BY <1>1 DEF TypeOK
  <2>2. ReleaseOf(k) \in Range(appQueue)
    BY <1>4, <2>1 DEF Has, Range
  <2> QED BY <2>2 DEF Comes, ReleaseOf
<1>5. CASE sending = ReleaseOf(k)
  BY <1>5 DEF Comes, ReleaseOf
<1>6. CASE Owed(k)
  <2>1. PICK p \in guiOngoing : MappedKey(p) = k
    BY <1>6 DEF Owed
  <2>2. p \in Keys /\ queue \in Seq(Event)
    BY <1>1 DEF TypeOK
  <2>5. last[p] # "Release" \/ Has(queue, p)
    BY <1>1, <2>2 DEF DeviceOK
  <2>6. last[p] # "Release" \/ ReleaseOf(p) \in Range(queue)
    BY <2>2, <2>5 DEF Has, Range
  <2> QED BY <2>1, <2>2, <2>6 DEF Comes, ReleaseOf
<1> QED BY <1>3, <1>4, <1>5, <1>6

(***************************************************************************)
(* Every key the dispatcher counts as held owns a Release that is still on *)
(* its way to it, so that the drain at the end of view_dispatcher_run does *)
(* not wait for one that was dropped.                                      *)
(***************************************************************************)
THEOREM KeysKeepRelease == Spec => []KeysOwnRelease
BY Invariance, KeysOwn, PTL

\* And every key that a view holds is one of those, and its Release goes there.
LEMMA ViewsGet == IndInv => ViewsGetRelease
BY DEF IndInv, ViewOK, ViewsGetRelease

(***************************************************************************)
(* As long as the event loop runs, a view that has seen the Press of a key *)
(* but not its Release is the one the Release goes to, and the key counts. *)
(***************************************************************************)
THEOREM ViewsKeepRelease == Spec => []ViewsGetRelease
BY Invariance, ViewsGet, PTL

(***************************************************************************)
(* A view is told of a Press only if it does not hold the key: Press and   *)
(* Release of a key come to it alternately, whatever views are switched    *)
(* and whatever is left in the queue in between.                           *)
(***************************************************************************)
PressIsNew ==
    [][HandleInput /\ ~torn /\ Head(appQueue).type = "Press" =>
           \A v \in AllViews : Head(appQueue).key \notin holds[v]]_vars

THEOREM ViewsSeePressOnce == Spec => PressIsNew
<1> DEFINE New == HandleInput /\ ~torn /\ Head(appQueue).type = "Press" =>
                     \A v \in AllViews : Head(appQueue).key \notin holds[v]
<1>1. IndInv => New
  <2> SUFFICES ASSUME IndInv, HandleInput, ~torn, Head(appQueue).type = "Press",
                      NEW v \in AllViews
               PROVE  Head(appQueue).key \notin holds[v]
    OBVIOUS
  <2> DEFINE e == Head(appQueue)
  <2>1. AppOK /\ ViewOK
    BY DEF IndInv, HandleInput
  <2>2. appQueue \in Seq(Event) /\ appQueue # <<>>
    BY DEF IndInv, TypeOK, HandleInput
  <2>3. e \in Event /\ 1 \in 1..Len(appQueue) /\ appQueue[1] = e
    BY <2>2, HeadTailProperties, LenProperties
  <2>4. e.key \in Keys /\ e = PressOf(e.key)
    BY <2>3, EventLemma
  <2>5. ~Opens(appQueue, e.key)
    BY <2>3, <2>4 DEF Opens
  <2>6. e.key \notin ongoing
    BY <2>1, <2>4, <2>5 DEF AppOK
  <2> QED BY <2>1, <2>6 DEF ViewOK
<1> QED BY <1>1, Invariance, PTL DEF PressIsNew

-----------------------------------------------------------------------------
(***************************************************************************)
(* The input service, which publishes the events that ViewDispatcher takes *)
(* from KeyEvents: for any keys, debouncing time and length of the queue.  *)
(***************************************************************************)
\* The types of the service's state.
ServiceTypes ==
    /\ pin \in [Keys -> BOOLEAN] /\ state \in [Keys -> BOOLEAN] /\ armed \in [Keys -> BOOLEAN]
    /\ at \in 0..Len(KeyOrder)
    /\ step \in {"sample", "wait", "Press", "Short", "Release"}
    /\ counter \in [Keys -> 0..LongCounts]
    /\ pending \in [Keys -> Seq({"start", "stop"})]
    /\ daemon \in Event \cup {NoEvent}
    /\ last \in [Keys -> Types]

\* The thread is changing the state of the key k, and has got so far.
Doing(k, s) == at # 0 /\ Key = k /\ step = s
Busy(k) == \E s \in {"wait", "Press", "Short", "Release"} : Doing(k, s)

\* The key's timer runs, or will when the timer service has seen the commands.
Wanted(k) ==
    IF pending[k] = <<>> THEN armed[k] ELSE pending[k][Len(pending[k])] = "start"

\* The timer service is about to publish the Long of the key.
LongDue(k) == daemon # NoEvent /\ daemon.key = k /\ daemon.type = "Long"

\* What a key that is held has published agrees with its press counter.
HeldOK(k) == IF counter[k] < LongCounts \/ LongDue(k) THEN last[k] = "Press"
                                                     ELSE last[k] \in {"Long", "Repeat"}

\* How far the events of a key have come, by what the thread does with it.  Its
\* timer runs only while it is held, or while the thread waits for the stop.
KeyOK(k) ==
    /\ Wanted(k) => state[k]
    /\ armed[k] => state[k] \/ Doing(k, "wait")
    /\ Doing(k, "Press") => state[k] /\ last[k] = "Release" /\ counter[k] = 0
    /\ Doing(k, "wait") => ~state[k] /\ HeldOK(k)
    /\ Doing(k, "Short") => ~state[k] /\ last[k] = "Press"
    /\ Doing(k, "Release") =>
         ~state[k] /\ last[k] \in {"Short", "Long", "Repeat"} /\ counter[k] = 0
    /\ ~Busy(k) => IF state[k] THEN HeldOK(k) ELSE last[k] = "Release" /\ counter[k] = 0

\* The timer service publishes for a key whose timer runs.
DaemonOK ==
    daemon # NoEvent =>
        /\ daemon.type \in {"Long", "Repeat"}
        /\ armed[daemon.key] /\ counter[daemon.key] = LongCounts

ServiceInv ==
    /\ ServiceTypes
    /\ at = 0 => step = "sample"
    /\ DaemonOK
    /\ \A k \in Keys : KeyOK(k)

(***************************************************************************)
(* The keys are sampled in some order.                                     *)
(***************************************************************************)
LEMMA OrderLemma ==
    ASSUME ServiceTypes
    PROVE  /\ Len(KeyOrder) \in Nat \ {0}
           /\ \A i \in 1..Len(KeyOrder) : KeyOrder[i] \in Keys
           /\ at # 0 => Key \in Keys
<1>1. Len(KeyOrder) \in Nat \ {0}
  BY EmptySeq, LenProperties, InputAssumption
<1>2. \A i \in 1..Len(KeyOrder) : KeyOrder[i] \in Keys
  BY InputAssumption
<1>3. at # 0 => at \in 1..Len(KeyOrder)
  BY <1>1 DEF ServiceTypes
<1> QED BY <1>1, <1>2, <1>3 DEF Key

(***************************************************************************)
(* A step that changes nothing of a key keeps what is known of it.         *)
(***************************************************************************)
LEMMA KeyFrame ==
    ASSUME NEW k, KeyOK(k),
           pending'[k] = pending[k], armed'[k] = armed[k], state'[k] = state[k],
           counter'[k] = counter[k], last'[k] = last[k],
           \A s \in {"wait", "Press", "Short", "Release"} : Doing(k, s)' <=> Doing(k, s),
           LongDue(k)' <=> LongDue(k)
    PROVE  KeyOK(k)'
<1>1. Wanted(k)' <=> Wanted(k)
  BY DEF Wanted
<1>2. Busy(k)' <=> Busy(k)
  BY DEF Busy
<1>3. HeldOK(k)' <=> HeldOK(k)
  BY DEF HeldOK
<1> QED BY <1>1, <1>2, <1>3 DEF KeyOK

(***************************************************************************)
(* Going to the next key, or to sleep, ends what the thread has done.      *)
(***************************************************************************)
LEMMA AdvanceLemma ==
    ASSUME ServiceTypes, at # 0, NEW u \in BOOLEAN, Advance(u)
    PROVE  /\ at' \in 0..Len(KeyOrder) /\ step' = "sample"
           /\ \A k : ~Busy(k)'
           /\ \A k : \A s \in {"wait", "Press", "Short", "Release"} : ~Doing(k, s)'
<1>1. step' = "sample"
  BY DEF Advance
<1>2. at' \in 0..Len(KeyOrder)
  <2>1. Len(KeyOrder) \in Nat \ {0}
    BY OrderLemma
  <2>2. at \in 1..Len(KeyOrder)
    BY <2>1 DEF ServiceTypes
  <2>3. (at' = at + 1 /\ at < Len(KeyOrder)) \/ at' = 1 \/ at' = 0
    BY DEF Advance
  <2> QED BY <2>1, <2>2, <2>3
<1> QED BY <1>1, <1>2 DEF Busy, Doing

(***************************************************************************)
(* The thread publishes an event in its turn.                              *)
(***************************************************************************)
LEMMA PutEvent ==
    ASSUME ServiceTypes, NEW k \in Keys, NEW t \in Types,
           Put(k, t), <<last[k], t>> \in Follows
    PROVE  /\ NextEvents
           /\ last' \in [Keys -> Types] /\ last'[k] = t
           /\ \A j \in Keys : j # k => last'[j] = last[j]
<1>1. NextEvents
  BY DEF NextEvents, Publish
<1>2. last' = [last EXCEPT ![k] = t] /\ last \in [Keys -> Types]
  BY DEF Put, ServiceTypes
<1> QED BY <1>1, <1>2

(***************************************************************************)
(* What a step keeps.                                                      *)
(***************************************************************************)
Keeps == ServiceInv' /\ (NextEvents \/ UNCHANGED eventVars)

(***************************************************************************)
(* An edge of a pin, the flag that wakes the thread and the GUI that takes *)
(* an event change nothing of what the keys have published.                *)
(***************************************************************************)
LEMMA QuietStep ==
    ASSUME ServiceInv,
           (\E k \in Keys : Edge(k)) \/ Wake \/ GuiTakes \/ UNCHANGED inputVars
    PROVE  Keeps
<1>1. ServiceTypes /\ DaemonOK /\ (at = 0 => step = "sample")
  BY DEF ServiceInv
<1>2. UNCHANGED <<pending, armed, daemon, state, counter, last, step>>
  BY DEF Edge, Wake, GuiTakes, Take, inputVars, timerVars,
         threadVars, eventVars
<1>3. pin' \in [Keys -> BOOLEAN]
  <2>1. ASSUME NEW k \in Keys, Edge(k) PROVE pin' \in [Keys -> BOOLEAN]
    <3>1. pin' = [pin EXCEPT ![k] = ~pin[k]] /\ (~pin[k]) \in BOOLEAN
      BY <2>1 DEF Edge
    <3> QED BY <1>1, <3>1 DEF ServiceTypes
  <2> QED BY <1>1, <2>1 DEF ServiceTypes, Wake, GuiTakes, inputVars
<1>4. at' = at \/ (at = 0 /\ at' = 1)
  BY DEF Edge, Wake, GuiTakes, inputVars, threadVars
<1>5. at' \in 0..Len(KeyOrder)
  <2>1. Len(KeyOrder) \in Nat \ {0}
    BY <1>1, OrderLemma
  <2>2. at \in 0..Len(KeyOrder)
    BY <1>1 DEF ServiceTypes
  <2> QED BY <1>4, <2>1, <2>2
<1>6. ASSUME NEW k, NEW s \in {"wait", "Press", "Short", "Release"}
      PROVE  Doing(k, s)' <=> Doing(k, s)
  BY <1>1, <1>2, <1>4 DEF Doing, Key
<1>7. ServiceTypes' /\ DaemonOK' /\ (at' = 0 => step' = "sample")
  BY <1>1, <1>2, <1>3, <1>4, <1>5 DEF ServiceTypes, DaemonOK
<1>8. \A k : LongDue(k)' <=> LongDue(k)
  BY <1>2 DEF LongDue
<1>9. \A k \in Keys : KeyOK(k)'
  BY <1>2, <1>6, <1>8, KeyFrame DEF ServiceInv
<1>10. NextEvents \/ UNCHANGED eventVars
  BY DEF Edge, Wake, GuiTakes, inputVars, NextEvents, eventVars
<1> QED BY <1>7, <1>9, <1>10 DEF Keeps, ServiceInv

(***************************************************************************)
(* The thread samples a key: it goes on, or the state changes, and with it *)
(* what the timer service is told.                                         *)
(***************************************************************************)
LEMMA SampleStep ==
    ASSUME ServiceInv, Sample
    PROVE  Keeps
<1>1. ServiceTypes /\ DaemonOK /\ at # 0 /\ step = "sample"
  BY DEF ServiceInv, Sample
<1>2. Key \in Keys
  BY <1>1, OrderLemma
<1>3. UNCHANGED <<pin, armed, daemon, counter, queue, last>>
  BY DEF Sample, eventVars
<1>4. \A k : ~Busy(k) /\ \A s \in {"wait", "Press", "Short", "Release"} : ~Doing(k, s)
  BY <1>1 DEF Busy, Doing
<1>5. \A k : LongDue(k)' <=> LongDue(k)
  BY <1>3 DEF LongDue
<1>6. \/ /\ \E u \in BOOLEAN : Advance(u)
         /\ UNCHANGED <<state, pending>>
      \/ /\ state[Key] # pin[Key]
         /\ state' = [state EXCEPT ![Key] = pin[Key]]
         /\ pending' = [pending EXCEPT ![Key] =
                           Append(pending[Key], IF pin[Key] THEN "start" ELSE "stop")]
         /\ step' = IF pin[Key] THEN "Press" ELSE "wait"
         /\ at' = at
  <2> DEFINE d == IF pin[Key]
                  THEN IF debounce[Key] < DebounceTicks THEN debounce[Key] + 1
                                                           ELSE debounce[Key]
                  ELSE IF debounce[Key] > 0 THEN debounce[Key] - 1 ELSE 0
             between == d > 0 /\ d < DebounceTicks
  <2>1. \/ /\ Advance(changing \/ between)
           /\ UNCHANGED <<state, pending>>
        \/ /\ state[Key] # pin[Key]
           /\ state' = [state EXCEPT ![Key] = pin[Key]]
           /\ pending' = [pending EXCEPT ![Key] =
                             Append(pending[Key], IF pin[Key] THEN "start" ELSE "stop")]
           /\ step' = IF pin[Key] THEN "Press" ELSE "wait"
           /\ at' = at
    <3> HIDE DEF d
    <3> QED BY DEF Sample, d
  <2>2. (changing \/ between) \in BOOLEAN
    OBVIOUS
  <2> HIDE DEF between
  <2> QED BY <2>1, <2>2
<1>7. CASE (\E u \in BOOLEAN : Advance(u)) /\ UNCHANGED <<state, pending>>
  <2>1. /\ at' \in 0..Len(KeyOrder) /\ step' = "sample"
        /\ \A k : \A s \in {"wait", "Press", "Short", "Release"} : ~Doing(k, s)'
    BY <1>1, <1>7, AdvanceLemma
  <2>2. ServiceTypes' /\ DaemonOK'
    BY <1>1, <1>3, <1>7, <2>1 DEF ServiceTypes, DaemonOK
  <2>3. \A k \in Keys : KeyOK(k)'
    BY <1>3, <1>4, <1>5, <1>7, <2>1, KeyFrame DEF ServiceInv
  <2> QED BY <1>3, <2>1, <2>2, <2>3 DEF Keeps, ServiceInv, eventVars
<1>8. CASE /\ state[Key] # pin[Key]
           /\ state' = [state EXCEPT ![Key] = pin[Key]]
           /\ pending' = [pending EXCEPT ![Key] =
                             Append(pending[Key], IF pin[Key] THEN "start" ELSE "stop")]
           /\ step' = IF pin[Key] THEN "Press" ELSE "wait"
           /\ at' = at
  <2> DEFINE c == IF pin[Key] THEN "start" ELSE "stop"
  <2>1. c \in {"start", "stop"} /\ pending[Key] \in Seq({"start", "stop"})
    BY <1>1, <1>2 DEF ServiceTypes
  <2>2. /\ Append(pending[Key], c) \in Seq({"start", "stop"})
        /\ Append(pending[Key], c) # <<>>
        /\ Append(pending[Key], c)[Len(Append(pending[Key], c))] = c
    <3>1. Append(pending[Key], c) \in Seq({"start", "stop"}) /\ Append(pending[Key], c) # <<>>
      BY <2>1, AppendProperties
    <3>2. /\ Len(Append(pending[Key], c)) = Len(pending[Key]) + 1
          /\ Append(pending[Key], c)[Len(pending[Key]) + 1] = c
      BY <2>1, AppendProperties
    <3> QED BY <3>1, <3>2
  <2>3. /\ state' \in [Keys -> BOOLEAN] /\ state'[Key] = pin[Key]
        /\ \A k \in Keys : k # Key => state'[k] = state[k]
    BY <1>1, <1>2, <1>8 DEF ServiceTypes
  <2>4. /\ pending' \in [Keys -> Seq({"start", "stop"})]
        /\ pending'[Key] = Append(pending[Key], c)
        /\ \A k \in Keys : k # Key => pending'[k] = pending[k]
    <3> HIDE DEF c
    <3>1. pending' = [pending EXCEPT ![Key] = Append(pending[Key], c)]
      BY <1>8 DEF c
    <3> QED BY <1>1, <1>2, <2>2, <3>1 DEF ServiceTypes
  <2>5. ServiceTypes' /\ DaemonOK'
    BY <1>1, <1>3, <1>8, <2>3, <2>4 DEF ServiceTypes, DaemonOK
  <2>6. Key' = Key
    BY <1>8 DEF Key
  <2>7. ASSUME NEW k \in Keys, k # Key PROVE KeyOK(k)'
    <3>1. \A s \in {"wait", "Press", "Short", "Release"} : ~Doing(k, s)'
      BY <2>6, <2>7 DEF Doing
    <3>2. KeyOK(k)
      BY DEF ServiceInv
    <3>3. /\ pending'[k] = pending[k] /\ armed'[k] = armed[k] /\ state'[k] = state[k]
          /\ counter'[k] = counter[k] /\ last'[k] = last[k]
      BY <1>3, <2>3, <2>4, <2>7
    <3>4. \A s \in {"wait", "Press", "Short", "Release"} : Doing(k, s)' <=> Doing(k, s)
      BY <1>4, <3>1
    <3>5. LongDue(k)' <=> LongDue(k)
      BY <1>5
    <3> QED BY <3>2, <3>3, <3>4, <3>5, KeyFrame
  <2>8. KeyOK(Key)'
    <3> SUFFICES ASSUME NEW k \in Keys, k = Key PROVE KeyOK(k)'
      BY <1>2, <2>6
    <3>1. KeyOK(k)
      BY DEF ServiceInv
    <3>2. /\ armed[k] => state[k]
          /\ IF state[k] THEN HeldOK(k) ELSE last[k] = "Release" /\ counter[k] = 0
      BY <1>4, <3>1 DEF KeyOK
    <3>3. state[k] \in BOOLEAN /\ pin[k] \in BOOLEAN /\ state[k] # pin[k]
      BY <1>1, <1>8 DEF ServiceTypes
    <3>4. Wanted(k)' => state'[k]
      <4>1. /\ pending'[k] # <<>>
            /\ pending'[k][Len(pending'[k])] = IF pin[k] THEN "start" ELSE "stop"
        BY <2>2, <2>4
      <4>2. state'[k] = pin[k]
        BY <2>3
      <4> QED BY <4>1, <4>2 DEF Wanted
    <3>5. HeldOK(k)' <=> HeldOK(k)
      <4>1. LongDue(k)' <=> LongDue(k)
        BY <1>5
      <4>2. counter' = counter /\ last' = last
        BY <1>3
      <4> QED BY <4>1, <4>2 DEF HeldOK
    <3>6. /\ Doing(k, "Press")' <=> pin[k]
          /\ Doing(k, "wait")' <=> ~pin[k]
          /\ ~Doing(k, "Short")' /\ ~Doing(k, "Release")' /\ Busy(k)'
      BY <1>1, <1>8, <2>6 DEF Busy, Doing
    <3>7. /\ state'[k] = pin[k] /\ armed'[k] = armed[k]
          /\ last'[k] = last[k] /\ counter'[k] = counter[k]
      BY <1>3, <2>3
    <3>8. CASE pin[k]
      BY <3>2, <3>3, <3>4, <3>6, <3>7, <3>8 DEF KeyOK
    <3>9. CASE ~pin[k]
      BY <3>2, <3>3, <3>4, <3>5, <3>6, <3>7, <3>9 DEF KeyOK
    <3> QED BY <3>8, <3>9
  <2>9. \A k \in Keys : KeyOK(k)'
    BY <2>7, <2>8, <2>6
  <2> QED BY <1>1, <1>3, <1>8, <2>5, <2>9 DEF Keeps, ServiceInv, eventVars
<1> QED BY <1>6, <1>7, <1>8

(***************************************************************************)
(* The thread has seen that the timer has stopped: the key gets no event   *)
(* of it any more, and the press counter tells which it has got.           *)
(***************************************************************************)
LEMMA WaitStep ==
    ASSUME ServiceInv, WaitStopped
    PROVE  Keeps
<1>1. ServiceTypes /\ DaemonOK /\ at # 0 /\ step = "wait" /\ ~armed[Key]
  BY DEF ServiceInv, WaitStopped
<1>2. Key \in Keys
  BY <1>1, OrderLemma
<1>3. UNCHANGED <<pin, at, armed, pending, daemon, state, queue, last>>
  BY DEF WaitStopped, timerVars, eventVars
<1>4. Key' = Key
  BY <1>3 DEF Key
<1>5. \E c \in 0..LongCounts :
         /\ c = IF counter[Key] < LongCounts THEN counter[Key] ELSE 0
         /\ counter' = [counter EXCEPT ![Key] = c]
  <2>1. counter[Key] \in 0..LongCounts /\ 0 \in 0..LongCounts
    BY <1>1, <1>2 DEF ServiceTypes, LongCounts
  <2> QED BY <2>1 DEF WaitStopped
<1>6. /\ step' = IF counter[Key] < LongCounts THEN "Short" ELSE "Release"
      /\ counter'[Key] = IF counter[Key] < LongCounts THEN counter[Key] ELSE 0
      /\ counter' \in [Keys -> 0..LongCounts]
      /\ \A k \in Keys : k # Key => counter'[k] = counter[k]
  <2>1. step' = IF counter[Key] < LongCounts THEN "Short" ELSE "Release"
    BY DEF WaitStopped
  <2>2. counter \in [Keys -> 0..LongCounts]
    BY <1>1 DEF ServiceTypes
  <2> QED BY <1>2, <1>5, <2>1, <2>2
<1>7. daemon # NoEvent => daemon.key # Key
  BY <1>1 DEF DaemonOK
<1>8. daemon # NoEvent => daemon.key \in Keys
  <2>1. daemon # NoEvent => daemon \in Event
    BY <1>1 DEF ServiceTypes
  <2> QED BY <2>1 DEF Event
<1>9. ServiceTypes' /\ DaemonOK' /\ at' # 0
  BY <1>1, <1>3, <1>6, <1>7, <1>8 DEF ServiceTypes, DaemonOK
<1>10. ASSUME NEW k \in Keys PROVE KeyOK(k)'
  <2>1. KeyOK(k) /\ (LongDue(k)' <=> LongDue(k))
    BY <1>3 DEF ServiceInv, LongDue
  <2>2. CASE k # Key
    <3>1. \A s \in {"wait", "Press", "Short", "Release"} :
              Doing(k, s)' <=> Doing(k, s)
      BY <1>4, <2>2 DEF Doing
    <3> QED BY <1>3, <1>6, <2>1, <2>2, <3>1, KeyFrame
  <2>3. CASE k = Key
    <3>1. /\ ~state[k] /\ HeldOK(k) /\ ~armed[k] /\ (Wanted(k) => state[k])
      BY <1>1, <2>1, <2>3 DEF KeyOK, Doing
    <3>2. ~LongDue(k)
      BY <1>7, <2>3 DEF LongDue
    <3>3. /\ Doing(k, "Short")' <=> counter[k] < LongCounts
          /\ Doing(k, "Release")' <=> ~(counter[k] < LongCounts)
          /\ ~Doing(k, "wait")' /\ ~Doing(k, "Press")' /\ Busy(k)'
      BY <1>1, <1>3, <1>4, <1>6, <2>3 DEF Busy, Doing
    <3>4. Wanted(k)' => state'[k]
      BY <1>3, <3>1 DEF Wanted
    <3>5. /\ state'[k] = state[k] /\ last'[k] = last[k] /\ armed'[k] = armed[k]
          /\ counter'[k] = IF counter[k] < LongCounts THEN counter[k] ELSE 0
      BY <1>3, <1>6, <2>3
    <3>6. IF counter[k] < LongCounts THEN last[k] = "Press" ELSE last[k] \in {"Long", "Repeat"}
      BY <3>1, <3>2 DEF HeldOK
    <3> QED BY <3>1, <3>3, <3>4, <3>5, <3>6 DEF KeyOK
  <2> QED BY <2>2, <2>3
<1> QED BY <1>3, <1>9, <1>10 DEF Keeps, ServiceInv, eventVars

(***************************************************************************)
(* The thread publishes Short before the Release.                          *)
(***************************************************************************)
LEMMA ShortStep ==
    ASSUME ServiceInv, PublishShort
    PROVE  Keeps
<1>1. ServiceTypes /\ DaemonOK /\ at # 0 /\ step = "Short"
  BY DEF ServiceInv, PublishShort
<1>2. Key \in Keys
  BY <1>1, OrderLemma
<1>3. UNCHANGED <<pin, at, armed, pending, daemon, state>> /\ step' = "Release"
  BY DEF PublishShort, timerVars
<1>4. Key' = Key
  BY <1>3 DEF Key
<1>5. KeyOK(Key) /\ Doing(Key, "Short")
  BY <1>1, <1>2 DEF ServiceInv, Doing
<1>6. ~state[Key] /\ last[Key] = "Press" /\ ~armed[Key]
  BY <1>1, <1>5 DEF KeyOK, Doing
<1>7. <<last[Key], "Short">> \in Follows
  BY <1>6 DEF Follows
<1>8. /\ NextEvents
      /\ last' \in [Keys -> Types] /\ last'[Key] = "Short"
      /\ \A j \in Keys : j # Key => last'[j] = last[j]
  BY <1>1, <1>2, <1>7, PutEvent DEF PublishShort, Types
<1>9. /\ counter' \in [Keys -> 0..LongCounts] /\ counter'[Key] = 0
      /\ \A k \in Keys : k # Key => counter'[k] = counter[k]
  <2>1. counter' = [counter EXCEPT ![Key] = 0] /\ counter \in [Keys -> 0..LongCounts]
    BY <1>1 DEF PublishShort, ServiceTypes
  <2>2. 0 \in 0..LongCounts
    BY DEF LongCounts
  <2> QED BY <1>2, <2>1, <2>2
<1>10. daemon # NoEvent => daemon.key # Key /\ daemon.key \in Keys
  <2>1. daemon # NoEvent => daemon \in Event
    BY <1>1 DEF ServiceTypes
  <2> QED BY <1>1, <1>6, <2>1 DEF DaemonOK, Event
<1>11. ServiceTypes' /\ DaemonOK' /\ at' # 0
  BY <1>1, <1>3, <1>8, <1>9, <1>10 DEF ServiceTypes, DaemonOK
<1>12. ASSUME NEW k \in Keys PROVE KeyOK(k)'
  <2>1. KeyOK(k) /\ (LongDue(k)' <=> LongDue(k))
    BY <1>3 DEF ServiceInv, LongDue
  <2>2. CASE k # Key
    <3>1. \A s \in {"wait", "Press", "Short", "Release"} :
              Doing(k, s)' <=> Doing(k, s)
      BY <1>4, <2>2 DEF Doing
    <3> QED BY <1>3, <1>8, <1>9, <2>1, <2>2, <3>1, KeyFrame
  <2>3. CASE k = Key
    <3>1. Doing(k, "Release")' /\ Busy(k)' /\ ~Doing(k, "wait")' /\ ~Doing(k, "Press")'
          /\ ~Doing(k, "Short")'
      BY <1>1, <1>3, <1>4, <2>3 DEF Busy, Doing
    <3>2. Wanted(k)' => state'[k]
      BY <1>3, <2>1 DEF Wanted, KeyOK
    <3>3. /\ ~state'[k] /\ last'[k] = "Short" /\ ~armed'[k] /\ counter'[k] = 0
      BY <1>3, <1>6, <1>8, <1>9, <2>3
    <3> QED BY <3>1, <3>2, <3>3 DEF KeyOK
  <2> QED BY <2>2, <2>3
<1> QED BY <1>8, <1>11, <1>12 DEF Keeps, ServiceInv

(***************************************************************************)
(* The thread publishes the Press, before the timer's first event, or the  *)
(* Release, after its last one.                                            *)
(***************************************************************************)
LEMMA StateStep ==
    ASSUME ServiceInv, PublishState
    PROVE  Keeps
<1>1. ServiceTypes /\ DaemonOK /\ at # 0 /\ step \in {"Press", "Release"}
  BY DEF ServiceInv, PublishState
<1>2. Key \in Keys
  BY <1>1, OrderLemma
<1>3. UNCHANGED <<pin, armed, pending, daemon, state, counter>>
  BY DEF PublishState, timerVars
<1>4. PICK k \in Keys : k = Key
  BY <1>2
<1>5. KeyOK(k) /\ Doing(k, step)
  BY <1>1, <1>4 DEF ServiceInv, Doing
<1>6. /\ counter[k] = 0
      /\ step = "Press" => state[k] /\ last[k] = "Release"
      /\ step = "Release" => ~state[k] /\ last[k] \in {"Short", "Long", "Repeat"}
      /\ Wanted(k) => state[k]
      /\ armed[k] => state[k]
  BY <1>1, <1>5 DEF KeyOK, Doing
<1>7. <<last[k], step>> \in Follows
  BY <1>1, <1>6 DEF Follows
<1>8. /\ NextEvents
      /\ last' \in [Keys -> Types] /\ last'[k] = step
      /\ \A j \in Keys : j # k => last'[j] = last[j]
  <2>1. Put(k, step) /\ step \in Types
    BY <1>1, <1>4 DEF PublishState, Types
  <2> QED BY <1>1, <1>7, <2>1, PutEvent
<1>9. /\ at' \in 0..Len(KeyOrder) /\ step' = "sample"
      /\ \A j : ~Busy(j)'
      /\ \A j : \A s \in {"wait", "Press", "Short", "Release"} : ~Doing(j, s)'
  <2>1. Advance(changing) \/ Advance(FALSE)
    BY DEF PublishState
  <2>2. Advance(TRUE) \/ Advance(FALSE)
    BY <2>1 DEF Advance
  <2> QED BY <1>1, <2>2, AdvanceLemma
<1>10. daemon # NoEvent => daemon.key # k
  BY <1>1, <1>6 DEF DaemonOK, LongCounts
<1>11. ServiceTypes' /\ DaemonOK'
  BY <1>1, <1>3, <1>8, <1>9 DEF ServiceTypes, DaemonOK
<1>12. ASSUME NEW j \in Keys PROVE KeyOK(j)'
  <2>1. KeyOK(j) /\ (LongDue(j)' <=> LongDue(j))
    BY <1>3 DEF ServiceInv, LongDue
  <2>2. CASE j # k
    <3>1. \A s \in {"wait", "Press", "Short", "Release"} : ~Doing(j, s)
      BY <1>4, <2>2 DEF Doing
    <3>2. \A s \in {"wait", "Press", "Short", "Release"} : Doing(j, s)' <=> Doing(j, s)
      BY <1>9, <3>1
    <3>3. /\ pending'[j] = pending[j] /\ armed'[j] = armed[j] /\ state'[j] = state[j]
          /\ counter'[j] = counter[j] /\ last'[j] = last[j]
      BY <1>3, <1>8, <2>2
    <3> QED BY <2>1, <3>2, <3>3, KeyFrame
  <2>3. CASE j = k
    <3>1. Wanted(j)' => state'[j]
      BY <1>3, <2>1 DEF Wanted, KeyOK
    <3>2. /\ counter'[j] = 0 /\ last'[j] = step /\ state'[j] = state[j] /\ armed'[j] = armed[j]
      BY <1>3, <1>6, <1>8, <2>3
    <3>3. state[j] => step = "Press"
      BY <1>1, <1>6, <2>3
    <3>4. ~state[j] => step = "Release" /\ ~armed[j]
      BY <1>1, <1>6, <2>3
    <3>5. state[j] => HeldOK(j)'
      BY <3>2, <3>3 DEF HeldOK, LongCounts
    <3> QED BY <1>9, <3>1, <3>2, <3>4, <3>5 DEF KeyOK
  <2> QED BY <2>2, <2>3
<1> QED BY <1>8, <1>9, <1>11, <1>12 DEF Keeps, ServiceInv

(***************************************************************************)
(* The timer service sees the commands of a key: then the timer runs if    *)
(* and only if the key is held.                                            *)
(***************************************************************************)
LEMMA ProcessStep ==
    ASSUME ServiceInv, NEW k \in Keys, Process(k)
    PROVE  Keeps
<1>1. ServiceTypes /\ daemon = NoEvent /\ pending[k] # <<>>
  BY DEF ServiceInv, Process
<1>2. UNCHANGED <<pin, at, step, state, counter, daemon, queue, last>>
  BY DEF Process, threadVars, eventVars
<1>3. /\ armed' \in [Keys -> BOOLEAN] /\ armed'[k] = (pending[k][Len(pending[k])] = "start")
      /\ \A j \in Keys : j # k => armed'[j] = armed[j]
  BY <1>1 DEF Process, ServiceTypes
<1>4. /\ pending' \in [Keys -> Seq({"start", "stop"})] /\ pending'[k] = <<>>
      /\ \A j \in Keys : j # k => pending'[j] = pending[j]
  <2>1. <<>> \in Seq({"start", "stop"})
    OBVIOUS
  <2> QED BY <1>1, <2>1 DEF Process, ServiceTypes
<1>5. ServiceTypes' /\ DaemonOK' /\ (at' = 0 => step' = "sample")
  BY <1>1, <1>2, <1>3, <1>4 DEF ServiceInv, ServiceTypes, DaemonOK
<1>6. \A j, s : Doing(j, s)' <=> Doing(j, s)
  BY <1>2 DEF Doing, Key
<1>7. ASSUME NEW j \in Keys PROVE KeyOK(j)'
  <2>1. KeyOK(j) /\ (LongDue(j)' <=> LongDue(j))
    BY <1>2 DEF ServiceInv, LongDue
  <2>2. CASE j # k
    BY <1>2, <1>3, <1>4, <1>6, <2>1, <2>2, KeyFrame
  <2>3. CASE j = k
    <3>1. (Wanted(j)' => state'[j]) /\ (armed'[j] => state'[j])
      BY <1>1, <1>2, <1>3, <1>4, <2>1, <2>3 DEF Wanted, KeyOK
    <3>2. HeldOK(j)' <=> HeldOK(j)
      BY <1>2, <2>1 DEF HeldOK
    <3>3. Busy(j)' <=> Busy(j)
      BY <1>6 DEF Busy
    <3> QED BY <1>2, <1>6, <2>1, <3>1, <3>2, <3>3 DEF KeyOK
  <2> QED BY <2>2, <2>3
<1> QED BY <1>2, <1>5, <1>7 DEF Keeps, ServiceInv, eventVars

(***************************************************************************)
(* input_press_timer_callback counts, and after a while makes the Long and *)
(* the Repeat of a key that is held.                                       *)
(***************************************************************************)
LEMMA TickStep ==
    ASSUME ServiceInv, NEW k \in Keys, Tick(k)
    PROVE  Keeps
<1>1. ServiceTypes /\ daemon = NoEvent /\ armed[k] /\ ~Doing(k, "Press")
  BY DEF ServiceInv, Tick, Doing
<1>2. UNCHANGED <<pin, at, step, state, pending, armed, queue, last>>
  BY DEF Tick, threadVars, eventVars
<1>3. counter[k] \in {0, 1, 2}
  BY <1>1 DEF ServiceTypes, LongCounts
<1>4. /\ counter' \in [Keys -> 0..LongCounts]
      /\ counter'[k] = IF counter[k] < 2 THEN counter[k] + 1 ELSE counter[k]
      /\ \A j \in Keys : j # k => counter'[j] = counter[j]
  BY <1>1, <1>3 DEF Tick, ServiceTypes, LongCounts
<1>5. daemon' = IF counter[k] = 1 THEN [key |-> k, type |-> "Long"]
                ELSE IF counter[k] = 2 THEN [key |-> k, type |-> "Repeat"]
                ELSE NoEvent
  BY <1>3 DEF Tick, LongCounts
<1>6. /\ [key |-> k, type |-> "Long"] \in Event /\ [key |-> k, type |-> "Repeat"] \in Event
      /\ [key |-> k, type |-> "Long"].type = "Long"
      /\ [key |-> k, type |-> "Repeat"].type = "Repeat"
      /\ [key |-> k, type |-> "Long"].key = k /\ [key |-> k, type |-> "Repeat"].key = k
      /\ NoEvent # [key |-> k, type |-> "Long"] /\ NoEvent # [key |-> k, type |-> "Repeat"]
  BY EventsAssumption DEF Event, Types, Event, Types
<1>7. ServiceTypes' /\ DaemonOK' /\ (at' = 0 => step' = "sample")
  <2>1. daemon' \in Event \cup {NoEvent}
    BY <1>5, <1>6
  <2>2. DaemonOK'
    BY <1>1, <1>2, <1>3, <1>4, <1>5, <1>6 DEF DaemonOK, LongCounts
  <2> QED BY <1>1, <1>2, <1>4, <2>1, <2>2 DEF ServiceInv, ServiceTypes
<1>8. \A j, s : Doing(j, s)' <=> Doing(j, s)
  BY <1>2 DEF Doing, Key
<1>9. ASSUME NEW j \in Keys PROVE KeyOK(j)'
  <2>1. KeyOK(j)
    BY DEF ServiceInv
  <2>2. CASE j # k
    <3>1. ~LongDue(j) /\ ~LongDue(j)'
      BY <1>1, <1>5, <1>6, <2>2 DEF LongDue
    <3> QED BY <1>2, <1>4, <1>8, <2>1, <2>2, <3>1, KeyFrame
  <2>3. CASE j = k
    <3>1. (state[j] /\ ~Busy(j)) \/ Doing(j, "wait")
      <4>1. state[j] \/ Doing(j, "wait")
        BY <1>1, <2>1, <2>3 DEF KeyOK
      <4>2. Busy(j) => Doing(j, "wait") \/ Doing(j, "Press") \/ ~state[j]
        BY <2>1 DEF Busy, KeyOK
      <4> QED BY <1>1, <2>3, <4>1, <4>2
    <3>2. HeldOK(j) /\ ~LongDue(j)
      BY <1>1, <2>1, <3>1 DEF KeyOK, LongDue
    <3>3. HeldOK(j)'
      <4>1. counter[k] < 2 => last'[k] = "Press"
        BY <1>2, <2>3, <3>2 DEF HeldOK, LongCounts
      <4>2. counter[k] = 2 => last'[k] \in {"Long", "Repeat"}
        BY <1>2, <2>3, <3>2 DEF HeldOK, LongCounts
      <4>3. LongDue(k)' <=> counter[k] = 1
        BY <1>3, <1>5, <1>6 DEF LongDue
      <4>4. CASE counter[k] = 0
        BY <1>4, <2>3, <4>1, <4>4 DEF HeldOK, LongCounts
      <4>5. CASE counter[k] = 1
        BY <2>3, <4>1, <4>3, <4>5 DEF HeldOK
      <4>6. CASE counter[k] = 2
        BY <1>4, <2>3, <4>2, <4>3, <4>6 DEF HeldOK, LongCounts
      <4> QED BY <1>3, <4>4, <4>5, <4>6
    <3>4. (Wanted(j)' => state'[j]) /\ (armed'[j] => state'[j] \/ Doing(j, "wait")')
      BY <1>2, <1>8, <2>1 DEF Wanted, KeyOK
    <3>5. Busy(j)' <=> Busy(j)
      BY <1>8 DEF Busy
    <3>6. /\ ~Doing(j, "Press")' /\ ~Doing(j, "Short")' /\ ~Doing(j, "Release")'
          /\ Doing(j, "wait")' => ~state'[j]
          /\ ~Busy(j)' => state'[j]
      <4>1. ~Doing(j, "Press") /\ ~Doing(j, "Short") /\ ~Doing(j, "Release")
        BY <3>1 DEF Busy, Doing
      <4>2. Doing(j, "wait") => ~state[j]
        BY <2>1 DEF KeyOK
      <4>3. Doing(j, "wait") => Busy(j)
        BY DEF Busy
      <4> QED BY <1>2, <1>8, <3>1, <3>5, <4>1, <4>2, <4>3
    <3> QED BY <3>3, <3>4, <3>6 DEF KeyOK
  <2> QED BY <2>2, <2>3
<1> QED BY <1>2, <1>7, <1>9 DEF Keeps, ServiceInv, eventVars

(***************************************************************************)
(* The timer's event is published: after the Press, and before anything    *)
(* else of the key.                                                        *)
(***************************************************************************)
LEMMA PublishStep ==
    ASSUME ServiceInv, PublishTick
    PROVE  Keeps
<1>1. ServiceTypes /\ DaemonOK /\ daemon # NoEvent
  BY DEF ServiceInv, PublishTick
<1>2. UNCHANGED <<pin, at, step, state, pending, armed, counter>> /\ daemon' = NoEvent
  BY DEF PublishTick, threadVars
<1>3. daemon \in Event
  BY <1>1 DEF ServiceTypes
<1>4. PICK k \in Keys : k = daemon.key
  BY <1>3 DEF Event
<1>5. /\ armed[k] /\ counter[k] = LongCounts /\ daemon.type \in {"Long", "Repeat"}
  BY <1>1, <1>4 DEF DaemonOK
<1>6. KeyOK(k)
  BY DEF ServiceInv
<1>7. (state[k] /\ ~Busy(k)) \/ Doing(k, "wait")
  <2>1. state[k] \/ Doing(k, "wait")
    BY <1>5, <1>6 DEF KeyOK
  <2>2. Busy(k) => Doing(k, "wait") \/ ~state[k]
    BY <1>5, <1>6 DEF Busy, KeyOK, LongCounts
  <2> QED BY <2>1, <2>2
<1>8. HeldOK(k)
  BY <1>6, <1>7 DEF KeyOK
<1>9. <<last[k], daemon.type>> \in Follows
  <2>1. CASE daemon.type = "Long"
    <3>1. last[k] = "Press"
      BY <1>1, <1>4, <1>8, <2>1 DEF HeldOK, LongDue
    <3> QED BY <2>1, <3>1 DEF Follows
  <2>2. CASE daemon.type = "Repeat"
    <3>1. last[k] \in {"Long", "Repeat"}
      BY <1>5, <1>8, <2>2 DEF HeldOK, LongDue, LongCounts
    <3> QED BY <2>2, <3>1 DEF Follows
  <2> QED BY <1>5, <2>1, <2>2
<1>10. /\ NextEvents
       /\ last' \in [Keys -> Types] /\ last'[k] \in {"Long", "Repeat"}
       /\ \A j \in Keys : j # k => last'[j] = last[j]
  <2>1. Put(k, daemon.type) /\ daemon.type \in Types
    BY <1>4, <1>5 DEF PublishTick, Types
  <2> QED BY <1>1, <1>5, <1>9, <2>1, PutEvent
<1>11. ServiceTypes' /\ DaemonOK' /\ (at' = 0 => step' = "sample")
  BY <1>1, <1>2, <1>10 DEF ServiceInv, ServiceTypes, DaemonOK
<1>12. \A j, s : Doing(j, s)' <=> Doing(j, s)
  BY <1>2 DEF Doing, Key
<1>13. ASSUME NEW j \in Keys PROVE KeyOK(j)'
  <2>1. KeyOK(j) /\ ~LongDue(j)'
    BY <1>2 DEF ServiceInv, LongDue
  <2>2. CASE j # k
    <3>1. ~LongDue(j)
      BY <1>4, <2>2 DEF LongDue
    <3> QED BY <1>2, <1>10, <1>12, <2>1, <2>2, <3>1, KeyFrame
  <2>3. CASE j = k
    <3>1. HeldOK(j)'
      BY <1>2, <1>5, <1>10, <2>1, <2>3 DEF HeldOK, LongCounts
    <3>2. (Wanted(j)' => state'[j]) /\ (armed'[j] => state'[j] \/ Doing(j, "wait")')
      BY <1>2, <1>12, <2>1 DEF Wanted, KeyOK
    <3>3. Busy(j)' <=> Busy(j)
      BY <1>12 DEF Busy
    <3>4. /\ ~Doing(j, "Press")' /\ ~Doing(j, "Short")' /\ ~Doing(j, "Release")'
          /\ Doing(j, "wait")' => ~state'[j]
          /\ ~Busy(j)' => state'[j]
      <4>1. ~Doing(j, "Press") /\ ~Doing(j, "Short") /\ ~Doing(j, "Release")
        BY <1>7, <2>3 DEF Busy, Doing
      <4>2. Doing(j, "wait") => ~state[j] /\ Busy(j)
        BY <2>1 DEF KeyOK, Busy
      <4> QED BY <1>2, <1>7, <1>12, <2>3, <3>3, <4>1, <4>2
    <3> QED BY <3>1, <3>2, <3>4 DEF KeyOK
  <2> QED BY <2>2, <2>3
<1> QED BY <1>10, <1>11, <1>13 DEF Keeps, ServiceInv

(***************************************************************************)
(* A key that is held at first has no timer and counts as pressed.         *)
(***************************************************************************)
LEMMA ServiceInit ==
    ASSUME InputInit
    PROVE  ServiceInv
<1>1. /\ pin \in [Keys -> BOOLEAN] /\ state \in [Keys -> BOOLEAN] /\ armed \in [Keys -> BOOLEAN]
      /\ counter \in [Keys -> 0..LongCounts] /\ last \in [Keys -> Types]
  BY DEF InputInit, InitEvents, LongCounts, Types
<1>2. pending \in [Keys -> Seq({"start", "stop"})]
  BY DEF InputInit
<1>3. at \in 0..Len(KeyOrder)
  BY EmptySeq, LenProperties, InputAssumption DEF InputInit
<1>4. ServiceTypes
  BY <1>1, <1>2, <1>3 DEF InputInit, ServiceTypes
<1>5. ASSUME NEW k \in Keys PROVE KeyOK(k)
  <2>1. /\ ~armed[k] /\ pending[k] = <<>> /\ counter[k] = 0 /\ step = "sample"
        /\ last[k] = IF state[k] THEN "Press" ELSE "Release"
    BY DEF InputInit
  <2> QED BY <2>1 DEF KeyOK, Wanted, Doing, Busy, HeldOK, LongCounts
<1> QED BY <1>4, <1>5 DEF InputInit, ServiceInv, DaemonOK

(***************************************************************************)
(* Every step keeps ServiceInv, and is one of KeyEvents.                   *)
(***************************************************************************)
LEMMA ServiceKeeps == ServiceInv /\ [InputNext]_inputVars => Keeps
BY QuietStep, SampleStep, WaitStep, ShortStep, StateStep, ProcessStep, TickStep, PublishStep
   DEF InputNext, ServiceNext

(***************************************************************************)
(* ServiceInv holds in every state the input service can reach.            *)
(***************************************************************************)
THEOREM ServiceInvariance == InputSpec => []ServiceInv
<1>1. ServiceInv /\ [InputNext]_inputVars => ServiceInv'
  BY ServiceKeeps DEF Keeps
<1> QED BY ServiceInit, <1>1, PTL DEF InputSpec

(***************************************************************************)
(* The events of every key come in the order of InputType's documentation: *)
(* the service's steps are steps of KeyEvents, on which ViewDispatcher     *)
(* relies.                                                                 *)
(***************************************************************************)
THEOREM EventsInOrder == InputSpec => InitEvents /\ [][NextEvents]_eventVars
<1>1. ServiceInv /\ [InputNext]_inputVars => [NextEvents]_eventVars
  BY ServiceKeeps DEF Keeps
<1>2. InputInit => InitEvents
  BY DEF InputInit
<1> QED BY ServiceInvariance, <1>1, <1>2, PTL DEF InputSpec

(***************************************************************************)
(* When a Press goes out, press_counter holds nothing of the press before  *)
(* it.                                                                     *)
(***************************************************************************)
THEOREM PressStartsFresh == InputSpec => []PressIsFresh
<1>1. ServiceInv => PressIsFresh
  <2> SUFFICES ASSUME ServiceInv, at # 0, step = "Press" PROVE counter[Key] = 0
    BY DEF PressIsFresh
  <2>1. Key \in Keys
    BY OrderLemma DEF ServiceInv
  <2> QED BY <2>1 DEF ServiceInv, KeyOK, Doing
<1> QED BY ServiceInvariance, <1>1, PTL

-----------------------------------------------------------------------------
(***************************************************************************)
(* The whole way of a key: the input service and the views together.       *)
(***************************************************************************)

(***************************************************************************)
(* What the service changes of the queue it appends.                       *)
(***************************************************************************)
LEMMA ServiceAppends ==
    ASSUME ServiceNext
    PROVE  UNCHANGED eventVars \/ \E e : queue' = Append(queue, e)
BY DEF ServiceNext, Edge, Process, Tick, Wake, Sample, WaitStopped, PublishShort, PublishState,
       PublishTick, Put, eventVars

(***************************************************************************)
(* A step of the service is, for the GUI and the application, the arrival  *)
(* of an event or nothing.                                                 *)
(***************************************************************************)
LEMMA ServiceArrives ==
    ASSUME TypeOK, ServiceInv, ServiceStep
    PROVE  [AnyNext]_vars
<1>1. [NextEvents]_eventVars /\ UNCHANGED routeVars
  BY ServiceKeeps DEF ServiceStep, InputNext, Keeps
<1>2. CASE UNCHANGED eventVars
  <2>1. presses' = presses
    BY <1>2 DEF ServiceStep, eventVars
  <2> QED BY <1>1, <1>2, <2>1 DEF routeVars, vars
<1>3. CASE ~UNCHANGED eventVars
  <2>1. PICK e : queue' = Append(queue, e)
    BY <1>3, ServiceAppends DEF ServiceStep
  <2>2. ~Take
    <3>1. queue \in Seq(Event)
      BY DEF TypeOK
    <3>2. queue \in Seq(Event \cup {e})
      BY <3>1
    <3>3. Len(queue') = Len(queue) + 1
      BY <2>1, <3>2, AppendProperties
    <3>4. queue # <<>> => Len(Tail(queue)) = Len(queue) - 1 /\ Len(queue) \in Nat
      BY <3>1, HeadTailProperties, LenProperties
    <3> QED BY <3>3, <3>4 DEF Take
  <2>3. PICK k \in Keys, type \in Types : Publish(k, type)
    BY <1>1, <1>3, <2>2 DEF NextEvents
  <2>4. /\ last \in [Keys -> Types] /\ last' = [last EXCEPT ![k] = type]
        /\ <<last[k], type>> \in Follows
    BY <2>3 DEF TypeOK, Publish, Put
  <2>5. (\E j \in Keys : last[j] # "Press" /\ last'[j] = "Press") <=> type = "Press"
    BY <2>4 DEF Follows
  <2>6. presses' = IF type = "Press" THEN presses + 1 ELSE presses
    BY <2>5 DEF ServiceStep
  <2> QED BY <1>1, <2>3, <2>6 DEF Arrives, AnyNext, routeVars
<1> QED BY <1>2, <1>3

(***************************************************************************)
(* A step of the GUI or the application is, for the service, one of its    *)
(* reader or nothing.                                                      *)
(***************************************************************************)
LEMMA RouteTakes ==
    ASSUME RouteStep
    PROVE  [InputNext]_inputVars
<1>1. RouteNext /\ UNCHANGED serviceVars
  BY DEF RouteStep
<1>2. CASE GuiInput
  <2>1. Take
    BY <1>2 DEF GuiInput, Take
  <2> QED BY <1>1, <2>1 DEF InputNext, GuiTakes, serviceVars
<1>3. CASE ~GuiInput
  <2>1. UNCHANGED eventVars
    <3>1. ASSUME NEW v, Switch(v) \/ RemoveView(v) PROVE UNCHANGED eventVars
      BY <3>1 DEF Switch, RemoveView
    <3> QED BY <1>1, <1>3, <3>1 DEF RouteNext, GuiDeliver, ScreenChange, HandChange, HandleInput,
                 OtherCallback, Rotate, CallbackReturn, Stop, LoopEnds, Drain, FreeDispatcher
  <2> QED BY <1>1, <2>1 DEF serviceVars, inputVars, threadVars, timerVars
<1> QED BY <1>2, <1>3

\* A step of the whole is a step of each.
LEMMA PathSteps ==
    ASSUME TypeOK, ServiceInv, [PathNext]_pathVars
    PROVE  [AnyNext]_vars /\ [InputNext]_inputVars
<1>1. [AnyNext]_vars
  <2>1. CASE ServiceStep BY <2>1, ServiceArrives
  <2>2. CASE RouteStep BY <2>2 DEF RouteStep, AnyNext
  <2>3. CASE UNCHANGED pathVars BY <2>3 DEF pathVars, routeVars, vars
  <2> QED BY <2>1, <2>2, <2>3 DEF PathNext
<1>2. [InputNext]_inputVars
  <2>1. CASE ServiceStep BY <2>1 DEF ServiceStep, InputNext
  <2>2. CASE UNCHANGED pathVars
    BY <2>2 DEF pathVars, serviceVars, inputVars, threadVars, timerVars
  <2> QED BY <2>1, <2>2, RouteTakes DEF PathNext
<1> QED BY <1>1, <1>2

(***************************************************************************)
(* Both invariants hold all along the way.                                 *)
(***************************************************************************)
THEOREM PathInvariance == PathSpec => [](IndInv /\ ServiceInv)
<1>1. PathInit => IndInv /\ ServiceInv
  BY InitInv, ServiceInit DEF PathInit
<1>2. IndInv /\ ServiceInv /\ [PathNext]_pathVars => IndInv' /\ ServiceInv'
  BY PathSteps, StepInv, ServiceKeeps DEF IndInv, Keeps
<1> QED BY <1>1, <1>2, PTL DEF PathSpec

(***************************************************************************)
(* The input service and the GUI with its application may be taken for     *)
(* each other's surroundings: what both do together is, for the one, a     *)
(* queue that is read, and for the other, the events of KeyEvents.         *)
(***************************************************************************)
THEOREM PathImplementsBoth ==
    PathSpec => /\ InputInit /\ [][InputNext]_inputVars
                /\ Init /\ [][AnyNext]_vars
<1>1. IndInv /\ ServiceInv /\ [PathNext]_pathVars => [AnyNext]_vars /\ [InputNext]_inputVars
  BY PathSteps DEF IndInv
<1> QED BY PathInvariance, <1>1, PTL DEF PathSpec, PathInit

(***************************************************************************)
(* From the pins to the views: with the real input service, Repeats and    *)
(* any number of presses, every counted key and every key that a view      *)
(* holds still gets its Release.                                           *)
(***************************************************************************)
THEOREM PathKeepsRelease == PathSpec => [](KeysOwnRelease /\ ViewsGetRelease)
BY PathInvariance, KeysOwn, ViewsGet, PTL
=============================================================================
