--------------------------- MODULE EventLoopProofs ---------------------------
(***************************************************************************)
(* Proofs about EventLoop.  The invariant IndInv below is inductive: each  *)
(* of its parts is preserved by every step (TypeStep to LevelStep), and    *)
(* what the loop promises about level events follows from it.  WorkInv, a  *)
(* second layer that is inductive relative to IndInv, carries edges, timer *)
(* requests, deferred calls and thread flags.                              *)
(***************************************************************************)
EXTENDS EventLoop, SequenceTheorems, TLAPS

\* No element occurs twice.
Distinct(s) == \A i, j \in 1..Len(s) : s[i] = s[j] => i = j

(***************************************************************************)
(* WaitingList_unlink in furi_event_loop_unsubscribe removes the item and  *)
(* nothing else, and the list stays without duplicates.                    *)
(***************************************************************************)
LEMMA UnlinkLemma ==
    ASSUME NEW S, NEW s \in Seq(S), NEW o, Distinct(s)
    PROVE  /\ Unlink(s, o) \in Seq(S)
           /\ Distinct(Unlink(s, o))
           /\ \A x : Linked(x, Unlink(s, o)) <=> x # o /\ Linked(x, s)
<1>1. CASE ~Linked(o, s)
  BY <1>1 DEF Unlink
<1>2. CASE Linked(o, s)
  <2> DEFINE k == CHOOSE i \in 1..Len(s) : s[i] = o
             r == RemoveAt(s, k)
  <2>1. k \in 1..Len(s) /\ s[k] = o
    BY <1>2 DEF Linked
  <2>2. Unlink(s, o) = r
    BY <1>2 DEF Unlink
  <2> HIDE DEF k
  <2>3. /\ r \in Seq(S)
        /\ Len(r) = Len(s) - 1
        /\ \A i \in 1..Len(r) : r[i] = IF i < k THEN s[i] ELSE s[i+1]
    <3> DEFINE a == SubSeq(s, 1, k - 1)
               b == SubSeq(s, k + 1, Len(s))
    <3>1. /\ a \in Seq(S) /\ Len(a) = k - 1
          /\ \A i \in 1..(k-1) : a[i] = s[i]
      BY <2>1, SubSeqProperties
    <3>2. /\ b \in Seq(S) /\ Len(b) = Len(s) - k
          /\ \A i \in 1..(Len(s) - k) : b[i] = s[k + i]
      BY <2>1, SubSeqProperties
    <3>3. r = a \o b
      BY DEF RemoveAt
    <3> HIDE DEF a, b, r
    <3>4. /\ r \in Seq(S) /\ Len(r) = Len(a) + Len(b)
          /\ \A i \in 1..(Len(a) + Len(b)) :
                r[i] = IF i <= Len(a) THEN a[i] ELSE b[i - Len(a)]
      BY <3>1, <3>2, <3>3, ConcatProperties
    <3>5. Len(r) = Len(s) - 1
      BY <2>1, <3>1, <3>2, <3>4
    <3>6. ASSUME NEW i \in 1..Len(r)
          PROVE  r[i] = IF i < k THEN s[i] ELSE s[i+1]
      <4>1. CASE i < k
        BY <4>1, <2>1, <3>1, <3>4, <3>5
      <4>2. CASE ~(i < k)
        <5>1. r[i] = b[i - (k - 1)]
          BY <4>2, <2>1, <3>1, <3>2, <3>4, <3>5
        <5>2. i - (k - 1) \in 1..(Len(s) - k) /\ k + (i - (k - 1)) = i + 1
          BY <4>2, <2>1, <3>5
        <5> QED BY <4>2, <5>1, <5>2, <3>2
      <4> QED BY <4>1, <4>2
    <3> QED BY <3>4, <3>5, <3>6
  <2> HIDE DEF r
  <2>4. Distinct(r)
    BY <2>1, <2>3 DEF Distinct
  <2>5. ASSUME NEW x, NEW i \in 1..Len(r), r[i] = x
        PROVE  x # o /\ \E j \in 1..Len(s) : s[j] = x
    <3>1. CASE i < k
      BY <3>1, <2>1, <2>3, <2>5 DEF Distinct
    <3>2. CASE ~(i < k)
      <4>1. i + 1 \in 1..Len(s) /\ r[i] = s[i+1] /\ i + 1 # k
        BY <3>2, <2>1, <2>3
      <4> QED BY <4>1, <2>1, <2>5 DEF Distinct
    <3> QED BY <3>1, <3>2
  <2>6. ASSUME NEW x, x # o, NEW i \in 1..Len(s), s[i] = x
        PROVE  \E j \in 1..Len(r) : r[j] = x
    <3>1. CASE i < k
      BY <3>1, <2>1, <2>3, <2>6
    <3>2. CASE i > k
      <4>1. i - 1 \in 1..Len(r) /\ r[i-1] = s[i]
        BY <3>2, <2>1, <2>3
      <4> QED BY <4>1, <2>6
    <3> QED BY <3>1, <3>2, <2>1, <2>6
  <2> QED BY <2>2, <2>3, <2>4, <2>5, <2>6 DEF Linked
<1> QED BY <1>1, <1>2
-----------------------------------------------------------------------------
(***************************************************************************)
(* The inductive invariant.                                                *)
(***************************************************************************)

\* A call under way names an object; a deferred call that runs is still in
\* the queue; an event flag that the timer service has to change is known.
CallsOK ==
    /\ \A a \in Actors : busy[a].op \in {"In", "Out", "check"}
                             => busy[a].obj \in Objects
    /\ \A a \in Actors : busy[a].op = "check" => Kind[busy[a].obj] = "stream"
    /\ pc = "pcb" => pendq # <<>>
    /\ \A o \in Objects : late[o] # <<>> => o \in deferred

\* The item process_event works on.  Until its callback unsubscribes it, it
\* is the one subscribed.
CurOK ==
    /\ pc \in {"enter", "cb", "renotify"} => cur.obj \in Objects
    /\ pc \in {"enter", "renotify"} => cur.live
    /\ pc \in {"enter", "cb", "renotify"} /\ cur.live =>
           /\ sub[cur.obj] # NoSub
           /\ sub[cur.obj].dir = cur.dir
           /\ sub[cur.obj].edge = cur.edge

Handled(o) == cur.obj = o /\ cur.live /\ pc \in {"enter", "cb", "renotify"}

\* An object that is due is in the list, or its notification is on its way,
\* or process_event will look at its level again.
Kept(o) == InWaiting(o) \/ InFlight(o) \/ Handled(o)

LevelKept == \A o \in Objects : Due(o) => Kept(o)

\* A nonempty waiting list has its flag, or process_waiting_list is running
\* and will end with furi_event_loop_sync_flags.
EventFlagKept ==
    stops = 0 /\ waiting # <<>> =>
        \/ "Event" \in flags
        \/ pc \in {"pop", "enter", "cb", "renotify", "sync", "crash"}

IndInv ==
    /\ TypeOK
    /\ CallsOK
    /\ WaitingIsLive
    /\ CurOK
    /\ LevelKept
    /\ EventFlagKept

USE ObjectsAssumption, EventsAssumption DEF Kinds, Dirs, Events, NoSub, isrVars

(***************************************************************************)
(* furi_event_loop_item_notify keeps the list well formed, adds the item   *)
(* and nothing else.                                                       *)
(***************************************************************************)
LEMMA NotifyLemma ==
    ASSUME TypeOK, WaitingIsLive, NEW o \in Objects, ItemNotify(o)
    PROVE  /\ waiting' \in Seq(Objects)
           /\ flags' \subseteq Flags
           /\ "Event" \in flags'
           /\ Distinct(waiting')
           /\ waiting' # <<>>
           /\ \A x : Linked(x, waiting') <=> x = o \/ Linked(x, waiting)
<1>1. waiting \in Seq(Objects) /\ Distinct(waiting)
  BY DEF TypeOK, WaitingIsLive, Distinct
<1>2. flags' \subseteq Flags /\ "Event" \in flags'
  BY DEF ItemNotify, TypeOK, Flags
<1>3. CASE InWaiting(o)
  <2>1. waiting' = waiting
    BY <1>3 DEF ItemNotify
  <2> QED BY <1>1, <1>2, <1>3, <2>1 DEF InWaiting, Linked
<1>4. CASE ~InWaiting(o)
  <2>1. waiting' = Append(waiting, o)
    BY <1>4 DEF ItemNotify
  <2>2. /\ waiting' \in Seq(Objects) /\ Len(waiting') = Len(waiting) + 1
        /\ \A i \in 1..Len(waiting) : waiting'[i] = waiting[i]
        /\ waiting'[Len(waiting) + 1] = o
        /\ Len(waiting) \in Nat
    BY <1>1, <2>1
  <2>3. ASSUME NEW i \in 1..Len(waiting'), NEW j \in 1..Len(waiting'),
               waiting'[i] = waiting'[j]
        PROVE  i = j
    <3>1. \A k \in 1..Len(waiting) : waiting[k] # o
      BY <1>4 DEF InWaiting, Linked
    <3>2. CASE i \in 1..Len(waiting) /\ j \in 1..Len(waiting)
      BY <1>1, <2>2, <2>3, <3>2 DEF Distinct
    <3>3. CASE i \in 1..Len(waiting) /\ j = Len(waiting) + 1
      BY <2>2, <2>3, <3>1, <3>3
    <3>4. CASE i = Len(waiting) + 1 /\ j \in 1..Len(waiting)
      BY <2>2, <2>3, <3>1, <3>4
    <3> QED BY <2>2, <3>2, <3>3, <3>4
  <2>4. ASSUME NEW x
        PROVE  Linked(x, waiting') <=> x = o \/ Linked(x, waiting)
    <3>1. ASSUME NEW i \in 1..Len(waiting'), waiting'[i] = x
          PROVE  x = o \/ Linked(x, waiting)
      <4>1. CASE i = Len(waiting) + 1
        BY <2>2, <3>1, <4>1
      <4>2. CASE i \in 1..Len(waiting)
        BY <2>2, <3>1, <4>2 DEF Linked
      <4> QED BY <2>2, <4>1, <4>2
    <3>2. ASSUME Linked(x, waiting)
          PROVE  \E i \in 1..Len(waiting') : waiting'[i] = x
      <4>1. PICK i \in 1..Len(waiting) : waiting[i] = x
        BY <3>2 DEF Linked
      <4>2. i \in 1..Len(waiting') /\ waiting'[i] = x
        BY <2>2, <4>1
      <4> QED BY <4>2
    <3>3. ASSUME x = o
          PROVE  \E i \in 1..Len(waiting') : waiting'[i] = x
      <4>1. Len(waiting) + 1 \in 1..Len(waiting')
        BY <2>2
      <4> QED BY <2>2, <3>3, <4>1
    <3> QED BY <3>1, <3>2, <3>3 DEF Linked
  <2>5. waiting' # <<>>
    BY <2>2
  <2>6. Distinct(waiting')
    BY <2>3 DEF Distinct
  <2> QED BY <1>2, <2>2, <2>4, <2>5, <2>6
<1> QED BY <1>3, <1>4

(***************************************************************************)
(* Popping the front of the waiting list removes that item and no other.   *)
(***************************************************************************)
LEMMA PopLemma ==
    ASSUME NEW S, NEW s \in Seq(S), s # <<>>, Distinct(s)
    PROVE  /\ Head(s) \in S
           /\ Tail(s) \in Seq(S)
           /\ Distinct(Tail(s))
           /\ Linked(Head(s), s)
           /\ \A x : Linked(x, Tail(s)) <=> x # Head(s) /\ Linked(x, s)
<1>1. /\ Len(s) \in Nat \ {0}
      /\ Head(s) = s[1]
      /\ Tail(s) \in Seq(S)
      /\ Len(Tail(s)) = Len(s) - 1
      /\ \A i \in 1..(Len(s) - 1) : Tail(s)[i] = s[i+1]
  OBVIOUS
<1>2. Head(s) \in S
  BY <1>1
<1>3. Distinct(Tail(s))
  BY <1>1 DEF Distinct
<1>4. ASSUME NEW x, NEW i \in 1..Len(Tail(s)), Tail(s)[i] = x
      PROVE  x # Head(s) /\ \E j \in 1..Len(s) : s[j] = x
  <2>1. i + 1 \in 1..Len(s) /\ s[i+1] = x /\ i + 1 # 1 /\ 1 \in 1..Len(s)
    BY <1>1, <1>4
  <2> QED BY <1>1, <2>1 DEF Distinct
<1>5. ASSUME NEW x, x # Head(s), NEW i \in 1..Len(s), s[i] = x
      PROVE  \E j \in 1..Len(Tail(s)) : Tail(s)[j] = x
  <2>1. i - 1 \in 1..Len(Tail(s)) /\ Tail(s)[i-1] = x
    BY <1>1, <1>5
  <2> QED BY <2>1
<1>6. 1 \in 1..Len(s) /\ s[1] = Head(s)
  BY <1>1
<1>7. Linked(Head(s), s)
  BY <1>6 DEF Linked
<1> HIDE DEF Distinct
<1> QED BY <1>1, <1>2, <1>3, <1>4, <1>5, <1>7 DEF Linked

\* The steps of a thread the lemmas below look at.
CallStep(a) ==
    \/ \E o \in Objects : \E n \in 0..Capacity[o] :
          \/ Put(a, o, n) \/ Take(a, o, n)
          \/ FlagSet(a, o, n) \/ FlagClear(a, o, n) \/ FlagWait(a, o, n)
    \/ \E o \in Objects :
          Reset(a, o) \/ FlagSetFromISR(a, o) \/ FlagClearFromISR(a, o)
    \/ SetThreadFlags(a)
    \/ Stop(a)
    \/ FinishCall(a)

(***************************************************************************)
(* Every call of a primitive is a Put, Take or Reset of its object or one  *)
(* of the event flag's own steps.                                          *)
(***************************************************************************)
LEMMA CallCases ==
    ASSUME NEW a \in Actors, ActorStep(a)
    PROVE  CallStep(a)
<1>1. ASSUME NEW o \in Objects, PrimitiveCall(a, o)
      PROVE  CallStep(a)
  <2>1. 1 \in 0..Capacity[o]
    OBVIOUS
  <2> QED BY <1>1, <2>1 DEF PrimitiveCall, CallStep, MessageQueuePut,
             MessageQueueGet, MessageQueueReset, SemaphoreRelease,
             SemaphoreAcquire, MutexRelease, MutexAcquire, StreamBufferSend,
             StreamBufferReceive, StreamBufferReset
<1> QED BY <1>1 DEF ActorStep, CallStep

(***************************************************************************)
(* What a handler asks of the timer service is kept in order.              *)
(***************************************************************************)
LEMMA Requested ==
    ASSUME TypeOK, CallsOK, NEW o \in Objects, NEW r \in {"set", "clear"},
           late' = [late EXCEPT ![o] = Append(@, r)],
           deferred' = deferred \cup {o}
    PROVE  /\ late' \in [Objects -> Seq({"set", "clear"})]
           /\ deferred' \subseteq Objects
           /\ \A y \in Objects : late'[y] # <<>> => y \in deferred'
<1>1. /\ late \in [Objects -> Seq({"set", "clear"})]
      /\ deferred \subseteq Objects
      /\ \A y \in Objects : late[y] # <<>> => y \in deferred
  BY DEF TypeOK, CallsOK
<1>2. Append(late[o], r) \in Seq({"set", "clear"})
  BY <1>1
<1> QED BY <1>1, <1>2

(***************************************************************************)
(* Every step keeps the types, and a call under way keeps naming its       *)
(* object.                                                                 *)
(***************************************************************************)
LEMMA TypeStep ==
    ASSUME TypeOK, CallsOK, WaitingIsLive, CurOK, [Next]_vars
    PROVE  TypeOK' /\ CallsOK'
<1> USE DEF TypeOK, CallsOK, Actors, NoOp, NoItem, Owes, CanAct, EdgeSeen,
            Pcs, Flags, objVars, itemVars, workVars, tfVars
<1>u. \A o : Unlink(waiting, o) \in Seq(Objects)
  BY UnlinkLemma DEF WaitingIsLive, Distinct
<1>n. \A o \in Objects : ItemNotify(o) =>
         waiting' \in Seq(Objects) /\ flags' \subseteq Flags
  BY NotifyLemma
<1>1. CASE UNCHANGED vars
  BY <1>1 DEF vars
<1>2. ASSUME NEW a \in Actors, NEW o \in Objects, NEW n \in 0..Capacity[o],
             Put(a, o, n)
      PROVE  TypeOK' /\ CallsOK'
  <2>1. TypeOK'
    BY <1>2 DEF Put
  <2>2. CallsOK'
    BY <1>2 DEF Put
  <2> QED BY <2>1, <2>2
<1>3. ASSUME NEW a \in Actors, NEW o \in Objects, NEW n \in 0..Capacity[o],
             Take(a, o, n)
      PROVE  TypeOK' /\ CallsOK'
  BY <1>3 DEF Take
<1>4. ASSUME NEW a \in Actors, NEW o \in Objects, NEW n \in 0..Capacity[o],
             FlagSet(a, o, n)
      PROVE  TypeOK' /\ CallsOK'
  <2>1. waiting' \in Seq(Objects) /\ flags' \subseteq Flags
    BY <1>4, <1>n DEF FlagSet, LinkNotify
  <2>2. /\ count' \in [Objects -> Nat]
        /\ \A y \in Objects : count'[y] <= Capacity[y]
        /\ edgeDue' \subseteq Objects
    BY <1>4 DEF FlagSet
  <2>3. UNCHANGED <<pc, taken, itemVars, holder, busy, workVars, tfVars, stops,
                    isrVars>>
    BY <1>4 DEF FlagSet
  <2>4. TypeOK'
    BY <2>1, <2>2, <2>3
  <2>5. CallsOK'
    BY <2>3
  <2> QED BY <2>4, <2>5
<1>5. ASSUME NEW a \in Actors, NEW o \in Objects, NEW n \in 0..Capacity[o],
             FlagClear(a, o, n)
      PROVE  TypeOK' /\ CallsOK'
  <2>1. waiting' \in Seq(Objects) /\ flags' \subseteq Flags
    BY <1>5, <1>n DEF FlagClear, LinkNotify
  <2>2. /\ count' \in [Objects -> Nat]
        /\ \A y \in Objects : count'[y] <= Capacity[y]
        /\ edgeDue' \subseteq Objects
    BY <1>5 DEF FlagClear
  <2>3. UNCHANGED <<pc, taken, itemVars, holder, busy, workVars, tfVars, stops,
                    isrVars>>
    BY <1>5 DEF FlagClear
  <2>4. TypeOK'
    BY <2>1, <2>2, <2>3
  <2>5. CallsOK'
    BY <2>3
  <2> QED BY <2>4, <2>5
<1>6. ASSUME NEW a \in Actors, NEW o \in Objects, NEW n \in 0..Capacity[o],
             FlagWait(a, o, n)
      PROVE  TypeOK' /\ CallsOK'
  BY <1>6 DEF FlagWait
<1>7. ASSUME NEW a \in Actors, NEW o \in Objects, Reset(a, o)
      PROVE  TypeOK' /\ CallsOK'
  BY <1>7 DEF Reset
<1>8. ASSUME NEW a \in Actors, CheckTrigger(a)
      PROVE  TypeOK' /\ CallsOK'
  <2>1. busy[a].obj \in Objects
    BY <1>8 DEF CheckTrigger
  <2>2. CASE count[busy[a].obj] >= Trigger[busy[a].obj]
    <3>1. busy' = [busy EXCEPT ![a] = [op |-> "In", obj |-> busy[a].obj]]
      BY <1>8, <2>2 DEF CheckTrigger, TriggerReached
    <3>2. edgeDue' \subseteq Objects
      BY <1>8, <2>1, <2>2 DEF CheckTrigger
    <3> QED BY <1>8, <2>1, <3>1, <3>2 DEF CheckTrigger
  <2>3. CASE ~(count[busy[a].obj] >= Trigger[busy[a].obj])
    <3>1. busy' = [busy EXCEPT ![a] = NoOp] /\ edgeDue' = edgeDue
      BY <1>8, <2>3 DEF CheckTrigger, TriggerReached
    <3> QED BY <1>8, <3>1 DEF CheckTrigger
  <2> QED BY <2>2, <2>3
<1>9. ASSUME NEW a \in Actors, Notify(a)
      PROVE  TypeOK' /\ CallsOK'
  <2>1. busy[a].obj \in Objects
    BY <1>9 DEF Notify
  <2>2. waiting' \in Seq(Objects) /\ flags' \subseteq Flags
    BY <1>9, <2>1, <1>n DEF Notify, LinkNotify
  <2> QED BY <1>9, <2>2 DEF Notify
<1>10. ASSUME NEW a \in Actors, SetThreadFlags(a)
      PROVE  TypeOK' /\ CallsOK'
  BY <1>10 DEF SetThreadFlags
<1>11. ASSUME NEW a \in Actors, NotifyThreadFlags(a)
      PROVE  TypeOK' /\ CallsOK'
  BY <1>11 DEF NotifyThreadFlags
<1>12. ASSUME NEW a \in Actors, Stop(a)
      PROVE  TypeOK' /\ CallsOK'
  BY <1>12 DEF Stop
<1>13. ASSUME NEW o \in Objects, NEW e \in Subscriptions, Subscribe(o, e)
      PROVE  TypeOK' /\ CallsOK'
  <2>1. waiting' \in Seq(Objects) /\ flags' \subseteq Flags
    BY <1>13, <1>n DEF Subscribe
  <2> QED BY <1>13, <2>1 DEF Subscribe
<1>14. ASSUME NEW o \in Objects, Unsubscribe(o)
      PROVE  TypeOK' /\ CallsOK'
  BY <1>14, <1>u DEF Unsubscribe
<1>15. CASE Run
  BY <1>15 DEF Run
<1>16. CASE Free
  BY <1>16 DEF Free
<1>17. CASE PendCallback
  <2>1. pendq' \in Seq([after: Nat, nested: BOOLEAN]) /\ pendq' # <<>>
    <3>1. [after |-> treq, nested |-> (pc = "pcb")] \in [after: Nat, nested: BOOLEAN]
      OBVIOUS
    <3>2. pendq \in Seq([after: Nat, nested: BOOLEAN])
      OBVIOUS
    <3>3. pendq' = Append(pendq, [after |-> treq, nested |-> (pc = "pcb")])
      BY <1>17 DEF PendCallback
    <3> HIDE DEF TypeOK, CallsOK
    <3> QED BY <3>1, <3>2, <3>3
  <2> QED BY <1>17, <2>1 DEF PendCallback
<1>18. CASE TimerRequest
  BY <1>18 DEF TimerRequest
<1>19. CASE SubscribeThreadFlags
  BY <1>19 DEF SubscribeThreadFlags
<1>20. CASE UnsubscribeThreadFlags
  BY <1>20 DEF UnsubscribeThreadFlags
<1>21. CASE TakeStop
  BY <1>21 DEF TakeStop
<1>22. CASE TakeEvent
  BY <1>22 DEF TakeEvent
<1>23. CASE TakeTimer
  BY <1>23 DEF TakeTimer
<1>24. CASE TakePending
  BY <1>24 DEF TakePending
<1>25. CASE TakeThreadFlag
  BY <1>25 DEF TakeThreadFlag
<1>26. CASE Timeout
  BY <1>26 DEF Timeout
<1>27. CASE PopItem
  <2>1. CASE waiting = <<>>
    BY <1>27, <2>1 DEF PopItem
  <2>2. CASE waiting # <<>>
    <3>1. Head(waiting) \in Objects /\ Tail(waiting) \in Seq(Objects)
      BY <2>2, PopLemma DEF WaitingIsLive, Distinct
    <3>2. sub[Head(waiting)] \in Events \cup {NoSub}
      BY <3>1
    <3>3. /\ waiting' = Tail(waiting)
          /\ cur' = [obj |-> Head(waiting), dir |-> sub[Head(waiting)].dir,
                     edge |-> sub[Head(waiting)].edge, live |-> TRUE]
          /\ pc' = "enter"
          /\ UNCHANGED <<flags, taken, sub, objVars, workVars, tfVars, stops,
                         edgeDue, isrVars>>
      BY <1>27, <2>2 DEF PopItem
    <3>4. cur' \in [obj: Objects \cup {NoObject}, dir: Dirs \cup {"None"},
                    edge: BOOLEAN, live: BOOLEAN]
      <4>1. sub[Head(waiting)].dir \in Dirs \cup {"None"}
        BY <3>2
      <4>2. sub[Head(waiting)].edge \in BOOLEAN
        <5>1. CASE sub[Head(waiting)] = NoSub
          BY <5>1
        <5>2. CASE sub[Head(waiting)] \in Events
          <6>1. \A e \in [dir: Dirs, edge: BOOLEAN, once: BOOLEAN] : e.edge \in BOOLEAN
            OBVIOUS
          <6> QED BY <5>2, <6>1
        <5> QED BY <3>2, <5>1, <5>2
      <4> QED BY <3>1, <3>3, <4>1, <4>2
    <3> QED BY <3>1, <3>3, <3>4
  <2> QED BY <2>1, <2>2
<1>28. CASE EnterOnce
  BY <1>28, <1>u DEF EnterOnce
<1>29. CASE EnterCallback
  BY <1>29 DEF EnterCallback
<1>30. CASE Renotify
  BY <1>30, <1>n DEF Renotify, CurOK
<1>31. CASE SyncFlags
  BY <1>31 DEF SyncFlags
<1>32. CASE RestoreFlags
  BY <1>32 DEF RestoreFlags
<1>33. CASE PendingStep
  BY <1>33 DEF PendingStep
<1>34. CASE CallbackReturn
  BY <1>34 DEF CallbackReturn
<1>35. CASE PendingReturn
  <2>1. Tail(pendq) \in Seq([after: Nat, nested: BOOLEAN])
    BY <1>35 DEF PendingReturn
  <2> QED BY <1>35, <2>1 DEF PendingReturn
<1>36. CASE UserReturn
  BY <1>36 DEF UserReturn
<1>37. ASSUME NEW a \in Actors, NEW o \in Objects, FlagSetFromISR(a, o)
      PROVE  TypeOK' /\ CallsOK'
  <2>1. waiting' \in Seq(Objects) /\ flags' \subseteq Flags
    BY <1>37, <1>n DEF FlagSetFromISR, LinkNotify
  <2>2. /\ late' \in [Objects -> Seq({"set", "clear"})]
        /\ deferred' \subseteq Objects
        /\ \A y \in Objects : late'[y] # <<>> => y \in deferred'
    BY <1>37, Requested DEF FlagSetFromISR
  <2>3. /\ edgeDue' \subseteq Objects
        /\ UNCHANGED <<pc, taken, itemVars, objVars, workVars, tfVars, stops>>
    BY <1>37 DEF FlagSetFromISR
  <2> QED BY <2>1, <2>2, <2>3
<1>38. ASSUME NEW a \in Actors, NEW o \in Objects, FlagClearFromISR(a, o)
      PROVE  TypeOK' /\ CallsOK'
  <2>1. waiting' \in Seq(Objects) /\ flags' \subseteq Flags
    BY <1>38, <1>n DEF FlagClearFromISR, LinkNotify
  <2>2. /\ late' \in [Objects -> Seq({"set", "clear"})]
        /\ deferred' \subseteq Objects
        /\ \A y \in Objects : late'[y] # <<>> => y \in deferred'
    BY <1>38, Requested DEF FlagClearFromISR
  <2>3. /\ edgeDue' \subseteq Objects
        /\ UNCHANGED <<pc, taken, itemVars, objVars, workVars, tfVars, stops>>
    BY <1>38 DEF FlagClearFromISR
  <2> QED BY <2>1, <2>2, <2>3
<1>39. ASSUME NEW o \in Objects, LateChange(o)
      PROVE  TypeOK' /\ CallsOK'
  BY <1>39 DEF LateChange
<1> QED
  BY <1>1, <1>2, <1>3, <1>4, <1>5, <1>6, <1>7, <1>8, <1>9, <1>10,
     <1>11, <1>12, <1>13, <1>14, <1>15, <1>16, <1>17, <1>18, <1>19,
     <1>20, <1>21, <1>22, <1>23, <1>24, <1>25, <1>26, <1>27, <1>28,
     <1>29, <1>30, <1>31, <1>32, <1>33, <1>34, <1>35, <1>36, <1>37,
     <1>38, <1>39, CallCases
     DEF Next, LoopStep, ReturnStep, ClientStep, CallStep, FinishCall

(***************************************************************************)
(* Every step keeps the waiting list free of duplicates and of items that  *)
(* furi_event_loop_unsubscribe has freed.                                  *)
(***************************************************************************)
LEMMA WaitingStep ==
    ASSUME TypeOK, CallsOK, WaitingIsLive, CurOK, [Next]_vars
    PROVE  WaitingIsLive'
<1> USE DEF WaitingIsLive, CanAct, objVars, itemVars, workVars, tfVars
<1>d. waiting \in Seq(Objects) /\ Distinct(waiting)
  BY DEF TypeOK, Distinct
<1>e. ASSUME NEW x, Linked(x, waiting)
      PROVE  x \in Objects /\ sub[x] # NoSub
  BY <1>d, <1>e DEF Linked
<1>n. ASSUME NEW o \in Objects, ItemNotify(o), sub'[o] # NoSub,
             \A x \in Objects \ {o} : sub'[x] = sub[x]
      PROVE  WaitingIsLive'
  <2>1. /\ Distinct(waiting')
        /\ \A x : Linked(x, waiting') <=> x = o \/ Linked(x, waiting)
    BY <1>n, NotifyLemma
  <2>2. ASSUME NEW i \in 1..Len(waiting')
        PROVE  sub'[waiting'[i]] # NoSub
    <3>1. Linked(waiting'[i], waiting')
      BY DEF Linked
    <3>2. waiting'[i] = o \/ Linked(waiting'[i], waiting)
      BY <2>1, <3>1
    <3> QED BY <3>2, <1>e, <1>n
  <2> QED BY <2>1, <2>2 DEF Distinct
<1>u. ASSUME NEW o, waiting' = Unlink(waiting, o),
             \A x \in Objects \ {o} : sub'[x] = sub[x]
      PROVE  WaitingIsLive'
  <2>1. /\ Distinct(waiting')
        /\ \A x : Linked(x, waiting') <=> x # o /\ Linked(x, waiting)
    BY <1>d, <1>u, UnlinkLemma
  <2>2. ASSUME NEW i \in 1..Len(waiting')
        PROVE  sub'[waiting'[i]] # NoSub
    <3>1. Linked(waiting'[i], waiting')
      BY DEF Linked
    <3>2. waiting'[i] # o /\ Linked(waiting'[i], waiting)
      BY <2>1, <3>1
    <3> QED BY <3>2, <1>e, <1>u
  <2> QED BY <2>1, <2>2 DEF Distinct
<1>1. CASE UNCHANGED vars
  BY <1>1 DEF vars
<1>2. ASSUME NEW a \in Actors, NEW o \in Objects, NEW n \in 0..Capacity[o],
             Put(a, o, n)
      PROVE  WaitingIsLive'
  BY <1>2 DEF Put
<1>3. ASSUME NEW a \in Actors, NEW o \in Objects, NEW n \in 0..Capacity[o],
             Take(a, o, n)
      PROVE  WaitingIsLive'
  BY <1>3 DEF Take
<1>4. ASSUME NEW a \in Actors, NEW o \in Objects, NEW n \in 0..Capacity[o],
             FlagSet(a, o, n)
      PROVE  WaitingIsLive'
  <2>1. CASE sub[o].dir = "In"
    <3>1. ItemNotify(o) /\ sub' = sub
      BY <1>4, <2>1 DEF FlagSet, LinkNotify
    <3>2. sub[o] # NoSub
      BY <2>1
    <3> QED BY <3>1, <3>2, <1>n
  <2>2. CASE sub[o].dir # "In"
    <3>1. waiting' = waiting /\ sub' = sub
      BY <1>4, <2>2 DEF FlagSet, LinkNotify
    <3> QED BY <3>1
  <2> QED BY <2>1, <2>2
<1>5. ASSUME NEW a \in Actors, NEW o \in Objects, NEW n \in 0..Capacity[o],
             FlagClear(a, o, n)
      PROVE  WaitingIsLive'
  <2>1. CASE sub[o].dir = "Out"
    <3>1. ItemNotify(o) /\ sub' = sub
      BY <1>5, <2>1 DEF FlagClear, LinkNotify
    <3>2. sub[o] # NoSub
      BY <2>1
    <3> QED BY <3>1, <3>2, <1>n
  <2>2. CASE sub[o].dir # "Out"
    <3>1. waiting' = waiting /\ sub' = sub
      BY <1>5, <2>2 DEF FlagClear, LinkNotify
    <3> QED BY <3>1
  <2> QED BY <2>1, <2>2
<1>6. ASSUME NEW a \in Actors, NEW o \in Objects, NEW n \in 0..Capacity[o],
             FlagWait(a, o, n)
      PROVE  WaitingIsLive'
  BY <1>6 DEF FlagWait
<1>7. ASSUME NEW a \in Actors, NEW o \in Objects, Reset(a, o)
      PROVE  WaitingIsLive'
  BY <1>7 DEF Reset
<1>8. ASSUME NEW a \in Actors, CheckTrigger(a)
      PROVE  WaitingIsLive'
  BY <1>8 DEF CheckTrigger
<1>9. ASSUME NEW a \in Actors, Notify(a)
      PROVE  WaitingIsLive'
  <2>0. busy[a].obj \in Objects /\ busy[a].op \in Dirs
    BY <1>9 DEF Notify, CallsOK
  <2>1. CASE sub[busy[a].obj].dir = busy[a].op
    <3>1. ItemNotify(busy[a].obj) /\ sub' = sub
      BY <1>9, <2>1 DEF Notify, LinkNotify
    <3>2. sub[busy[a].obj] # NoSub
      BY <2>1, <2>0
    <3> QED BY <3>1, <3>2, <1>n, <2>0
  <2>2. CASE sub[busy[a].obj].dir # busy[a].op
    <3>1. waiting' = waiting /\ sub' = sub
      BY <1>9, <2>2 DEF Notify, LinkNotify
    <3> QED BY <3>1
  <2> QED BY <2>1, <2>2
<1>10. ASSUME NEW a \in Actors, SetThreadFlags(a)
      PROVE  WaitingIsLive'
  BY <1>10 DEF SetThreadFlags
<1>11. ASSUME NEW a \in Actors, NotifyThreadFlags(a)
      PROVE  WaitingIsLive'
  BY <1>11 DEF NotifyThreadFlags
<1>12. ASSUME NEW a \in Actors, Stop(a)
      PROVE  WaitingIsLive'
  BY <1>12 DEF Stop
<1>13. ASSUME NEW o \in Objects, NEW e \in Subscriptions, Subscribe(o, e)
      PROVE  WaitingIsLive'
  <2>1. sub' = [sub EXCEPT ![o] = e] /\ e # NoSub /\ sub \in [Objects -> Events \cup {NoSub}]
    BY <1>13 DEF Subscribe, TypeOK
  <2>2. CASE ~e.edge /\ Level(o, e.dir)
    <3>1. ItemNotify(o)
      BY <1>13, <2>2 DEF Subscribe
    <3> QED BY <2>1, <3>1, <1>n
  <2>3. CASE ~(~e.edge /\ Level(o, e.dir))
    <3>1. waiting' = waiting
      BY <1>13, <2>3 DEF Subscribe
    <3>2. \A y \in Objects : sub[y] # NoSub => sub'[y] # NoSub
      BY <2>1
    <3>3. ASSUME NEW i \in 1..Len(waiting)
          PROVE  sub'[waiting[i]] # NoSub
      BY <3>2, <1>d
    <3> QED BY <3>1, <3>3
  <2> QED BY <2>2, <2>3
<1>14. ASSUME NEW o \in Objects, Unsubscribe(o)
      PROVE  WaitingIsLive'
  <2>1. sub' = [sub EXCEPT ![o] = NoSub] /\ waiting' = Unlink(waiting, o)
    BY <1>14 DEF Unsubscribe
  <2> QED BY <2>1, <1>u DEF TypeOK
<1>15. CASE Run
  BY <1>15 DEF Run
<1>16. CASE Free
  BY <1>16 DEF Free
<1>17. CASE PendCallback
  BY <1>17 DEF PendCallback
<1>18. CASE TimerRequest
  BY <1>18 DEF TimerRequest
<1>19. CASE SubscribeThreadFlags
  BY <1>19 DEF SubscribeThreadFlags
<1>20. CASE UnsubscribeThreadFlags
  BY <1>20 DEF UnsubscribeThreadFlags
<1>21. CASE TakeStop
  BY <1>21 DEF TakeStop
<1>22. CASE TakeEvent
  BY <1>22 DEF TakeEvent
<1>23. CASE TakeTimer
  BY <1>23 DEF TakeTimer
<1>24. CASE TakePending
  BY <1>24 DEF TakePending
<1>25. CASE TakeThreadFlag
  BY <1>25 DEF TakeThreadFlag
<1>26. CASE Timeout
  BY <1>26 DEF Timeout
<1>27. CASE PopItem
  <2>1. CASE waiting = <<>>
    BY <1>27, <2>1 DEF PopItem
  <2>2. CASE waiting # <<>>
    <3>1. waiting' = Tail(waiting) /\ sub' = sub
      BY <1>27, <2>2 DEF PopItem
    <3>2. /\ Distinct(waiting')
          /\ \A x : Linked(x, waiting') => Linked(x, waiting)
      BY <2>2, <3>1, <1>d, PopLemma
    <3>3. ASSUME NEW i \in 1..Len(waiting')
          PROVE  sub'[waiting'[i]] # NoSub
      <4>1. Linked(waiting'[i], waiting')
        BY DEF Linked
      <4> QED BY <3>1, <3>2, <4>1, <1>e
    <3> QED BY <3>2, <3>3 DEF Distinct
  <2> QED BY <2>1, <2>2
<1>28. CASE EnterOnce
  <2>1. sub' = [sub EXCEPT ![cur.obj] = NoSub] /\ waiting' = Unlink(waiting, cur.obj)
    BY <1>28 DEF EnterOnce
  <2> QED BY <2>1, <1>u DEF TypeOK
<1>29. CASE EnterCallback
  BY <1>29 DEF EnterCallback
<1>30. CASE Renotify
  <2>1. cur.obj \in Objects /\ sub[cur.obj] # NoSub /\ ItemNotify(cur.obj) /\ sub' = sub
    BY <1>30 DEF Renotify, CurOK
  <2> QED BY <2>1, <1>n
<1>31. CASE SyncFlags
  BY <1>31 DEF SyncFlags
<1>32. CASE RestoreFlags
  BY <1>32 DEF RestoreFlags
<1>33. CASE PendingStep
  BY <1>33 DEF PendingStep
<1>34. CASE CallbackReturn
  BY <1>34 DEF CallbackReturn
<1>35. CASE PendingReturn
  BY <1>35 DEF PendingReturn
<1>36. CASE UserReturn
  BY <1>36 DEF UserReturn
<1>37. ASSUME NEW a \in Actors, NEW o \in Objects, FlagSetFromISR(a, o)
      PROVE  WaitingIsLive'
  <2>1. CASE ItemNotify(o) /\ sub[o].dir = "In"
    <3>1. sub[o] # NoSub /\ sub' = sub
      BY <1>37, <2>1 DEF FlagSetFromISR
    <3> QED BY <2>1, <3>1, <1>n
  <2>2. CASE waiting' = waiting
    BY <1>37, <2>2 DEF FlagSetFromISR
  <2> QED BY <1>37, <2>1, <2>2 DEF FlagSetFromISR, LinkNotify
<1>38. ASSUME NEW a \in Actors, NEW o \in Objects, FlagClearFromISR(a, o)
      PROVE  WaitingIsLive'
  <2>1. CASE ItemNotify(o) /\ sub[o].dir = "Out"
    <3>1. sub[o] # NoSub /\ sub' = sub
      BY <1>38, <2>1 DEF FlagClearFromISR
    <3> QED BY <2>1, <3>1, <1>n
  <2>2. CASE waiting' = waiting
    BY <1>38, <2>2 DEF FlagClearFromISR
  <2> QED BY <1>38, <2>1, <2>2 DEF FlagClearFromISR, LinkNotify
<1>39. ASSUME NEW o \in Objects, LateChange(o)
      PROVE  WaitingIsLive'
  BY <1>39 DEF LateChange
<1> QED
  BY <1>1, <1>2, <1>3, <1>4, <1>5, <1>6, <1>7, <1>8, <1>9, <1>10,
     <1>11, <1>12, <1>13, <1>14, <1>15, <1>16, <1>17, <1>18, <1>19,
     <1>20, <1>21, <1>22, <1>23, <1>24, <1>25, <1>26, <1>27, <1>28,
     <1>29, <1>30, <1>31, <1>32, <1>33, <1>34, <1>35, <1>36, <1>37,
     <1>38, <1>39, CallCases
     DEF Next, LoopStep, ReturnStep, ClientStep, CallStep, FinishCall

(***************************************************************************)
(* Every step keeps the item of process_event the subscribed one until     *)
(* its callback unsubscribes it.                                           *)
(***************************************************************************)
LEMMA CurStep ==
    ASSUME TypeOK, CallsOK, WaitingIsLive, CurOK, [Next]_vars
    PROVE  CurOK'
<1> USE DEF CurOK, CanAct, UserPcs, objVars, itemVars, workVars, tfVars
<1>1. CASE UNCHANGED vars
  BY <1>1 DEF vars
<1>2. ASSUME NEW a \in Actors, NEW o \in Objects, NEW n \in 0..Capacity[o],
             Put(a, o, n)
      PROVE  CurOK'
  BY <1>2 DEF Put
<1>3. ASSUME NEW a \in Actors, NEW o \in Objects, NEW n \in 0..Capacity[o],
             Take(a, o, n)
      PROVE  CurOK'
  BY <1>3 DEF Take
<1>4. ASSUME NEW a \in Actors, NEW o \in Objects, NEW n \in 0..Capacity[o],
             FlagSet(a, o, n)
      PROVE  CurOK'
  BY <1>4 DEF FlagSet
<1>5. ASSUME NEW a \in Actors, NEW o \in Objects, NEW n \in 0..Capacity[o],
             FlagClear(a, o, n)
      PROVE  CurOK'
  BY <1>5 DEF FlagClear
<1>6. ASSUME NEW a \in Actors, NEW o \in Objects, NEW n \in 0..Capacity[o],
             FlagWait(a, o, n)
      PROVE  CurOK'
  BY <1>6 DEF FlagWait
<1>7. ASSUME NEW a \in Actors, NEW o \in Objects, Reset(a, o)
      PROVE  CurOK'
  BY <1>7 DEF Reset
<1>8. ASSUME NEW a \in Actors, CheckTrigger(a)
      PROVE  CurOK'
  BY <1>8 DEF CheckTrigger
<1>9. ASSUME NEW a \in Actors, Notify(a)
      PROVE  CurOK'
  BY <1>9 DEF Notify
<1>10. ASSUME NEW a \in Actors, SetThreadFlags(a)
      PROVE  CurOK'
  BY <1>10 DEF SetThreadFlags
<1>11. ASSUME NEW a \in Actors, NotifyThreadFlags(a)
      PROVE  CurOK'
  BY <1>11 DEF NotifyThreadFlags
<1>12. ASSUME NEW a \in Actors, Stop(a)
      PROVE  CurOK'
  BY <1>12 DEF Stop
<1>13. ASSUME NEW o \in Objects, NEW e \in Subscriptions, Subscribe(o, e)
      PROVE  CurOK'
  BY <1>13 DEF Subscribe, TypeOK
<1>14. ASSUME NEW o \in Objects, Unsubscribe(o)
      PROVE  CurOK'
  BY <1>14 DEF Unsubscribe, TypeOK
<1>15. CASE Run
  BY <1>15 DEF Run
<1>16. CASE Free
  BY <1>16 DEF Free
<1>17. CASE PendCallback
  BY <1>17 DEF PendCallback
<1>18. CASE TimerRequest
  BY <1>18 DEF TimerRequest
<1>19. CASE SubscribeThreadFlags
  BY <1>19 DEF SubscribeThreadFlags
<1>20. CASE UnsubscribeThreadFlags
  BY <1>20 DEF UnsubscribeThreadFlags
<1>21. CASE TakeStop
  BY <1>21 DEF TakeStop
<1>22. CASE TakeEvent
  BY <1>22 DEF TakeEvent
<1>23. CASE TakeTimer
  BY <1>23 DEF TakeTimer
<1>24. CASE TakePending
  BY <1>24 DEF TakePending
<1>25. CASE TakeThreadFlag
  BY <1>25 DEF TakeThreadFlag
<1>26. CASE Timeout
  BY <1>26 DEF Timeout
<1>27. CASE PopItem
  <2>1. CASE waiting = <<>>
    BY <1>27, <2>1 DEF PopItem
  <2>2. CASE waiting # <<>>
    <3>1. Head(waiting) \in Objects /\ Linked(Head(waiting), waiting)
      BY <2>2, PopLemma DEF TypeOK, WaitingIsLive, Distinct
    <3>2. sub[Head(waiting)] # NoSub
      BY <3>1 DEF WaitingIsLive, Linked
    <3>3. /\ cur' = [obj |-> Head(waiting), dir |-> sub[Head(waiting)].dir,
                     edge |-> sub[Head(waiting)].edge, live |-> TRUE]
          /\ pc' = "enter" /\ sub' = sub
      BY <1>27, <2>2 DEF PopItem
    <3> QED BY <3>1, <3>2, <3>3
  <2> QED BY <2>1, <2>2
<1>28. CASE EnterOnce
  BY <1>28 DEF EnterOnce, TypeOK
<1>29. CASE EnterCallback
  BY <1>29 DEF EnterCallback
<1>30. CASE Renotify
  BY <1>30 DEF Renotify
<1>31. CASE SyncFlags
  BY <1>31 DEF SyncFlags
<1>32. CASE RestoreFlags
  BY <1>32 DEF RestoreFlags
<1>33. CASE PendingStep
  BY <1>33 DEF PendingStep
<1>34. CASE CallbackReturn
  BY <1>34 DEF CallbackReturn
<1>35. CASE PendingReturn
  BY <1>35 DEF PendingReturn
<1>36. CASE UserReturn
  BY <1>36 DEF UserReturn
<1>37. ASSUME NEW a \in Actors, NEW o \in Objects, FlagSetFromISR(a, o)
      PROVE  CurOK'
  BY <1>37 DEF FlagSetFromISR
<1>38. ASSUME NEW a \in Actors, NEW o \in Objects, FlagClearFromISR(a, o)
      PROVE  CurOK'
  BY <1>38 DEF FlagClearFromISR
<1>39. ASSUME NEW o \in Objects, LateChange(o)
      PROVE  CurOK'
  BY <1>39 DEF LateChange
<1> QED
  BY <1>1, <1>2, <1>3, <1>4, <1>5, <1>6, <1>7, <1>8, <1>9, <1>10,
     <1>11, <1>12, <1>13, <1>14, <1>15, <1>16, <1>17, <1>18, <1>19,
     <1>20, <1>21, <1>22, <1>23, <1>24, <1>25, <1>26, <1>27, <1>28,
     <1>29, <1>30, <1>31, <1>32, <1>33, <1>34, <1>35, <1>36, <1>37,
     <1>38, <1>39, CallCases
     DEF Next, LoopStep, ReturnStep, ClientStep, CallStep, FinishCall

(***************************************************************************)
(* Every step keeps the Event flag on a nonempty waiting list, unless      *)
(* process_waiting_list is running and will set it again in                *)
(* furi_event_loop_sync_flags.                                             *)
(***************************************************************************)
LEMMA EventFlagStep ==
    ASSUME TypeOK, CallsOK, WaitingIsLive, CurOK, EventFlagKept, [Next]_vars
    PROVE  EventFlagKept'
<1> USE DEF EventFlagKept, CanAct, UserPcs, objVars, itemVars, workVars, tfVars
<1>u. \A o : waiting = <<>> => Unlink(waiting, o) = <<>>
  BY DEF Unlink, Linked
<1>f. (\A o \in Objects : sub[o] = NoSub) => waiting = <<>>
  <2>1. SUFFICES ASSUME \A o \in Objects : sub[o] = NoSub, waiting # <<>>
                 PROVE  FALSE
    OBVIOUS
  <2>2. 1 \in 1..Len(waiting) /\ waiting[1] \in Objects
    BY <2>1 DEF TypeOK
  <2> QED BY <2>1, <2>2 DEF WaitingIsLive
<1>1. CASE UNCHANGED vars
  BY <1>1 DEF vars
<1>2. ASSUME NEW a \in Actors, NEW o \in Objects, NEW n \in 0..Capacity[o],
             Put(a, o, n)
      PROVE  EventFlagKept'
  BY <1>2 DEF Put
<1>3. ASSUME NEW a \in Actors, NEW o \in Objects, NEW n \in 0..Capacity[o],
             Take(a, o, n)
      PROVE  EventFlagKept'
  BY <1>3 DEF Take
<1>4. ASSUME NEW a \in Actors, NEW o \in Objects, NEW n \in 0..Capacity[o],
             FlagSet(a, o, n)
      PROVE  EventFlagKept'
  BY <1>4 DEF FlagSet, LinkNotify, ItemNotify
<1>5. ASSUME NEW a \in Actors, NEW o \in Objects, NEW n \in 0..Capacity[o],
             FlagClear(a, o, n)
      PROVE  EventFlagKept'
  BY <1>5 DEF FlagClear, LinkNotify, ItemNotify
<1>6. ASSUME NEW a \in Actors, NEW o \in Objects, NEW n \in 0..Capacity[o],
             FlagWait(a, o, n)
      PROVE  EventFlagKept'
  BY <1>6 DEF FlagWait
<1>7. ASSUME NEW a \in Actors, NEW o \in Objects, Reset(a, o)
      PROVE  EventFlagKept'
  BY <1>7 DEF Reset
<1>8. ASSUME NEW a \in Actors, CheckTrigger(a)
      PROVE  EventFlagKept'
  BY <1>8 DEF CheckTrigger
<1>9. ASSUME NEW a \in Actors, Notify(a)
      PROVE  EventFlagKept'
  BY <1>9 DEF Notify, LinkNotify, ItemNotify
<1>10. ASSUME NEW a \in Actors, SetThreadFlags(a)
      PROVE  EventFlagKept'
  BY <1>10 DEF SetThreadFlags
<1>11. ASSUME NEW a \in Actors, NotifyThreadFlags(a)
      PROVE  EventFlagKept'
  BY <1>11 DEF NotifyThreadFlags
<1>12. ASSUME NEW a \in Actors, Stop(a)
      PROVE  EventFlagKept'
  BY <1>12 DEF Stop
<1>13. ASSUME NEW o \in Objects, NEW e \in Subscriptions, Subscribe(o, e)
      PROVE  EventFlagKept'
  BY <1>13 DEF Subscribe, ItemNotify
<1>14. ASSUME NEW o \in Objects, Unsubscribe(o)
      PROVE  EventFlagKept'
  BY <1>14, <1>u DEF Unsubscribe
<1>15. CASE Run
  BY <1>15 DEF Run
<1>16. CASE Free
  BY <1>16, <1>f DEF Free
<1>17. CASE PendCallback
  BY <1>17 DEF PendCallback
<1>18. CASE TimerRequest
  BY <1>18 DEF TimerRequest
<1>19. CASE SubscribeThreadFlags
  BY <1>19 DEF SubscribeThreadFlags
<1>20. CASE UnsubscribeThreadFlags
  BY <1>20 DEF UnsubscribeThreadFlags
<1>21. CASE TakeStop
  BY <1>21 DEF TakeStop, TypeOK
<1>22. CASE TakeEvent
  BY <1>22 DEF TakeEvent
<1>23. CASE TakeTimer
  BY <1>23 DEF TakeTimer
<1>24. CASE TakePending
  BY <1>24 DEF TakePending
<1>25. CASE TakeThreadFlag
  BY <1>25 DEF TakeThreadFlag
<1>26. CASE Timeout
  BY <1>26 DEF Timeout
<1>27. CASE PopItem
  BY <1>27 DEF PopItem
<1>28. CASE EnterOnce
  BY <1>28, <1>u DEF EnterOnce
<1>29. CASE EnterCallback
  BY <1>29 DEF EnterCallback
<1>30. CASE Renotify
  BY <1>30 DEF Renotify, ItemNotify
<1>31. CASE SyncFlags
  BY <1>31 DEF SyncFlags
<1>32. CASE RestoreFlags
  BY <1>32 DEF RestoreFlags
<1>33. CASE PendingStep
  BY <1>33 DEF PendingStep
<1>34. CASE CallbackReturn
  BY <1>34 DEF CallbackReturn
<1>35. CASE PendingReturn
  BY <1>35 DEF PendingReturn
<1>36. CASE UserReturn
  BY <1>36 DEF UserReturn
<1>37. ASSUME NEW a \in Actors, NEW o \in Objects, FlagSetFromISR(a, o)
      PROVE  EventFlagKept'
  BY <1>37 DEF FlagSetFromISR, LinkNotify, ItemNotify
<1>38. ASSUME NEW a \in Actors, NEW o \in Objects, FlagClearFromISR(a, o)
      PROVE  EventFlagKept'
  BY <1>38 DEF FlagClearFromISR, LinkNotify, ItemNotify
<1>39. ASSUME NEW o \in Objects, LateChange(o)
      PROVE  EventFlagKept'
  BY <1>39 DEF LateChange
<1> QED
  BY <1>1, <1>2, <1>3, <1>4, <1>5, <1>6, <1>7, <1>8, <1>9, <1>10,
     <1>11, <1>12, <1>13, <1>14, <1>15, <1>16, <1>17, <1>18, <1>19,
     <1>20, <1>21, <1>22, <1>23, <1>24, <1>25, <1>26, <1>27, <1>28,
     <1>29, <1>30, <1>31, <1>32, <1>33, <1>34, <1>35, <1>36, <1>37,
     <1>38, <1>39, CallCases
     DEF Next, LoopStep, ReturnStep, ClientStep, CallStep, FinishCall

(***************************************************************************)
(* Every step keeps an object whose level is up in the list, on its way    *)
(* there, or under the eyes of process_event.                              *)
(***************************************************************************)
LEMMA LevelStep ==
    ASSUME TypeOK, CallsOK, WaitingIsLive, CurOK, LevelKept, [Next]_vars
    PROVE  LevelKept'
<1> USE DEF CanAct, UserPcs, objVars, itemVars, workVars, tfVars
<1> SUFFICES ASSUME NEW x \in Objects, Due(x)'
             PROVE  Kept(x)'
  BY DEF LevelKept
<1>k. Due(x) => Kept(x)
  BY DEF LevelKept
<1>l. Due(x) => Level(x, sub[x].dir)
  BY DEF Due, Level, TypeOK
<1>t. sub[x].dir \in {"In", "Out", "None"}
  BY DEF TypeOK
<1>i. ASSUME NEW a \in Actors, NEW v, busy[a] = NoOp, sub' = sub,
             busy' = [busy EXCEPT ![a] = v], InFlight(x)
      PROVE  InFlight(x)'
  <2>1. PICK b \in Actors : /\ busy[b].obj = x
                           /\ \/ busy[b].op = sub[x].dir
                              \/ busy[b].op = "check" /\ sub[x].dir = "In"
    BY <1>i DEF InFlight
  <2>2. b # a /\ busy'[b] = busy[b]
    BY <1>i, <2>1 DEF NoOp, TypeOK
  <2> QED BY <1>i, <2>1, <2>2 DEF InFlight
<1>j. ASSUME NEW a \in Actors, NEW v, busy' = [busy EXCEPT ![a] = v],
             sub' = sub, InFlight(x),
             ~(/\ busy[a].obj = x
               /\ \/ busy[a].op = sub[x].dir
                  \/ busy[a].op = "check" /\ sub[x].dir = "In")
      PROVE  InFlight(x)'
  <2>1. PICK b \in Actors : /\ busy[b].obj = x
                           /\ \/ busy[b].op = sub[x].dir
                              \/ busy[b].op = "check" /\ sub[x].dir = "In"
    BY <1>j DEF InFlight
  <2>2. b # a /\ busy'[b] = busy[b]
    BY <1>j, <2>1 DEF TypeOK
  <2> QED BY <1>j, <2>1, <2>2 DEF InFlight
<1>n. ASSUME NEW o \in Objects, ItemNotify(o)
      PROVE  /\ InWaiting(o)'
             /\ InWaiting(x) => InWaiting(x)'
  BY <1>n, NotifyLemma DEF InWaiting
<1>u. ASSUME NEW o, waiting' = Unlink(waiting, o), x # o, InWaiting(x)
      PROVE  InWaiting(x)'
  BY <1>u, UnlinkLemma DEF InWaiting, TypeOK, WaitingIsLive, Distinct
<1>1. CASE UNCHANGED vars
  BY <1>1, <1>k DEF vars, Due, Kept, InWaiting, InFlight, Handled
<1>2. ASSUME NEW a \in Actors, NEW o \in Objects, NEW n \in 0..Capacity[o],
             Put(a, o, n)
      PROVE  Kept(x)'
  <2>1. /\ CanAct(a) /\ sub' = sub /\ waiting' = waiting /\ cur' = cur /\ pc' = pc
        /\ deferred' = deferred
        /\ \A y \in Objects \ {o} : count'[y] = count[y]
    BY <1>2 DEF Put, TypeOK
  <2>2. CASE x # o \/ sub[x].dir # "In"
    <3>1. Due(x)
      BY <1>2, <2>1, <2>2 DEF Put, Due, TypeOK
    <3> QED BY <1>2, <2>1, <3>1, <1>k, <1>i DEF Put, Owes, Kept, InWaiting, Handled
  <2>3. CASE x = o /\ sub[x].dir = "In"
    BY <1>2, <2>1, <2>3 DEF Put, Owes, Kept, InFlight, TypeOK
  <2> QED BY <2>2, <2>3
<1>3. ASSUME NEW a \in Actors, NEW o \in Objects, NEW n \in 0..Capacity[o],
             Take(a, o, n)
      PROVE  Kept(x)'
  <2>1. /\ CanAct(a) /\ sub' = sub /\ waiting' = waiting /\ cur' = cur /\ pc' = pc
        /\ deferred' = deferred
        /\ \A y \in Objects \ {o} : count'[y] = count[y]
    BY <1>3 DEF Take, TypeOK
  <2>2. CASE x # o \/ sub[x].dir # "Out"
    <3>1. count'[x] <= count[x] /\ (x # o => count'[x] = count[x])
      BY <1>3, <2>1 DEF Take, TypeOK
    <3>2. count[x] \in Nat /\ count'[x] \in Int
      BY <1>3, <2>1 DEF Take, TypeOK
    <3>3. Due(x)
      BY <2>1, <2>2, <3>1, <3>2 DEF Due, TypeOK
    <3> QED BY <1>3, <2>1, <3>3, <1>k, <1>i DEF Take, Owes, Kept, InWaiting, Handled
  <2>3. CASE x = o /\ sub[x].dir = "Out"
    BY <1>3, <2>1, <2>3 DEF Take, Owes, Kept, InFlight, TypeOK
  <2> QED BY <2>2, <2>3
<1>4. ASSUME NEW a \in Actors, NEW o \in Objects, NEW n \in 0..Capacity[o],
             FlagSet(a, o, n)
      PROVE  Kept(x)'
  <2>1. /\ sub' = sub /\ busy' = busy /\ cur' = cur /\ pc' = pc
        /\ deferred' = deferred
        /\ \A y \in Objects \ {o} : count'[y] = count[y]
    BY <1>4 DEF FlagSet, TypeOK
  <2>2. CASE x # o \/ sub[x].dir # "In"
    <3>1. count[x] \in Nat /\ count'[x] \in Nat /\ Capacity[x] \in Nat
          /\ count[x] <= count'[x] /\ (x # o => count'[x] = count[x])
      BY <1>4, <2>1 DEF FlagSet, TypeOK
    <3>3. Due(x)
      BY <2>1, <2>2, <3>1, <1>t DEF Due
    <3>2. InWaiting(x) => InWaiting(x)'
      BY <1>4, <1>n DEF FlagSet, LinkNotify, InWaiting
    <3> QED BY <2>1, <3>2, <3>3, <1>k DEF Kept, InFlight, Handled
  <2>3. CASE x = o /\ sub[x].dir = "In"
    <3>1. ItemNotify(x)
      BY <1>4, <2>3 DEF FlagSet, LinkNotify
    <3> QED BY <3>1, <1>n DEF Kept, InWaiting
  <2> QED BY <2>2, <2>3
<1>5. ASSUME NEW a \in Actors, NEW o \in Objects, NEW n \in 0..Capacity[o],
             FlagClear(a, o, n)
      PROVE  Kept(x)'
  <2>1. /\ sub' = sub /\ busy' = busy /\ cur' = cur /\ pc' = pc
        /\ deferred' = deferred
        /\ \A y \in Objects \ {o} : count'[y] = count[y]
    BY <1>5 DEF FlagClear, TypeOK
  <2>2. CASE x # o \/ sub[x].dir # "Out"
    <3>1. Due(x)
      BY <1>5, <2>1, <2>2 DEF FlagClear, Due, TypeOK
    <3>2. InWaiting(x) => InWaiting(x)'
      BY <1>5, <1>n DEF FlagClear, LinkNotify, InWaiting
    <3> QED BY <2>1, <3>1, <3>2, <1>k DEF Kept, InFlight, Handled
  <2>3. CASE x = o /\ sub[x].dir = "Out"
    <3>1. ItemNotify(x)
      BY <1>5, <2>3 DEF FlagClear, LinkNotify
    <3> QED BY <3>1, <1>n DEF Kept, InWaiting
  <2> QED BY <2>2, <2>3
<1>6. ASSUME NEW a \in Actors, NEW o \in Objects, NEW n \in 0..Capacity[o],
             FlagWait(a, o, n)
      PROVE  Kept(x)'
  <2>1. /\ CanAct(a) /\ sub' = sub /\ waiting' = waiting /\ cur' = cur /\ pc' = pc
        /\ deferred' = deferred
        /\ \A y \in Objects \ {o} : count'[y] = count[y]
    BY <1>6 DEF FlagWait, TypeOK
  <2>2. CASE x # o \/ sub[x].dir # "Out"
    <3>1. Due(x)
      BY <1>6, <2>1, <2>2 DEF FlagWait, Due, TypeOK
    <3> QED BY <1>6, <2>1, <3>1, <1>k, <1>i DEF FlagWait, Owes, Kept, InWaiting, Handled
  <2>3. CASE x = o /\ sub[x].dir = "Out"
    BY <1>6, <2>1, <2>3 DEF FlagWait, Owes, Kept, InFlight, TypeOK
  <2> QED BY <2>2, <2>3
<1>7. ASSUME NEW a \in Actors, NEW o \in Objects, Reset(a, o)
      PROVE  Kept(x)'
  <2>1. /\ CanAct(a) /\ sub' = sub /\ waiting' = waiting /\ cur' = cur /\ pc' = pc
        /\ deferred' = deferred
        /\ \A y \in Objects \ {o} : count'[y] = count[y]
    BY <1>7 DEF Reset, TypeOK
  <2>2. CASE x # o \/ sub[x].dir # "Out"
    <3>1. Due(x)
      BY <1>7, <2>1, <2>2 DEF Reset, Due, TypeOK
    <3> QED BY <1>7, <2>1, <3>1, <1>k, <1>i DEF Reset, Owes, Kept, InWaiting, Handled
  <2>3. CASE x = o /\ sub[x].dir = "Out"
    BY <1>7, <2>1, <2>3 DEF Reset, Owes, Kept, InFlight, TypeOK
  <2> QED BY <2>2, <2>3
<1>8. ASSUME NEW a \in Actors, CheckTrigger(a)
      PROVE  Kept(x)'
  <2>1. Due(x)
    BY <1>8 DEF CheckTrigger, Due
  <2>2. CASE count[busy[a].obj] >= Trigger[busy[a].obj]
    <3>0. /\ busy' = [busy EXCEPT ![a] = [op |-> "In", obj |-> busy[a].obj]]
          /\ sub' = sub /\ busy[a].op = "check"
      BY <1>8, <2>2 DEF CheckTrigger, TriggerReached, Owes
    <3>1. InFlight(x) => InFlight(x)'
      <4>1. CASE busy[a].obj = x /\ sub[x].dir = "In"
        BY <3>0, <4>1 DEF InFlight, TypeOK
      <4>2. CASE ~(busy[a].obj = x /\ sub[x].dir = "In")
        BY <3>0, <4>2, <1>j, <1>t
      <4> QED BY <4>1, <4>2
    <3> QED BY <1>8, <2>1, <3>1, <1>k DEF CheckTrigger, Kept, InWaiting, Handled
  <2>3. CASE ~(count[busy[a].obj] >= Trigger[busy[a].obj])
    <3>0. /\ busy' = [busy EXCEPT ![a] = NoOp]
          /\ sub' = sub /\ busy[a].op = "check"
      BY <1>8, <2>3 DEF CheckTrigger, TriggerReached
    <3>1. ~(busy[a].obj = x /\ sub[x].dir = "In")
      BY <2>1, <2>3, <3>0 DEF Due, CallsOK
    <3>2. InFlight(x) => InFlight(x)'
      BY <3>0, <3>1, <1>j, <1>t
    <3> QED BY <1>8, <2>1, <3>2, <1>k DEF CheckTrigger, Kept, InWaiting, Handled
  <2> QED BY <2>2, <2>3
<1>9. ASSUME NEW a \in Actors, Notify(a)
      PROVE  Kept(x)'
  <2>0. /\ busy[a].obj \in Objects /\ busy[a].op \in Dirs
        /\ sub' = sub /\ cur' = cur /\ pc' = pc /\ count' = count
        /\ deferred' = deferred
        /\ busy' = [busy EXCEPT ![a] = NoOp]
    BY <1>9 DEF Notify, CallsOK
  <2>1. Due(x)
    BY <2>0 DEF Due
  <2>2. InWaiting(x) => InWaiting(x)'
    BY <1>9, <2>0, <1>n DEF Notify, LinkNotify, InWaiting
  <2>3. CASE busy[a].obj = x /\ busy[a].op = sub[x].dir
    <3>1. ItemNotify(x)
      BY <1>9, <2>3 DEF Notify, LinkNotify
    <3> QED BY <3>1, <1>n DEF Kept
  <2>4. CASE ~(busy[a].obj = x /\ busy[a].op = sub[x].dir)
    <3>1. InFlight(x) => InFlight(x)'
      BY <2>0, <2>4 DEF InFlight, TypeOK
    <3> QED BY <2>0, <2>1, <2>2, <3>1, <1>k DEF Kept, Handled
  <2> QED BY <2>3, <2>4
<1>10. ASSUME NEW a \in Actors, SetThreadFlags(a)
      PROVE  Kept(x)'
  <2>1. Due(x)
    BY <1>10 DEF SetThreadFlags, Due
  <2> QED BY <1>10, <2>1, <1>k, <1>i DEF SetThreadFlags, Owes, Kept, InWaiting, Handled
<1>11. ASSUME NEW a \in Actors, NotifyThreadFlags(a)
      PROVE  Kept(x)'
  <2>1. Due(x)
    BY <1>11 DEF NotifyThreadFlags, Due
  <2>2. InFlight(x) => InFlight(x)'
    BY <1>11, <1>j, <1>t DEF NotifyThreadFlags
  <2> QED BY <1>11, <2>1, <2>2, <1>k DEF NotifyThreadFlags, Kept, InWaiting, Handled
<1>12. ASSUME NEW a \in Actors, Stop(a)
      PROVE  Kept(x)'
  BY <1>12, <1>k DEF Stop, Due, Kept, InWaiting, InFlight, Handled
<1>13. ASSUME NEW o \in Objects, NEW e \in Subscriptions, Subscribe(o, e)
      PROVE  Kept(x)'
  <2>1. /\ busy' = busy /\ cur' = cur /\ pc' = pc /\ count' = count
        /\ deferred' = deferred
        /\ sub' = [sub EXCEPT ![o] = e] /\ sub[o] = NoSub
    BY <1>13 DEF Subscribe
  <2>2. InWaiting(x) => InWaiting(x)'
    BY <1>13, <1>n DEF Subscribe, InWaiting
  <2>3. CASE x # o
    <3>1. sub'[x] = sub[x]
      BY <2>1, <2>3 DEF TypeOK
    <3> QED BY <2>1, <2>2, <3>1, <1>k DEF Due, Kept, InFlight, Handled
  <2>4. CASE x = o
    <3>1. sub'[x] = e
      BY <2>1, <2>4 DEF TypeOK
    <3>2. ~e.edge /\ Level(x, e.dir)
      BY <2>1, <3>1 DEF Due, Level, TypeOK
    <3>3. ItemNotify(x)
      BY <1>13, <2>4, <3>2 DEF Subscribe
    <3> QED BY <3>3, <1>n DEF Kept
  <2> QED BY <2>3, <2>4
<1>14. ASSUME NEW o \in Objects, Unsubscribe(o)
      PROVE  Kept(x)'
  <2>1. /\ busy' = busy /\ pc' = pc /\ count' = count
        /\ deferred' = deferred
        /\ sub' = [sub EXCEPT ![o] = NoSub] /\ waiting' = Unlink(waiting, o)
        /\ cur' = IF cur.obj = o THEN [cur EXCEPT !.live = FALSE] ELSE cur
    BY <1>14 DEF Unsubscribe
  <2>2. x # o /\ sub'[x] = sub[x]
    BY <2>1 DEF Due, TypeOK
  <2>3. Due(x) /\ (InWaiting(x) => InWaiting(x)')
    BY <2>1, <2>2, <1>u DEF Due
  <2> QED BY <2>1, <2>2, <2>3, <1>k DEF Kept, InFlight, Handled
<1>15. CASE Run
  BY <1>15, <1>k DEF Run, Due, Kept, InWaiting, InFlight, Handled
<1>16. CASE Free
  BY <1>16, <1>k DEF Free, Due, Kept, InWaiting, InFlight, Handled
<1>17. CASE PendCallback
  BY <1>17, <1>k DEF PendCallback, Due, Kept, InWaiting, InFlight, Handled
<1>18. CASE TimerRequest
  BY <1>18, <1>k DEF TimerRequest, Due, Kept, InWaiting, InFlight, Handled
<1>19. CASE SubscribeThreadFlags
  BY <1>19, <1>k DEF SubscribeThreadFlags, Due, Kept, InWaiting, InFlight, Handled
<1>20. CASE UnsubscribeThreadFlags
  BY <1>20, <1>k DEF UnsubscribeThreadFlags, Due, Kept, InWaiting, InFlight, Handled
<1>21. CASE TakeStop
  BY <1>21, <1>k DEF TakeStop, Due, Kept, InWaiting, InFlight, Handled
<1>22. CASE TakeEvent
  BY <1>22, <1>k DEF TakeEvent, Due, Kept, InWaiting, InFlight, Handled
<1>23. CASE TakeTimer
  BY <1>23, <1>k DEF TakeTimer, Due, Kept, InWaiting, InFlight, Handled
<1>24. CASE TakePending
  BY <1>24, <1>k DEF TakePending, Due, Kept, InWaiting, InFlight, Handled
<1>25. CASE TakeThreadFlag
  BY <1>25, <1>k DEF TakeThreadFlag, Due, Kept, InWaiting, InFlight, Handled
<1>26. CASE Timeout
  BY <1>26, <1>k DEF Timeout, Due, Kept, InWaiting, InFlight, Handled
<1>27. CASE PopItem
  <2>1. /\ busy' = busy /\ count' = count /\ sub' = sub /\ pc = "pop"
        /\ deferred' = deferred
    BY <1>27 DEF PopItem
  <2>2. Due(x)
    BY <2>1 DEF Due
  <2>3. CASE waiting = <<>>
    BY <1>27, <2>1, <2>2, <2>3, <1>k DEF PopItem, Kept, InWaiting, InFlight, Handled
  <2>4. CASE waiting # <<>>
    <3>1. /\ waiting' = Tail(waiting) /\ pc' = "enter"
          /\ cur'.obj = Head(waiting) /\ cur'.live
      BY <1>27, <2>4 DEF PopItem
    <3>2. Linked(x, waiting) => x = Head(waiting) \/ Linked(x, waiting')
      BY <2>4, <3>1, PopLemma DEF TypeOK, WaitingIsLive, Distinct
    <3> QED BY <2>1, <2>2, <3>1, <3>2, <1>k DEF Kept, InWaiting, InFlight, Handled
  <2> QED BY <2>3, <2>4
<1>28. CASE EnterOnce
  <2>1. /\ busy' = busy /\ pc' = "crash" /\ count' = count
        /\ deferred' = deferred
        /\ sub' = [sub EXCEPT ![cur.obj] = NoSub]
        /\ waiting' = Unlink(waiting, cur.obj)
    BY <1>28 DEF EnterOnce
  <2>2. x # cur.obj /\ sub'[x] = sub[x]
    BY <2>1 DEF Due, TypeOK
  <2>3. Due(x) /\ (InWaiting(x) => InWaiting(x)')
    BY <2>1, <2>2, <1>u DEF Due
  <2> QED BY <2>1, <2>2, <2>3, <1>k DEF Kept, InFlight, Handled
<1>29. CASE EnterCallback
  <2>1. /\ busy' = busy /\ count' = count /\ sub' = sub /\ cur' = cur
        /\ deferred' = deferred
        /\ waiting' = waiting /\ pc = "enter"
        /\ pc' = IF cur.edge \/ Level(cur.obj, cur.dir) THEN "cb" ELSE "sync"
    BY <1>29 DEF EnterCallback
  <2>2. Due(x)
    BY <2>1 DEF Due
  <2>3. Handled(x) => pc' = "cb"
    BY <2>1, <2>2, <1>l DEF Handled, CurOK
  <2> QED BY <2>1, <2>2, <2>3, <1>k DEF Kept, InWaiting, InFlight, Handled
<1>30. CASE Renotify
  <2>1. /\ busy' = busy /\ count' = count /\ sub' = sub /\ cur' = cur
        /\ deferred' = deferred
        /\ ItemNotify(cur.obj) /\ cur.obj \in Objects
    BY <1>30 DEF Renotify, CurOK
  <2>2. Due(x)
    BY <2>1 DEF Due
  <2>3. /\ InWaiting(cur.obj)'
        /\ InWaiting(x) => InWaiting(x)'
    BY <2>1, <1>n
  <2> QED BY <2>1, <2>2, <2>3, <1>k DEF Kept, InFlight, Handled, InWaiting
<1>31. CASE SyncFlags
  BY <1>31, <1>k DEF SyncFlags, Due, Kept, InWaiting, InFlight, Handled
<1>32. CASE RestoreFlags
  BY <1>32, <1>k DEF RestoreFlags, Due, Kept, InWaiting, InFlight, Handled
<1>33. CASE PendingStep
  BY <1>33, <1>k DEF PendingStep, Due, Kept, InWaiting, InFlight, Handled
<1>34. CASE CallbackReturn
  <2>1. /\ busy' = busy /\ count' = count /\ sub' = sub /\ cur' = cur
        /\ deferred' = deferred
        /\ waiting' = waiting /\ pc = "cb"
        /\ pc' = IF cur.live /\ ~cur.edge /\ Level(cur.obj, cur.dir)
                 THEN "renotify" ELSE "sync"
    BY <1>34 DEF CallbackReturn
  <2>2. Due(x)
    BY <2>1 DEF Due
  <2>3. Handled(x) => pc' = "renotify"
    BY <2>1, <2>2, <1>l DEF Handled, CurOK, Due
  <2> QED BY <2>1, <2>2, <2>3, <1>k DEF Kept, InWaiting, InFlight, Handled
<1>35. CASE PendingReturn
  BY <1>35, <1>k DEF PendingReturn, Due, Kept, InWaiting, InFlight, Handled
<1>36. CASE UserReturn
  BY <1>36, <1>k DEF UserReturn, Due, Kept, InWaiting, InFlight, Handled
<1>37. ASSUME NEW a \in Actors, NEW o \in Objects, FlagSetFromISR(a, o)
      PROVE  Kept(x)'
  <2>1. /\ sub' = sub /\ busy' = busy /\ cur' = cur /\ pc' = pc
        /\ count' = count /\ deferred \subseteq deferred'
    BY <1>37 DEF FlagSetFromISR
  <2>2. Due(x)
    BY <2>1 DEF Due
  <2>3. InWaiting(x) => InWaiting(x)'
    BY <1>37, <1>n DEF FlagSetFromISR, LinkNotify, InWaiting
  <2> QED BY <2>1, <2>2, <2>3, <1>k DEF Kept, InFlight, Handled
<1>38. ASSUME NEW a \in Actors, NEW o \in Objects, FlagClearFromISR(a, o)
      PROVE  Kept(x)'
  <2>1. /\ sub' = sub /\ busy' = busy /\ cur' = cur /\ pc' = pc
        /\ count' = count /\ deferred \subseteq deferred'
    BY <1>38 DEF FlagClearFromISR
  <2>2. Due(x)
    BY <2>1 DEF Due
  <2>3. InWaiting(x) => InWaiting(x)'
    BY <1>38, <1>n DEF FlagClearFromISR, LinkNotify, InWaiting
  <2> QED BY <2>1, <2>2, <2>3, <1>k DEF Kept, InFlight, Handled
<1>39. ASSUME NEW o \in Objects, LateChange(o)
      PROVE  Kept(x)'
  <2>1. x # o
    BY <1>39 DEF LateChange, CallsOK, Due
  <2>2. Due(x)
    BY <1>39, <2>1 DEF LateChange, Due, TypeOK
  <2> QED BY <1>39, <2>2, <1>k DEF LateChange, Kept, InWaiting, InFlight, Handled
<1> QED
  BY <1>1, <1>2, <1>3, <1>4, <1>5, <1>6, <1>7, <1>8, <1>9, <1>10,
     <1>11, <1>12, <1>13, <1>14, <1>15, <1>16, <1>17, <1>18, <1>19,
     <1>20, <1>21, <1>22, <1>23, <1>24, <1>25, <1>26, <1>27, <1>28,
     <1>29, <1>30, <1>31, <1>32, <1>33, <1>34, <1>35, <1>36, <1>37,
     <1>38, <1>39, CallCases
     DEF Next, LoopStep, ReturnStep, ClientStep, CallStep, FinishCall

-----------------------------------------------------------------------------
(***************************************************************************)
(* The state after furi_event_loop_alloc satisfies the invariant.          *)
(***************************************************************************)
LEMMA InitInv == Init => IndInv
<1> SUFFICES ASSUME Init PROVE IndInv
  OBVIOUS
<1> USE DEF Init
<1>1. TypeOK
  <2>1. count \in [Objects -> Nat] /\ \A o \in Objects : count[o] <= Capacity[o]
    <3>1. count \in [Objects -> 0..1]
      OBVIOUS
    <3>2. ASSUME NEW o \in Objects
          PROVE  count[o] \in Nat /\ count[o] <= Capacity[o]
      <4>1. count[o] \in 0..1
        BY <3>1
      <4>2. Capacity[o] \in Nat \ {0}
        OBVIOUS
      <4> QED BY <4>1, <4>2
    <3> QED BY <3>1, <3>2
  <2>2. cur \in [obj: Objects \cup {NoObject}, dir: Dirs \cup {"None"},
                edge: BOOLEAN, live: BOOLEAN]
    BY DEF NoItem
  <2>3. /\ sub \in [Objects -> Subscriptions \cup {NoSub}]
        /\ holder \in [Objects -> Actors \cup {NoObject}]
        /\ busy \in [Actors -> [op: Dirs \cup {"none", "check", "flag"},
                                obj: Objects \cup {NoObject}]]
    BY DEF NoOp
  <2>4. /\ flags \subseteq Flags /\ taken \subseteq Flags \ {"Event", "Stop"}
        /\ pc \in Pcs /\ edgeDue \subseteq Objects
    BY DEF Flags, Pcs
  <2>5. /\ waiting \in Seq(Objects)
        /\ pendq \in Seq([after: Nat, nested: BOOLEAN])
    OBVIOUS
  <2>7. late \in [Objects -> Seq({"set", "clear"})] /\ deferred \subseteq Objects
    OBVIOUS
  <2>6. /\ pends \in Nat /\ treq \in Nat /\ tdone \in Nat /\ stops \in Nat
        /\ tsub \in BOOLEAN /\ tflagDue \in BOOLEAN
    OBVIOUS
  <2> HIDE DEF Init
  <2> QED BY <2>1, <2>2, <2>3, <2>4, <2>5, <2>6, <2>7 DEF TypeOK
<1>2. CallsOK /\ WaitingIsLive /\ CurOK
  BY DEF CallsOK, WaitingIsLive, CurOK, NoOp
<1>3. LevelKept /\ EventFlagKept
  BY DEF LevelKept, EventFlagKept, Due
<1> QED BY <1>1, <1>2, <1>3 DEF IndInv

(***************************************************************************)
(* Every step of the loop, its client and the other threads keeps the      *)
(* invariant.                                                              *)
(***************************************************************************)
LEMMA StepInv == IndInv /\ [Next]_vars => IndInv'
BY TypeStep, WaitingStep, CurStep, EventFlagStep, LevelStep DEF IndInv

(***************************************************************************)
(* The invariant on which the theorems below rest.                         *)
(***************************************************************************)
LEMMA Invariance == Spec => []IndInv
BY InitInv, StepInv, PTL DEF Spec

(***************************************************************************)
(* Every variable of the event loop keeps its type, for any set of         *)
(* objects, threads and subscriptions and without the bounds of a model:   *)
(* in particular no primitive holds more than its capacity.                *)
(***************************************************************************)
THEOREM TypeCorrect == Spec => []TypeOK
<1>1. IndInv => TypeOK
  BY DEF IndInv
<1> QED BY <1>1, Invariance, PTL

(***************************************************************************)
(* furi_event_loop_get_waiting_item never pops an item that was freed by   *)
(* furi_event_loop_unsubscribe, and no item is linked twice.               *)
(***************************************************************************)
THEOREM NoDanglingItem == Spec => []WaitingIsLive
<1>1. IndInv => WaitingIsLive
  BY DEF IndInv
<1> QED BY <1>1, Invariance, PTL

(***************************************************************************)
(* The owner asserted by furi_event_loop_item_notify is there when         *)
(* process_waiting_list puts an item back.                                 *)
(***************************************************************************)
THEOREM RenotifyIsSafe == Spec => []RenotifiedIsOwned
<1>1. IndInv => RenotifiedIsOwned
  BY DEF IndInv, CurOK, RenotifiedIsOwned
<1> QED BY <1>1, Invariance, PTL

(***************************************************************************)
(* No item of the loop is used after furi_event_loop_unsubscribe freed it. *)
(***************************************************************************)
THEOREM ItemsStayLive == Spec => []ItemsAreLive
<1>1. WaitingIsLive /\ RenotifiedIsOwned => ItemsAreLive
  BY DEF ItemsAreLive
<1> QED BY <1>1, NoDanglingItem, RenotifyIsSafe, PTL

(***************************************************************************)
(* No level-triggered wake-up is lost between a primitive's kernel call,   *)
(* its furi_event_loop_link_notify and the flags and lists of the loop,    *)
(* up to the first furi_event_loop_stop.                                   *)
(***************************************************************************)
THEOREM NoLostWakeUp == Spec => []LevelNoticed
<1>1. IndInv => LevelNoticed
  <2>1. SUFFICES ASSUME IndInv, stops = 0, pc = "wait",
                        NEW o \in Objects, Due(o), ~InFlight(o)
                 PROVE  Scheduled(o)
    BY DEF LevelNoticed
  <2>2. InWaiting(o)
    BY <2>1 DEF IndInv, LevelKept, Kept, Handled
  <2>3. waiting # <<>>
    BY <2>2 DEF InWaiting, Linked
  <2>4. "Event" \in flags
    BY <2>1, <2>3 DEF IndInv, EventFlagKept
  <2> QED BY <2>2, <2>4 DEF Scheduled
<1> QED BY <1>1, Invariance, PTL

-----------------------------------------------------------------------------
(***************************************************************************)
(* The second layer: edges, timer requests, deferred calls and thread      *)
(* flags.  WorkInv is inductive relative to IndInv.                        *)
(***************************************************************************)

\* The flags that furi_event_loop_run has taken are held only until
\* furi_event_loop_restore_flags.
TakenOK ==
    taken # {} => pc \in {"pop", "enter", "cb", "renotify", "sync", "restore", "crash"}

\* Some thread has changed o and is about to notify its link.
Announced(o) == \E a \in Actors : busy[a].obj = o /\ busy[a].op = sub[o].dir

\* An edge that has not been delivered yet: the item is in the list, or the
\* notification on its way, or process_event about to call the callback.
EdgeHeld(o) == InWaiting(o) \/ Announced(o) \/ (pc = "enter" /\ cur.obj = o)

EdgeKept ==
    pc # "crash" =>
        \A o \in edgeDue : sub[o].dir \in Dirs /\ sub[o].edge /\ EdgeHeld(o)

\* Work in the two queues has its flag, set or taken, or is being done.
WorkKept ==
    stops = 0 =>
        /\ treq > tdone => "Timer" \in flags \cup taken
        /\ pendq # <<>> => "Pending" \in flags \cup taken \/ pc \in {"pending", "pcb"}

\* Without a deferred call there is nothing of it.
NoPends == pends = 0 => pendq = <<>> /\ "Pending" \notin flags \cup taken

\* A deferred call waits for the timer requests made before it.  Once the
\* Pending branch runs they are processed, but for what its own calls add.
PendOK ==
    /\ \A i \in 1..Len(pendq) : pendq[i].after <= treq
    /\ stops = 0 /\ pc \in {"pending", "pcb"} =>
           \A i \in 1..Len(pendq) : ~pendq[i].nested => pendq[i].after <= tdone

\* Some thread has set a thread flag and has still to notify the loop.
FlagOnItsWay == \E a \in Actors : busy[a].op = "flag"

ThreadFlagKept ==
    /\ tflagDue => tsub
    /\ stops = 0 /\ pends = 0 /\ tflagDue =>
           "ThreadFlag" \in flags \cup taken \/ FlagOnItsWay

WorkInv == TakenOK /\ EdgeKept /\ WorkKept /\ NoPends /\ PendOK /\ ThreadFlagKept

(***************************************************************************)
(* A call of a primitive leaves the loop's own variables alone and sets    *)
(* flags only.                                                             *)
(***************************************************************************)
LEMMA CallFrame ==
    ASSUME NEW a \in Actors, CallStep(a)
    PROVE  /\ UNCHANGED <<pc, taken, sub, cur, pendq, pends, treq, tdone, tsub, stops>>
           /\ flags \subseteq flags'
           /\ flags' \subseteq flags \cup {"Event", "Stop", "ThreadFlag"}
<1> USE DEF objVars, itemVars, workVars, tfVars
<1>1. ASSUME NEW o \in Objects, NEW n \in 0..Capacity[o],
             \/ Put(a, o, n) \/ Take(a, o, n)
             \/ FlagSet(a, o, n) \/ FlagClear(a, o, n) \/ FlagWait(a, o, n)
      PROVE  /\ UNCHANGED <<pc, taken, sub, cur, pendq, pends, treq, tdone, tsub, stops>>
             /\ flags' = flags \/ flags' = flags \cup {"Event"}
  BY <1>1 DEF Put, Take, FlagSet, FlagClear, FlagWait, LinkNotify, ItemNotify
<1>2. ASSUME NEW o \in Objects,
             Reset(a, o) \/ FlagSetFromISR(a, o) \/ FlagClearFromISR(a, o)
      PROVE  /\ UNCHANGED <<pc, taken, sub, cur, pendq, pends, treq, tdone, tsub, stops>>
             /\ flags' = flags \/ flags' = flags \cup {"Event"}
  BY <1>2 DEF Reset, FlagSetFromISR, FlagClearFromISR, LinkNotify, ItemNotify
<1>3. ASSUME SetThreadFlags(a) \/ Stop(a) \/ FinishCall(a)
      PROVE  /\ UNCHANGED <<pc, taken, sub, cur, pendq, pends, treq, tdone, tsub, stops>>
             /\ \/ flags' = flags \/ flags' = flags \cup {"Event"}
                \/ flags' = flags \cup {"Stop"} \/ flags' = flags \cup {"ThreadFlag"}
  BY <1>3 DEF SetThreadFlags, Stop, FinishCall, CheckTrigger, Notify, NotifyThreadFlags,
              LinkNotify, ItemNotify
<1> QED BY <1>1, <1>2, <1>3 DEF CallStep

(***************************************************************************)
(* A call of a primitive keeps the notification of a thread flag that is   *)
(* on its way, or makes it.                                                *)
(***************************************************************************)
LEMMA CallThreadFlag ==
    ASSUME TypeOK, NEW a \in Actors, CallStep(a)
    PROVE  /\ FlagOnItsWay => FlagOnItsWay' \/ "ThreadFlag" \in flags'
           /\ tflagDue' => tflagDue \/ (tsub /\ FlagOnItsWay')
<1> USE DEF objVars, tfVars, CanAct, Owes, NoOp
<1>1. ASSUME NotifyThreadFlags(a)
      PROVE  "ThreadFlag" \in flags' /\ tflagDue' = tflagDue
  BY <1>1 DEF NotifyThreadFlags
<1>2. ASSUME SetThreadFlags(a)
      PROVE  FlagOnItsWay' /\ tflagDue' = tsub
  <2>1. busy'[a].op = "flag"
    BY <1>2 DEF SetThreadFlags, TypeOK
  <2> QED BY <1>2, <2>1 DEF SetThreadFlags, FlagOnItsWay
<1>3. ASSUME busy[a].op # "flag", NEW v, busy' = [busy EXCEPT ![a] = v], FlagOnItsWay
      PROVE  FlagOnItsWay'
  <2>1. PICK b \in Actors : busy[b].op = "flag"
    BY <1>3 DEF FlagOnItsWay
  <2>2. b # a /\ busy'[b] = busy[b]
    BY <1>3, <2>1 DEF TypeOK
  <2> QED BY <2>1, <2>2 DEF FlagOnItsWay
<1>4. ASSUME NEW o \in Objects, NEW n \in 0..Capacity[o],
             Put(a, o, n) \/ Take(a, o, n) \/ FlagWait(a, o, n)
      PROVE  (FlagOnItsWay => FlagOnItsWay') /\ tflagDue' = tflagDue
  <2>1. busy[a].op # "flag"
    BY <1>4 DEF Put, Take, FlagWait
  <2> QED BY <1>3, <1>4, <2>1 DEF Put, Take, FlagWait
<1>5. ASSUME NEW o \in Objects, Reset(a, o)
      PROVE  (FlagOnItsWay => FlagOnItsWay') /\ tflagDue' = tflagDue
  <2>1. busy[a].op # "flag"
    BY <1>5 DEF Reset
  <2> QED BY <1>3, <1>5, <2>1 DEF Reset
<1>6. ASSUME \/ CheckTrigger(a) \/ Notify(a)
      PROVE  (FlagOnItsWay => FlagOnItsWay') /\ tflagDue' = tflagDue
  BY <1>3, <1>6 DEF CheckTrigger, Notify
<1>7. ASSUME \/ Stop(a)
             \/ \E o \in Objects : FlagSetFromISR(a, o) \/ FlagClearFromISR(a, o)
             \/ \E o \in Objects : \E n \in 0..Capacity[o] : FlagSet(a, o, n) \/ FlagClear(a, o, n)
      PROVE  (FlagOnItsWay => FlagOnItsWay') /\ tflagDue' = tflagDue
  BY <1>7 DEF Stop, FlagSetFromISR, FlagClearFromISR, FlagSet, FlagClear, FlagOnItsWay
<1> QED BY <1>1, <1>2, <1>4, <1>5, <1>6, <1>7 DEF CallStep, FinishCall

\* The steps of process_waiting_list before and after the callback.
ItemStep == PopItem \/ EnterOnce \/ EnterCallback \/ CallbackReturn \/ Renotify \/ SyncFlags

(***************************************************************************)
(* process_waiting_list keeps the flags that furi_event_loop_run has taken *)
(* and touches nothing of the other queues.                                *)
(***************************************************************************)
LEMMA ItemFrame ==
    ASSUME ItemStep
    PROVE  /\ UNCHANGED <<taken, busy, pendq, pends, treq, tdone, tsub, stops, tflagDue>>
           /\ flags' = flags \/ flags' = flags \cup {"Event"}
           /\ pc \in {"pop", "enter", "cb", "renotify", "sync"}
           /\ pc' \in {"enter", "cb", "renotify", "sync", "restore", "crash"}
<1> USE DEF objVars, itemVars, workVars, tfVars, ItemNotify
<1> QED
  BY DEF ItemStep, PopItem, EnterOnce, EnterCallback, CallbackReturn, Renotify, SyncFlags

(***************************************************************************)
(* An entry of the pending queue waits for a number of timer requests.     *)
(***************************************************************************)
LEMMA EntryType ==
    ASSUME NEW q \in Seq([after: Nat, nested: BOOLEAN]), NEW i \in 1..Len(q)
    PROVE  q[i].after \in Nat
<1>1. ASSUME NEW S, NEW r \in Seq(S), NEW j \in 1..Len(r) PROVE r[j] \in S
  OBVIOUS
<1>2. q[i] \in [after: Nat, nested: BOOLEAN]
  BY <1>1
<1> QED BY <1>2

(***************************************************************************)
(* Every step keeps the flags of timer requests, deferred calls and thread *)
(* flags, and the order of deferred calls and timer requests.              *)
(***************************************************************************)
LEMMA WorkStep ==
    ASSUME TypeOK, TypeOK', CallsOK, TakenOK, WorkKept, NoPends, PendOK, ThreadFlagKept, [Next]_vars
    PROVE  TakenOK' /\ WorkKept' /\ NoPends' /\ PendOK' /\ ThreadFlagKept'
<1> DEFINE Goal == TakenOK' /\ WorkKept' /\ NoPends' /\ PendOK' /\ ThreadFlagKept'
<1> SUFFICES Goal
  OBVIOUS
<1> USE DEF TakenOK, WorkKept, NoPends, PendOK, ThreadFlagKept,
            CanAct, UserPcs, objVars, itemVars, workVars, tfVars
<1>p. pendq \in Seq([after: Nat, nested: BOOLEAN]) /\ treq \in Nat /\ tdone \in Nat
  BY DEF TypeOK
<1>q. \A i \in 1..Len(pendq) : pendq[i].after \in Nat
  BY <1>p, EntryType
<1>1. ASSUME NEW a \in Actors, CallStep(a) PROVE Goal
  BY <1>1, CallFrame, CallThreadFlag
<1>2. ASSUME NEW o \in Objects, LateChange(o) PROVE Goal
  BY <1>2 DEF LateChange, FlagOnItsWay
<1>3. CASE ItemStep
  BY <1>3, ItemFrame DEF FlagOnItsWay
<1>4. ASSUME NEW o \in Objects, NEW e \in Subscriptions, Subscribe(o, e) PROVE Goal
  BY <1>4 DEF Subscribe, ItemNotify, FlagOnItsWay
<1>5. ASSUME NEW o \in Objects, Unsubscribe(o) PROVE Goal
  BY <1>5 DEF Unsubscribe, FlagOnItsWay
<1>6. CASE PendCallback
  <2>1. /\ pends' = pends + 1 /\ pends \in Nat /\ pc' = pc /\ taken' = taken
        /\ flags' = flags \cup {"Pending"} /\ UNCHANGED <<treq, tdone, tsub, stops, tflagDue, busy>>
    BY <1>6 DEF PendCallback, TypeOK
  <2> DEFINE e == [after |-> treq, nested |-> pc = "pcb"]
  <2>0. e \in [after: Nat, nested: BOOLEAN] /\ e.after = treq /\ (pc = "pcb" => e.nested)
    BY <1>p
  <2>a. pendq' = Append(pendq, e)
    BY <1>6 DEF PendCallback
  <2> HIDE DEF e
  <2>2. /\ Len(pendq') = Len(pendq) + 1 /\ Len(pendq) \in Nat
        /\ \A i \in 1..Len(pendq) : pendq'[i] = pendq[i]
        /\ pendq'[Len(pendq) + 1] = e
    BY <1>p, <2>0, <2>a
  <2>3. \A i \in 1..Len(pendq') : i \in 1..Len(pendq) \/ i = Len(pendq) + 1
    BY <2>2
  <2>4. pc # "pending" /\ treq \in Nat
    BY <1>6 DEF PendCallback, TypeOK
  <2>5. PendOK'
    <3>1. ASSUME NEW i \in 1..Len(pendq') PROVE pendq'[i].after <= treq
      <4>1. CASE i \in 1..Len(pendq)
        BY <2>2, <4>1
      <4>2. CASE i = Len(pendq) + 1
        BY <2>0, <2>2, <2>4, <4>2
      <4> QED BY <2>3, <4>1, <4>2
    <3>2. ASSUME stops = 0, pc \in {"pending", "pcb"}, NEW i \in 1..Len(pendq'), ~pendq'[i].nested
          PROVE  pendq'[i].after <= tdone
      <4>1. i # Len(pendq) + 1
        BY <2>0, <2>2, <2>4, <3>2
      <4>2. i \in 1..Len(pendq) /\ pendq'[i] = pendq[i]
        BY <2>2, <2>3, <4>1
      <4> QED BY <3>2, <4>2
    <3> QED BY <2>1, <3>1, <3>2
  <2>6. TakenOK' /\ WorkKept' /\ NoPends' /\ ThreadFlagKept'
    BY <2>1 DEF FlagOnItsWay
  <2> QED BY <2>5, <2>6
<1>7. CASE TimerRequest
  <2>1. /\ treq' = treq + 1 /\ treq \in Nat /\ flags' = flags \cup {"Timer"}
        /\ UNCHANGED <<pc, taken, busy, pendq, pends, tdone, tsub, stops, tflagDue>>
    BY <1>7 DEF TimerRequest, TypeOK
  <2>3. PendOK'
    BY <1>q, <2>1
  <2>4. TakenOK' /\ WorkKept' /\ NoPends' /\ ThreadFlagKept'
    BY <2>1 DEF FlagOnItsWay
  <2> QED BY <2>3, <2>4
<1>8. CASE SubscribeThreadFlags \/ UnsubscribeThreadFlags
  BY <1>8 DEF SubscribeThreadFlags, UnsubscribeThreadFlags, FlagOnItsWay
<1>9. CASE Run
  BY <1>9 DEF Run, FlagOnItsWay
<1>21. CASE Free
  <2>1. /\ taken = {} /\ flags' = {} /\ pendq' = <<>> /\ tdone' = treq /\ ~tsub
        /\ pc' \in {"freed", "crash"} /\ UNCHANGED <<taken, pends, treq, tsub, stops, tflagDue>>
    BY <1>21 DEF Free
  <2>2. Len(pendq') = 0
    BY <2>1
  <2> QED BY <1>p, <2>1, <2>2
<1>10. CASE TakeStop
  BY <1>10 DEF TakeStop, TypeOK
<1>11. CASE TakeEvent
  BY <1>11 DEF TakeEvent, FlagOnItsWay
<1>12. CASE TakeTimer
  BY <1>12 DEF TakeTimer, TypeOK, FlagOnItsWay
<1>13. CASE TakePending
  <2>1. /\ taken = {} /\ "Timer" \notin flags /\ "Pending" \in flags /\ flags' = {} /\ pc' = "pending"
        /\ UNCHANGED <<taken, busy, pendq, pends, treq, tdone, tsub, stops, tflagDue>>
    BY <1>13 DEF TakePending
  <2>2. stops = 0 => ~(treq > tdone)
    BY <2>1
  <2>3. PendOK'
    <3> SUFFICES ASSUME stops = 0, NEW i \in 1..Len(pendq)
                 PROVE  pendq[i].after <= tdone
      BY <2>1
    <3>1. pendq[i].after <= treq /\ treq <= tdone /\ pendq[i].after \in Nat
      BY <1>p, <1>q, <2>2
    <3> QED BY <1>p, <3>1
  <2>4. TakenOK' /\ WorkKept' /\ NoPends' /\ ThreadFlagKept'
    BY <2>1, <2>2
  <2> QED BY <2>3, <2>4
<1>14. CASE TakeThreadFlag
  BY <1>14 DEF TakeThreadFlag
<1>15. CASE Timeout
  BY <1>15 DEF Timeout, FlagOnItsWay
<1>16. CASE RestoreFlags
  BY <1>16 DEF RestoreFlags, FlagOnItsWay
<1>17. CASE PendingStep
  BY <1>17 DEF PendingStep, FlagOnItsWay
<1>18. CASE PendingReturn
  <2>1. /\ pc = "pcb" /\ pc' = "pending" /\ pendq # <<>> /\ pendq' = Tail(pendq)
        /\ UNCHANGED <<flags, taken, busy, pends, treq, tdone, tsub, stops, tflagDue>>
    BY <1>18 DEF PendingReturn, CallsOK
  <2>2. /\ Len(pendq') = Len(pendq) - 1 /\ Len(pendq) \in Nat
        /\ \A i \in 1..Len(pendq') : i + 1 \in 1..Len(pendq) /\ pendq'[i] = pendq[i + 1]
    BY <2>1 DEF TypeOK
  <2>3. PendOK'
    BY <2>1, <2>2
  <2>4. TakenOK' /\ WorkKept' /\ NoPends' /\ ThreadFlagKept'
    BY <2>1 DEF FlagOnItsWay
  <2> QED BY <2>3, <2>4
<1>19. CASE UserReturn
  BY <1>19 DEF UserReturn, FlagOnItsWay
<1>20. CASE UNCHANGED vars
  BY <1>20 DEF vars, FlagOnItsWay
<1> QED
  BY <1>1, <1>2, <1>3, <1>4, <1>5, <1>6, <1>7, <1>8, <1>9, <1>10, <1>11, <1>12, <1>13,
     <1>14, <1>15, <1>16, <1>17, <1>18, <1>19, <1>20, <1>21, CallCases
     DEF Next, LoopStep, ReturnStep, ClientStep, ItemStep

(***************************************************************************)
(* Every step keeps an edge that has not been delivered yet on its way to  *)
(* the callback, or delivers it, or the client unsubscribes the object.    *)
(***************************************************************************)
LEMMA EdgeStep ==
    ASSUME TypeOK, TypeOK', CallsOK, WaitingIsLive, CurOK, EdgeKept, [Next]_vars
    PROVE  EdgeKept'
<1> USE DEF CanAct, UserPcs, objVars, itemVars, workVars, tfVars
<1> DEFINE Good(o) == sub[o].dir \in Dirs /\ sub[o].edge /\ EdgeHeld(o)
<1> SUFFICES ASSUME pc' # "crash", NEW x \in Objects, x \in edgeDue'
             PROVE  Good(x)'
  BY DEF EdgeKept, TypeOK
<1>k. pc # "crash" /\ x \in edgeDue => Good(x)
  BY DEF EdgeKept
<1> HIDE DEF Good
<1>s. ASSUME NEW o \in Objects, NEW d \in Dirs, EdgeSeen(o, d)
      PROVE  \/ x \in edgeDue
             \/ x = o /\ sub[x].dir = d /\ sub[x].edge
  BY <1>s DEF EdgeSeen
<1>f. ASSUME pc # "crash", x \in edgeDue, sub'[x] = sub[x],
             InWaiting(x) => InWaiting(x)', Announced(x) => Announced(x)',
             pc = "enter" /\ cur.obj = x => InWaiting(x)' \/ (pc' = "enter" /\ cur' = cur)
      PROVE  Good(x)'
  BY <1>f, <1>k DEF Good, EdgeHeld
<1>i. ASSUME NEW a \in Actors, NEW v, busy' = [busy EXCEPT ![a] = v], sub' = sub,
             busy[a].op \notin Dirs, x \in edgeDue, pc # "crash"
      PROVE  Announced(x) => Announced(x)'
  <2> SUFFICES ASSUME NEW b \in Actors, busy[b].obj = x, busy[b].op = sub[x].dir
               PROVE  Announced(x)'
    BY DEF Announced
  <2>1. b # a
    BY <1>i, <1>k DEF Good
  <2>2. busy'[b] = busy[b]
    BY <1>i, <2>1 DEF TypeOK
  <2> QED BY <1>i, <2>2 DEF Announced
<1>n. ASSUME NEW o \in Objects, ItemNotify(o)
      PROVE  /\ InWaiting(o)'
             /\ InWaiting(x) => InWaiting(x)'
  BY <1>n, NotifyLemma DEF InWaiting
<1>m. ASSUME NEW o \in Objects, NEW d \in Dirs, LinkNotify(o, d)
      PROVE  /\ sub[o].dir = d => InWaiting(o)'
             /\ InWaiting(x) => InWaiting(x)'
  BY <1>m, <1>n DEF LinkNotify, InWaiting
<1>1. CASE UNCHANGED vars
  BY <1>1, <1>k DEF vars, Good, EdgeHeld, InWaiting, Announced
<1>2. ASSUME NEW a \in Actors, NEW o \in Objects, NEW d \in Dirs, busy[a].op \notin Dirs,
             pc # "crash", UNCHANGED <<pc, sub, cur, waiting>>, Owes(a, d, o), EdgeSeen(o, d)
      PROVE  Good(x)'
  <2>1. CASE x \in edgeDue
    BY <1>2, <2>1, <1>f, <1>i DEF Owes, InWaiting
  <2>2. CASE x = o /\ sub[x].dir = d /\ sub[x].edge
    <3>1. busy'[a] = [op |-> d, obj |-> o]
      BY <1>2 DEF Owes, TypeOK
    <3> QED BY <1>2, <2>2, <3>1 DEF Good, EdgeHeld, Announced
  <2> QED BY <1>2, <1>s, <2>1, <2>2
<1>3. ASSUME NEW o \in Objects, NEW d \in Dirs, pc # "crash",
             UNCHANGED <<pc, sub, cur, busy>>, LinkNotify(o, d), EdgeSeen(o, d)
      PROVE  Good(x)'
  <2>1. CASE x \in edgeDue
    BY <1>3, <2>1, <1>f, <1>m DEF Announced
  <2>2. CASE x = o /\ sub[x].dir = d /\ sub[x].edge
    BY <1>3, <2>2, <1>m DEF Good, EdgeHeld
  <2> QED BY <1>3, <1>s, <2>1, <2>2
<1>4. ASSUME NEW a \in Actors, NEW v, busy[a].op \notin Dirs, busy' = [busy EXCEPT ![a] = v],
             pc # "crash", UNCHANGED <<pc, sub, cur, waiting, edgeDue>>
      PROVE  Good(x)'
  BY <1>4, <1>f, <1>i DEF InWaiting
<1>5. ASSUME NEW a \in Actors, NEW o \in Objects, NEW n \in 0..Capacity[o],
             Put(a, o, n) \/ Take(a, o, n) \/ FlagWait(a, o, n)
      PROVE  Good(x)'
  <2>1. pc # "crash" /\ busy[a].op \notin Dirs /\ UNCHANGED <<pc, sub, cur, waiting>>
    BY <1>5 DEF Put, Take, FlagWait, NoOp
  <2>2. \/ \E d \in Dirs : Owes(a, d, o) /\ EdgeSeen(o, d)
        \/ Owes(a, "check", o) /\ UNCHANGED edgeDue
    BY <1>5 DEF Put, Take, FlagWait
  <2>3. CASE \E d \in Dirs : Owes(a, d, o) /\ EdgeSeen(o, d)
    BY <1>2, <2>1, <2>3
  <2>4. CASE Owes(a, "check", o) /\ UNCHANGED edgeDue
    BY <1>4, <2>1, <2>4 DEF Owes
  <2> QED BY <2>2, <2>3, <2>4
<1>6. ASSUME NEW a \in Actors, NEW o \in Objects, Reset(a, o)
      PROVE  Good(x)'
  <2>1. pc # "crash" /\ busy[a].op \notin Dirs /\ UNCHANGED <<pc, sub, cur, waiting>>
        /\ Owes(a, "Out", o) /\ EdgeSeen(o, "Out")
    BY <1>6 DEF Reset, NoOp
  <2> QED BY <1>2, <2>1
<1>7. ASSUME NEW a \in Actors, NEW o \in Objects, NEW n \in 0..Capacity[o],
             FlagSet(a, o, n) \/ FlagClear(a, o, n)
      PROVE  Good(x)'
  <2>1. pc # "crash" /\ UNCHANGED <<pc, sub, cur, busy>>
        /\ \E d \in Dirs : LinkNotify(o, d) /\ EdgeSeen(o, d)
    BY <1>7 DEF FlagSet, FlagClear
  <2> QED BY <1>3, <2>1
<1>8. ASSUME NEW a \in Actors, NEW o \in Objects,
             FlagSetFromISR(a, o) \/ FlagClearFromISR(a, o)
      PROVE  Good(x)'
  <2>1. pc # "crash" /\ UNCHANGED <<pc, sub, cur, busy>>
        /\ \/ \E d \in Dirs : LinkNotify(o, d) /\ EdgeSeen(o, d)
           \/ UNCHANGED <<waiting, edgeDue>>
    BY <1>8 DEF FlagSetFromISR, FlagClearFromISR
  <2>2. CASE UNCHANGED <<waiting, edgeDue>>
    BY <2>1, <2>2, <1>f DEF InWaiting, Announced
  <2> QED BY <1>3, <2>1, <2>2
<1>9. ASSUME NEW a \in Actors, CheckTrigger(a)
      PROVE  Good(x)'
  <2>1. pc # "crash" /\ busy[a].op \notin Dirs /\ busy[a].obj \in Objects
        /\ UNCHANGED <<pc, sub, cur, waiting>>
    BY <1>9 DEF CheckTrigger, CallsOK
  <2>2. \/ Owes(a, "In", busy[a].obj) /\ EdgeSeen(busy[a].obj, "In")
        \/ busy' = [busy EXCEPT ![a] = NoOp] /\ UNCHANGED edgeDue
    BY <1>9 DEF CheckTrigger
  <2> QED BY <1>2, <1>4, <2>1, <2>2
<1>10. ASSUME NEW a \in Actors, Notify(a)
       PROVE  Good(x)'
  <2>1. /\ pc # "crash" /\ busy[a].obj \in Objects /\ busy[a].op \in Dirs
        /\ UNCHANGED <<pc, sub, cur, edgeDue>> /\ busy' = [busy EXCEPT ![a] = NoOp]
        /\ LinkNotify(busy[a].obj, busy[a].op)
    BY <1>10 DEF Notify, CallsOK
  <2>2. CASE busy[a].obj = x /\ busy[a].op = sub[x].dir
    BY <2>1, <2>2, <1>k, <1>m DEF Good, EdgeHeld
  <2>3. CASE ~(busy[a].obj = x /\ busy[a].op = sub[x].dir)
    <3>1. Announced(x) => Announced(x)'
      BY <2>1, <2>3 DEF Announced, TypeOK
    <3> QED BY <2>1, <3>1, <1>f, <1>m
  <2> QED BY <2>2, <2>3
<1>11. ASSUME NEW a \in Actors, SetThreadFlags(a) \/ NotifyThreadFlags(a)
       PROVE  Good(x)'
  <2>1. /\ pc # "crash" /\ UNCHANGED <<pc, sub, cur, waiting, edgeDue>> /\ busy[a].op \notin Dirs
        /\ \E v : busy' = [busy EXCEPT ![a] = v]
    BY <1>11 DEF SetThreadFlags, NotifyThreadFlags, NoOp, Owes
  <2> QED BY <1>4, <2>1
<1>12. ASSUME NEW a \in Actors, Stop(a)
       PROVE  Good(x)'
  BY <1>12, <1>f DEF Stop, InWaiting, Announced
<1>13. ASSUME NEW o \in Objects, LateChange(o)
       PROVE  Good(x)'
  BY <1>13, <1>f DEF LateChange, InWaiting, Announced
<1>14. ASSUME NEW o \in Objects, NEW e \in Subscriptions, Subscribe(o, e)
       PROVE  Good(x)'
  <2>1. /\ pc # "crash" /\ UNCHANGED <<busy, cur, pc, edgeDue>>
        /\ sub' = [sub EXCEPT ![o] = e] /\ sub[o] = NoSub
    BY <1>14 DEF Subscribe
  <2>2. x # o
    BY <2>1, <1>k DEF Good
  <2>3. sub'[x] = sub[x]
    BY <2>1, <2>2 DEF TypeOK
  <2>4. InWaiting(x) => InWaiting(x)'
    BY <1>14, <1>n DEF Subscribe, InWaiting
  <2>5. Announced(x) => Announced(x)'
    BY <2>1, <2>3 DEF Announced
  <2> QED BY <2>1, <2>3, <2>4, <2>5, <1>f
<1>15. ASSUME NEW o \in Objects, Unsubscribe(o)
       PROVE  Good(x)'
  <2>1. /\ pc # "crash" /\ pc # "enter" /\ UNCHANGED <<busy, pc>> /\ edgeDue' = edgeDue \ {o}
        /\ sub' = [sub EXCEPT ![o] = NoSub] /\ waiting' = Unlink(waiting, o)
    BY <1>15 DEF Unsubscribe
  <2>2. x # o /\ x \in edgeDue
    BY <2>1
  <2>3. sub'[x] = sub[x]
    BY <2>1, <2>2 DEF TypeOK
  <2>4. InWaiting(x) => InWaiting(x)'
    BY <2>1, <2>2, UnlinkLemma DEF InWaiting, TypeOK, WaitingIsLive, Distinct
  <2>5. Announced(x) => Announced(x)'
    BY <2>1, <2>3 DEF Announced
  <2> QED BY <2>1, <2>2, <2>3, <2>4, <2>5, <1>f
<1>16. CASE Run \/ Free \/ PendCallback \/ TimerRequest
  BY <1>16, <1>f DEF Run, Free, PendCallback, TimerRequest, InWaiting, Announced
<1>17. CASE SubscribeThreadFlags \/ UnsubscribeThreadFlags
  BY <1>17, <1>f DEF SubscribeThreadFlags, UnsubscribeThreadFlags, InWaiting, Announced
<1>18. CASE TakeStop \/ TakeEvent \/ TakeTimer \/ TakePending \/ TakeThreadFlag \/ Timeout
  BY <1>18, <1>f
     DEF TakeStop, TakeEvent, TakeTimer, TakePending, TakeThreadFlag, Timeout, InWaiting, Announced
<1>19. CASE PopItem
  <2>1. /\ pc = "pop" /\ UNCHANGED <<busy, sub, edgeDue>>
    BY <1>19 DEF PopItem
  <2>2. CASE waiting = <<>>
    BY <1>19, <2>1, <2>2, <1>f DEF PopItem, InWaiting, Announced
  <2>3. CASE waiting # <<>>
    <3>1. waiting' = Tail(waiting) /\ pc' = "enter" /\ cur'.obj = Head(waiting)
      BY <1>19, <2>3 DEF PopItem
    <3>2. Linked(x, waiting) => x = Head(waiting) \/ Linked(x, waiting')
      BY <2>3, <3>1, PopLemma DEF TypeOK, WaitingIsLive, Distinct
    <3> QED BY <2>1, <3>1, <3>2, <1>k DEF Good, EdgeHeld, InWaiting, Announced
  <2> QED BY <2>2, <2>3
<1>20. CASE EnterOnce
  BY <1>20 DEF EnterOnce
<1>21. CASE EnterCallback
  <2>1. /\ UNCHANGED <<busy, sub, cur, waiting>> /\ pc = "enter" /\ cur.live /\ x \in edgeDue
        /\ pc' = IF cur.edge \/ Level(cur.obj, cur.dir) THEN "cb" ELSE "sync"
        /\ edgeDue' = IF pc' = "cb" THEN edgeDue \ {cur.obj} ELSE edgeDue
    BY <1>21 DEF EnterCallback, CurOK
  <2>2. cur.obj = x => cur.edge
    BY <2>1, <1>k DEF CurOK, Good
  <2>3. cur.obj # x
    BY <2>1, <2>2
  <2> QED BY <2>1, <2>3, <1>f DEF InWaiting, Announced
<1>22. CASE Renotify
  <2>1. /\ pc = "renotify" /\ UNCHANGED <<busy, sub, cur, edgeDue>>
        /\ ItemNotify(cur.obj) /\ cur.obj \in Objects
    BY <1>22 DEF Renotify, CurOK
  <2> QED BY <2>1, <1>n, <1>f DEF Announced
<1>23. CASE SyncFlags \/ RestoreFlags \/ PendingStep \/ ReturnStep
  BY <1>23, <1>f DEF SyncFlags, RestoreFlags, PendingStep, ReturnStep, CallbackReturn,
     PendingReturn, UserReturn, InWaiting, Announced
<1> QED
  BY <1>1, <1>5, <1>6, <1>7, <1>8, <1>9, <1>10, <1>11, <1>12, <1>13, <1>14, <1>15, <1>16,
     <1>17, <1>18, <1>19, <1>20, <1>21, <1>22, <1>23, CallCases
     DEF Next, LoopStep, ClientStep, CallStep, FinishCall

-----------------------------------------------------------------------------
(***************************************************************************)
(* A loop that has just been allocated has nothing in its queues.          *)
(***************************************************************************)
LEMMA WorkInit == Init => WorkInv
<1> SUFFICES ASSUME Init PROVE WorkInv
  OBVIOUS
<1>1. taken = {} /\ edgeDue = {} /\ treq = 0 /\ tdone = 0 /\ pendq = <<>> /\ ~tflagDue
      /\ flags = {} /\ pc = "idle"
  BY DEF Init
<1>2. Len(pendq) = 0
  BY <1>1
<1> QED BY <1>1, <1>2 DEF WorkInv, TakenOK, EdgeKept, WorkKept, NoPends, PendOK, ThreadFlagKept

(***************************************************************************)
(* The second layer holds in every state.                                  *)
(***************************************************************************)
LEMMA WorkInvariance == Spec => []WorkInv
<1>1. IndInv /\ IndInv' /\ WorkInv /\ [Next]_vars => WorkInv'
  BY WorkStep, EdgeStep DEF IndInv, WorkInv
<1> QED BY <1>1, WorkInit, Invariance, PTL DEF Spec

(***************************************************************************)
(* No lost edge: a change of an edge-subscribed object whose callback has  *)
(* not been called is still scheduled when furi_event_loop_run sleeps.     *)
(***************************************************************************)
THEOREM NoLostEdge == Spec => []EdgeNoticed
<1>1. IndInv /\ WorkInv => EdgeNoticed
  <2> SUFFICES ASSUME IndInv, WorkInv, stops = 0, pc = "wait", NEW o \in edgeDue, ~InFlight(o)
               PROVE  Scheduled(o)
    BY DEF EdgeNoticed
  <2>1. EdgeHeld(o)
    BY DEF WorkInv, EdgeKept
  <2>2. ~Announced(o)
    BY DEF Announced, InFlight
  <2>3. InWaiting(o)
    BY <2>1, <2>2 DEF EdgeHeld
  <2>4. waiting # <<>>
    BY <2>3 DEF InWaiting, Linked
  <2> QED BY <2>3, <2>4 DEF Scheduled, IndInv, EventFlagKept
<1> QED BY <1>1, Invariance, WorkInvariance, PTL

(***************************************************************************)
(* Timer requests and deferred calls are never forgotten: a queue that is  *)
(* not empty while the loop sleeps has its flag set.                       *)
(***************************************************************************)
THEOREM WorkStaysFlagged == Spec => []WorkIsFlagged
<1>1. WorkInv => WorkIsFlagged
  BY DEF WorkInv, TakenOK, WorkKept, WorkIsFlagged
<1> QED BY <1>1, WorkInvariance, PTL

(***************************************************************************)
(* A deferred call runs after the timer requests made before it.           *)
(***************************************************************************)
THEOREM CallsAfterTimers == Spec => []PendingAfterTimers
<1>1. IndInv /\ WorkInv => PendingAfterTimers
  <2> SUFFICES ASSUME IndInv, WorkInv, stops = 0, pc = "pcb", ~Head(pendq).nested
               PROVE  Head(pendq).after <= tdone
    BY DEF PendingAfterTimers
  <2>1. pendq # <<>> /\ pendq \in Seq([after: Nat, nested: BOOLEAN])
    BY DEF IndInv, CallsOK, TypeOK
  <2>2. 1 \in 1..Len(pendq) /\ Head(pendq) = pendq[1]
    BY <2>1
  <2> QED BY <2>2 DEF WorkInv, PendOK
<1> QED BY <1>1, Invariance, WorkInvariance, PTL

(***************************************************************************)
(* A thread flag set while the client is subscribed to them is notified    *)
(* when the loop sleeps, whatever branch took it together with others, as  *)
(* long as no call has been deferred.                                      *)
(***************************************************************************)
THEOREM NoLostThreadFlag == Spec => []ThreadFlagNoticed
<1>1. WorkInv => ThreadFlagNoticed
  BY DEF WorkInv, TakenOK, ThreadFlagKept, FlagOnItsWay, ThreadFlagNoticed
<1> QED BY <1>1, WorkInvariance, PTL
=============================================================================
