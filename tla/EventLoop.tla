------------------------------ MODULE EventLoop ------------------------------
(***************************************************************************)
(* FuriEventLoop (furi/core/event_loop.c) together with the primitives it  *)
(* polls: message queues, semaphores, stream buffers, mutexes and event    *)
(* flags.                                                                  *)
(*                                                                         *)
(* One thread, Loop, owns the loop: it runs furi_event_loop_run and, from  *)
(* its callbacks or outside the run, the subscription, timer and deferred  *)
(* call API.  Any thread or interrupt handler may use the primitives, set  *)
(* thread flags and stop the loop.  What crosses between them is the task  *)
(* notification of the loop's thread (flags) and the waiting list, which   *)
(* is only touched inside critical sections.                               *)
(*                                                                         *)
(* A primitive's operation is two steps: the kernel call, which is atomic, *)
(* and afterwards furi_event_loop_link_notify, which is one critical       *)
(* section.  busy[a] records what actor a still owes between the two.      *)
(***************************************************************************)
EXTENDS Integers, Sequences, SequencesExt

CONSTANTS
    Objects,        \* the primitives the loop may be subscribed to
    Kind,           \* [Objects -> Kinds]
    Capacity,       \* [Objects -> Nat]: queue length, bytes, maximal count
    Trigger,        \* [Objects -> Nat]: trigger level of a stream buffer
    Threads,        \* threads and interrupt handlers other than the loop's
    Handlers,       \* the interrupt handlers among them
    Loop,           \* the loop's own thread
    NoObject,       \* the null pointer
    Subscriptions,  \* the event words a client passes to subscribe
    UsesThreadFlags,\* whether the client subscribes to thread flags
    MaxStops,       \* bound: completed calls of furi_event_loop_run
    MaxPend,        \* bound: calls of furi_event_loop_pend_callback
    MaxTimer,       \* bound: timer requests
    DaemonLen       \* room for requests of handlers at the timer service

Actors == Threads \cup {Loop}
Kinds == {"queue", "semaphore", "stream", "mutex", "flag"}
Dirs == {"In", "Out"}
Events == [dir: Dirs, edge: BOOLEAN, once: BOOLEAN]
NoSub == [dir |-> "None", edge |-> FALSE, once |-> FALSE]
Flags == {"Event", "Stop", "Timer", "Pending", "ThreadFlag"}
Pcs == {"idle", "wait", "pop", "enter", "cb", "renotify", "sync", "restore",
        "pending", "pcb", "tcb", "ucb", "freed", "crash"}

\* pc values at which the loop's thread executes the client's code.
UserPcs == {"idle", "cb", "pcb", "tcb", "ucb"}

ASSUME ObjectsAssumption ==
    /\ NoObject \notin Objects
    /\ Loop \notin Threads
    /\ Handlers \subseteq Threads
    /\ Kind \in [Objects -> Kinds]
    /\ Capacity \in [Objects -> Nat \ {0}]
    /\ Trigger \in [Objects -> Nat]
    /\ \A o \in Objects : Kind[o] = "mutex" => Capacity[o] = 1

ASSUME EventsAssumption ==
    /\ Subscriptions \subseteq Events
    /\ UsesThreadFlags \in BOOLEAN

ASSUME BoundsAssumption ==
    /\ MaxStops \in Nat
    /\ MaxPend \in Nat
    /\ MaxTimer \in Nat
    /\ DaemonLen \in Nat

VARIABLES
    flags,    \* the notification value of the loop's thread, index 2
    pc,       \* where the loop's thread is
    taken,    \* the local "flags" of furi_event_loop_run
    sub,      \* the tree of items and the objects' links: the event word
    waiting,  \* waiting_list: the objects whose items are linked in it
    cur,      \* the item in process_event: object, event, owner # NULL
    count,    \* messages, bytes, free count, set bits of an object
    holder,   \* who holds a mutex
    busy,     \* what an actor still has to do of the call it is in
    late,     \* changes of an event flag that the timer service has to make
    deferred, \* history: event flags that ever had such a change
    pendq,    \* pending_queue, the oldest first
    pends,    \* calls of pend_callback so far
    treq,     \* timer requests enqueued so far ...
    tdone,    \* ... and how many of them process_timer_queue has taken
    tsub,     \* are_thread_flags_subscribed
    stops,    \* times furi_event_loop_run has returned
    edgeDue,  \* history: objects whose edge has not been delivered yet
    tflagDue  \* history: a thread flag was set and not delivered yet

objVars == <<count, holder, busy>>
itemVars == <<sub, cur>>
workVars == <<pendq, pends, treq, tdone>>
tfVars == <<tsub, tflagDue>>
isrVars == <<late, deferred>>
vars == <<flags, pc, taken, sub, waiting, cur, count, holder, busy, late,
          deferred, pendq, pends, treq, tdone, tsub, stops, edgeDue, tflagDue>>

NoItem == [obj |-> NoObject, dir |-> "None", edge |-> FALSE, live |-> FALSE]
NoOp == [op |-> "none", obj |-> NoObject]

Init ==
    /\ flags = {}
    /\ pc = "idle"
    /\ taken = {}
    /\ sub = [o \in Objects |-> NoSub]
    /\ waiting = <<>>
    /\ cur = NoItem
    /\ count \in {f \in [Objects -> 0..1] :
                     \A o \in Objects : Kind[o] = "mutex" => f[o] = 1}
    /\ holder = [o \in Objects |-> NoObject]
    /\ busy = [a \in Actors |-> NoOp]
    /\ late = [o \in Objects |-> <<>>]
    /\ deferred = {}
    /\ pendq = <<>>
    /\ pends = 0
    /\ treq = 0
    /\ tdone = 0
    /\ tsub = FALSE
    /\ stops = 0
    /\ edgeDue = {}
    /\ tflagDue = FALSE

-----------------------------------------------------------------------------
\* Helpers.

\* The contract's get_level of each primitive.  The mutex answers "nobody
\* owns it" for both directions.
Level(o, d) ==
    IF Kind[o] = "mutex" THEN count[o] > 0
    ELSE IF d = "In" THEN count[o] > 0 ELSE count[o] < Capacity[o]

Linked(o, s) == \E i \in 1..Len(s) : s[i] = o

InWaiting(o) == Linked(o, waiting)

\* WaitingList_unlink: an item is in the list at most once.
Unlink(s, o) ==
    IF Linked(o, s)
    THEN RemoveAt(s, CHOOSE i \in 1..Len(s) : s[i] = o)
    ELSE s

\* Mutant: a last-in first-out waiting list.
ItemNotifyFront(o) ==
    /\ waiting' = IF InWaiting(o) THEN waiting ELSE <<o>> \o waiting
    /\ flags' = flags \cup {"Event"}

\* furi_event_loop_item_notify.
ItemNotify(o) ==
    /\ waiting' = IF InWaiting(o) THEN waiting ELSE Append(waiting, o)
    /\ flags' = flags \cup {"Event"}

\* Mutant: a change is ignored while the item's own callback runs.
LinkNotifyNotCurrent(o, d) ==
    IF sub[o].dir = d /\ ~(pc = "cb" /\ cur.obj = o)
    THEN ItemNotify(o) ELSE UNCHANGED <<waiting, flags>>

\* furi_event_loop_link_notify: the item subscribed to this direction of o.
LinkNotify(o, d) ==
    IF sub[o].dir = d THEN ItemNotify(o) ELSE UNCHANGED <<waiting, flags>>

\* History: an edge subscription of o in direction d saw a change.
EdgeSeen(o, d) ==
    edgeDue' = IF sub[o].dir = d /\ sub[o].edge
               THEN edgeDue \cup {o} ELSE edgeDue

\* Actor a executes client code and is not inside another call.
CanAct(a) ==
    /\ busy[a] = NoOp
    /\ a = Loop => pc \in UserPcs
    /\ pc # "crash"

Owes(a, op, o) == busy' = [busy EXCEPT ![a] = [op |-> op, obj |-> o]]

-----------------------------------------------------------------------------
\* The primitives, called by any actor.

\* The kernel call of an operation that raises the level of o by n.  On a full
\* object the call fails and changes nothing.
Put(a, o, n) ==
    /\ CanAct(a)
    /\ n > 0 /\ count[o] + n <= Capacity[o]
    /\ count' = [count EXCEPT ![o] = @ + n]
    /\ holder' = [holder EXCEPT ![o] = NoObject]
    /\ Owes(a, IF Kind[o] = "stream" THEN "check" ELSE "In", o)
    /\ IF Kind[o] = "stream" THEN UNCHANGED edgeDue ELSE EdgeSeen(o, "In")
    /\ UNCHANGED <<flags, pc, taken, waiting, itemVars, workVars, tfVars,
                   stops, isrVars>>

\* The kernel call of an operation that lowers it.
Take(a, o, n) ==
    /\ CanAct(a)
    /\ n > 0 /\ n <= count[o]
    /\ count' = [count EXCEPT ![o] = @ - n]
    /\ holder' = IF Kind[o] = "mutex" THEN [holder EXCEPT ![o] = a] ELSE holder
    /\ Owes(a, "Out", o)
    /\ EdgeSeen(o, "Out")
    /\ UNCHANGED <<flags, pc, taken, waiting, itemVars, workVars, tfVars,
                   stops, isrVars>>

\* The kernel call of an operation that empties it.
Reset(a, o) ==
    /\ CanAct(a)
    /\ count' = [count EXCEPT ![o] = 0]
    /\ Owes(a, "Out", o)
    /\ EdgeSeen(o, "Out")
    /\ UNCHANGED <<flags, pc, taken, waiting, itemVars, holder, workVars,
                   tfVars, stops, isrVars>>

\* furi_message_queue_put, _get and _reset.
MessageQueuePut(a, o) == Kind[o] = "queue" /\ Put(a, o, 1)
MessageQueueGet(a, o) == Kind[o] = "queue" /\ Take(a, o, 1)
MessageQueueReset(a, o) == Kind[o] = "queue" /\ Reset(a, o)

\* furi_semaphore_release and furi_semaphore_acquire.
SemaphoreRelease(a, o) == Kind[o] = "semaphore" /\ Put(a, o, 1)
SemaphoreAcquire(a, o) == Kind[o] = "semaphore" /\ Take(a, o, 1)

\* furi_mutex_release, by the holder only, and furi_mutex_acquire.
MutexRelease(a, o) == Kind[o] = "mutex" /\ holder[o] = a /\ Put(a, o, 1)
MutexAcquire(a, o) ==
    Kind[o] = "mutex" /\ a \notin Handlers /\ Take(a, o, 1)

\* furi_stream_buffer_send, _receive and _reset.
StreamBufferSend(a, o, n) == Kind[o] = "stream" /\ Put(a, o, n)
StreamBufferReceive(a, o, n) == Kind[o] = "stream" /\ Take(a, o, n)
StreamBufferReset(a, o) == Kind[o] = "stream" /\ Reset(a, o)

\* Mutant: more bytes than the trigger level.
TriggerPassed(o) == count[o] > Trigger[o]

\* The bytes reach the trigger level.
TriggerReached(o) == count[o] >= Trigger[o]

\* furi_stream_buffer_send after the kernel call: the bytes are counted again
\* and compared with the trigger level.
CheckTrigger(a) ==
    LET o == busy[a].obj IN
    /\ pc # "crash"
    /\ busy[a].op = "check"
    /\ IF TriggerReached(o)
       THEN Owes(a, "In", o) /\ EdgeSeen(o, "In")
       ELSE busy' = [busy EXCEPT ![a] = NoOp] /\ UNCHANGED edgeDue
    /\ UNCHANGED <<flags, pc, taken, waiting, itemVars, count, holder,
                   workVars, tfVars, stops, isrVars>>

\* The end of a primitive's call: furi_event_loop_link_notify.
Notify(a) ==
    /\ pc # "crash"
    /\ busy[a].op \in Dirs
    /\ LinkNotify(busy[a].obj, busy[a].op)
    /\ busy' = [busy EXCEPT ![a] = NoOp]
    /\ UNCHANGED <<pc, taken, itemVars, count, holder, workVars, tfVars, stops,
                   edgeDue, isrVars>>

\* furi_event_flag_set: n bits that were clear become set.  The link is
\* notified inside the same critical section, also when n = 0.
FlagSet(a, o, n) ==
    /\ CanAct(a)
    /\ a \notin Handlers
    /\ Kind[o] = "flag"
    /\ count[o] + n <= Capacity[o]
    /\ count[o] + n > 0
    /\ count' = [count EXCEPT ![o] = @ + n]
    /\ LinkNotify(o, "In")
    /\ EdgeSeen(o, "In")
    /\ UNCHANGED <<pc, taken, itemVars, holder, busy, workVars, tfVars, stops,
                   isrVars>>

\* furi_event_flag_clear: notified when one of the flags was set.
FlagClear(a, o, n) ==
    /\ CanAct(a)
    /\ a \notin Handlers
    /\ Kind[o] = "flag"
    /\ n > 0 /\ n <= count[o]
    /\ count' = [count EXCEPT ![o] = @ - n]
    /\ LinkNotify(o, "Out")
    /\ EdgeSeen(o, "Out")
    /\ UNCHANGED <<pc, taken, itemVars, holder, busy, workVars, tfVars, stops,
                   isrVars>>

\* furi_event_flag_wait that is satisfied: it clears n bits (none with
\* FuriFlagNoClear) in the kernel call and notifies the link afterwards.  When
\* another thread c sets the flags that a is blocked for, the kernel hands them
\* over: they are never seen set, and furi_event_flag_set does not notify.
FlagWait(a, o, n) ==
    /\ CanAct(a)
    /\ a \notin Handlers
    /\ Kind[o] = "flag"
    /\ n <= count[o]
    /\ \/ count[o] > 0
       \/ \E c \in Actors \ (Handlers \cup {a}) : CanAct(c)
    /\ count' = [count EXCEPT ![o] = @ - n]
    /\ Owes(a, "Out", o)
    /\ EdgeSeen(o, "Out")
    /\ UNCHANGED <<flags, pc, taken, waiting, itemVars, holder, workVars,
                   tfVars, stops, isrVars>>

\* furi_event_flag_set in an interrupt handler: the kernel passes the change on
\* to the timer service, but the link is notified at once.  (When the service
\* has no room, the error code has bits in common with the flags.)
FlagSetFromISR(a, o) ==
    /\ CanAct(a)
    /\ a \in Handlers
    /\ Kind[o] = "flag"
    /\ \/ Len(late[o]) = DaemonLen /\ UNCHANGED isrVars
       \/ /\ Len(late[o]) < DaemonLen
          /\ late' = [late EXCEPT ![o] = Append(@, "set")]
          /\ deferred' = deferred \cup {o}
    /\ LinkNotify(o, "In")
    /\ EdgeSeen(o, "In")
    /\ UNCHANGED <<pc, taken, itemVars, objVars, workVars, tfVars, stops>>

\* furi_event_flag_clear in an interrupt handler: notified when one of the
\* flags is set now, or on failure.
FlagClearFromISR(a, o) ==
    /\ CanAct(a)
    /\ a \in Handlers
    /\ Kind[o] = "flag"
    /\ \/ Len(late[o]) = DaemonLen /\ UNCHANGED isrVars
       \/ /\ Len(late[o]) < DaemonLen
          /\ late' = [late EXCEPT ![o] = Append(@, "clear")]
          /\ deferred' = deferred \cup {o}
    /\ \/ /\ count[o] > 0 \/ Len(late[o]) = DaemonLen
          /\ LinkNotify(o, "Out")
          /\ EdgeSeen(o, "Out")
       \/ /\ count[o] < Capacity[o] /\ Len(late[o]) < DaemonLen
          /\ UNCHANGED <<waiting, flags, edgeDue>>
    /\ UNCHANGED <<pc, taken, itemVars, objVars, workVars, tfVars, stops>>

\* The timer service makes the change, without a word to the link.
LateChange(o) ==
    /\ pc # "crash"
    /\ late[o] # <<>>
    /\ \E n \in 0..Capacity[o] :
          /\ IF Head(late[o]) = "set" THEN n > 0 /\ n >= count[o]
                                      ELSE n <= count[o]
          /\ count' = [count EXCEPT ![o] = n]
    /\ late' = [late EXCEPT ![o] = Tail(@)]
    /\ UNCHANGED <<flags, pc, taken, waiting, itemVars, holder, busy, deferred,
                   workVars, tfVars, stops, edgeDue>>

\* furi_thread_flags_set on the loop's thread: the bits first ...
SetThreadFlags(a) ==
    /\ CanAct(a)
    /\ UsesThreadFlags
    /\ Owes(a, "flag", NoObject)
    /\ tflagDue' = tsub
    /\ UNCHANGED <<flags, pc, taken, waiting, itemVars, count, holder,
                   workVars, tsub, stops, edgeDue, isrVars>>

\* ... then furi_event_loop_thread_flag_callback.
NotifyThreadFlags(a) ==
    /\ pc # "crash"
    /\ busy[a].op = "flag"
    /\ flags' = flags \cup {"ThreadFlag"}
    /\ busy' = [busy EXCEPT ![a] = NoOp]
    /\ UNCHANGED <<pc, taken, waiting, itemVars, count, holder, workVars,
                   tfVars, stops, edgeDue, isrVars>>

\* furi_event_loop_stop, also the handler of FuriSignalExit.
Stop(a) ==
    /\ CanAct(a)
    /\ pc # "freed"
    /\ stops < MaxStops
    /\ flags' = flags \cup {"Stop"}
    /\ UNCHANGED <<pc, taken, waiting, itemVars, objVars, workVars, tfVars,
                   stops, edgeDue, isrVars>>

-----------------------------------------------------------------------------
\* The client API of the loop's thread.

\* furi_event_loop_object_subscribe: one critical section.
Subscribe(o, e) ==
    /\ CanAct(Loop)
    /\ sub[o] = NoSub
    /\ sub' = [sub EXCEPT ![o] = e]
    /\ IF ~e.edge /\ Level(o, e.dir)
       THEN ItemNotify(o)
       ELSE UNCHANGED <<waiting, flags>>
    /\ UNCHANGED <<pc, taken, cur, objVars, workVars, tfVars, stops, edgeDue,
                   isrVars>>

\* furi_event_loop_unsubscribe: one critical section.  The item of the
\* running callback loses its owner and is freed when the callback returns.
Unsubscribe(o) ==
    /\ CanAct(Loop)
    /\ sub[o] # NoSub
    /\ sub' = [sub EXCEPT ![o] = NoSub]
    /\ waiting' = Unlink(waiting, o)
    /\ cur' = IF cur.obj = o THEN [cur EXCEPT !.live = FALSE] ELSE cur
    /\ edgeDue' = edgeDue \ {o}
    /\ UNCHANGED <<flags, pc, taken, objVars, workVars, tfVars, stops,
                   isrVars>>

\* furi_event_loop_pend_callback.
PendCallback ==
    /\ CanAct(Loop)
    /\ pends < MaxPend
    /\ pends' = pends + 1
    /\ pendq' = Append(pendq, [after |-> treq, nested |-> pc = "pcb"])
    /\ flags' = flags \cup {"Pending"}
    /\ UNCHANGED <<pc, taken, waiting, itemVars, objVars, treq, tdone, tfVars,
                   stops, edgeDue, isrVars>>

\* furi_event_loop_timer_start, _restart, _stop and _free, as far as the
\* loop's flags are concerned: a request is enqueued.
TimerRequest ==
    /\ CanAct(Loop)
    /\ treq < MaxTimer
    /\ treq' = treq + 1
    /\ flags' = flags \cup {"Timer"}
    /\ UNCHANGED <<pc, taken, waiting, itemVars, objVars, pendq, pends, tdone,
                   tfVars, stops, edgeDue, isrVars>>

\* furi_event_loop_subscribe_thread_flags.
SubscribeThreadFlags ==
    /\ CanAct(Loop)
    /\ UsesThreadFlags
    /\ ~tsub
    /\ tsub' = TRUE
    /\ UNCHANGED <<flags, pc, taken, waiting, itemVars, objVars, workVars,
                   stops, edgeDue, tflagDue, isrVars>>

\* furi_event_loop_unsubscribe_thread_flags.
UnsubscribeThreadFlags ==
    /\ CanAct(Loop)
    /\ tsub
    /\ tsub' = FALSE
    /\ tflagDue' = FALSE
    /\ UNCHANGED <<flags, pc, taken, waiting, itemVars, objVars, workVars,
                   stops, edgeDue, isrVars>>

\* furi_event_loop_free by a client that has unsubscribed everything and
\* stopped its timers: the timer queue is drained, the checks may crash.
Free ==
    /\ CanAct(Loop)
    /\ pc = "idle"
    /\ \A o \in Objects : sub[o] = NoSub
    /\ ~tsub
    /\ tdone' = treq
    /\ pc' = IF waiting = <<>> THEN "freed" ELSE "crash"
    /\ flags' = {}
    /\ pendq' = <<>>
    /\ UNCHANGED <<taken, waiting, itemVars, objVars, pends, treq, tfVars,
                   stops, edgeDue, isrVars>>

-----------------------------------------------------------------------------
\* furi_event_loop_run, on the loop's thread.

\* The loop is entered.
Run ==
    /\ CanAct(Loop)
    /\ pc = "idle"
    /\ stops < MaxStops
    /\ pc' = "wait"
    /\ UNCHANGED <<flags, taken, waiting, itemVars, objVars, workVars, tfVars,
                   stops, edgeDue, isrVars>>

\* xTaskNotifyWaitIndexed takes all the flags and the Stop branch leaves the
\* loop: whatever else was set is gone.
TakeStop ==
    /\ pc = "wait"
    /\ "Stop" \in flags
    /\ flags' = {}
    /\ stops' = stops + 1
    /\ pc' = "idle"
    /\ UNCHANGED <<taken, waiting, itemVars, objVars, workVars, tfVars,
                   edgeDue, isrVars>>

\* The Event branch; the other flags are kept for restore_flags.
TakeEvent ==
    /\ pc = "wait"
    /\ "Stop" \notin flags
    /\ "Event" \in flags
    /\ taken' = flags \ {"Event"}
    /\ flags' = {}
    /\ pc' = "pop"
    /\ UNCHANGED <<waiting, itemVars, objVars, workVars, tfVars, stops,
                   edgeDue, isrVars>>

\* Mutant: the Timer branch does not restore the other flags.
TakeTimerOnly ==
    /\ pc = "wait"
    /\ flags \cap {"Stop", "Event"} = {}
    /\ "Timer" \in flags
    /\ tdone' = treq
    /\ flags' = {}
    /\ pc' = "restore"
    /\ UNCHANGED <<taken, waiting, itemVars, objVars, pendq, pends, treq,
                   tfVars, stops, edgeDue, isrVars>>

\* The Timer branch: process_timer_queue takes every request.
TakeTimer ==
    /\ pc = "wait"
    /\ flags \cap {"Stop", "Event"} = {}
    /\ "Timer" \in flags
    /\ tdone' = treq
    /\ taken' = flags \ {"Timer"}
    /\ flags' = {}
    /\ pc' = "restore"
    /\ UNCHANGED <<waiting, itemVars, objVars, pendq, pends, treq, tfVars,
                   stops, edgeDue, isrVars>>

\* Mutant: deferred calls are looked at before the timer queue.
TakePendingFirst ==
    /\ pc = "wait"
    /\ flags \cap {"Stop", "Event"} = {}
    /\ "Pending" \in flags
    /\ flags' = flags \ {"Pending"}
    /\ pc' = "pending"
    /\ UNCHANGED <<taken, waiting, itemVars, objVars, workVars, tfVars, stops,
                   edgeDue, isrVars>>

\* The Pending branch restores nothing.
TakePending ==
    /\ pc = "wait"
    /\ flags \cap {"Stop", "Event", "Timer"} = {}
    /\ "Pending" \in flags
    /\ flags' = {}
    /\ pc' = "pending"
    /\ UNCHANGED <<taken, waiting, itemVars, objVars, workVars, tfVars, stops,
                   edgeDue, isrVars>>

\* The ThreadFlag branch.
TakeThreadFlag ==
    /\ pc = "wait"
    /\ flags = {"ThreadFlag"}
    /\ flags' = {}
    /\ pc' = IF tsub THEN "tcb" ELSE "wait"
    /\ tflagDue' = FALSE
    /\ UNCHANGED <<taken, waiting, itemVars, objVars, workVars, tsub, stops,
                   edgeDue, isrVars>>

\* The wait times out: an expired timer's callback, else the tick's.
Timeout ==
    /\ pc = "wait"
    /\ flags = {}
    /\ pc' = "ucb"
    /\ UNCHANGED <<flags, taken, waiting, itemVars, objVars, workVars, tfVars,
                   stops, edgeDue, isrVars>>

\* furi_event_loop_get_waiting_item.  Without an item process_waiting_list
\* returns at once.
PopItem ==
    /\ pc = "pop"
    /\ IF waiting = <<>>
       THEN /\ pc' = "restore"
            /\ UNCHANGED <<waiting, cur>>
       ELSE LET o == Head(waiting) IN
            /\ waiting' = Tail(waiting)
            /\ cur' = [obj |-> o, dir |-> sub[o].dir, edge |-> sub[o].edge,
                       live |-> TRUE]
            /\ pc' = "enter"
    /\ UNCHANGED <<flags, taken, sub, objVars, workVars, tfVars, stops,
                   edgeDue, isrVars>>

\* process_event of an item subscribed with FuriEventLoopEventFlagOnce: it is
\* unsubscribed before it becomes the current item, hence freed, and its
\* zeroed memory is dereferenced.
EnterOnce ==
    /\ pc = "enter"
    /\ sub[cur.obj].once
    /\ sub' = [sub EXCEPT ![cur.obj] = NoSub]
    /\ waiting' = Unlink(waiting, cur.obj)
    /\ cur' = [cur EXCEPT !.live = FALSE]
    /\ pc' = "crash"
    /\ UNCHANGED <<flags, taken, objVars, workVars, tfVars, stops, edgeDue,
                   isrVars>>

\* process_event up to the callback: an edge event is always delivered, a
\* level event if the level is still up.
EnterCallback ==
    /\ pc = "enter"
    /\ ~sub[cur.obj].once
    /\ pc' = IF cur.edge \/ Level(cur.obj, cur.dir) THEN "cb" ELSE "sync"
    /\ edgeDue' = IF pc' = "cb" THEN edgeDue \ {cur.obj} ELSE edgeDue
    /\ UNCHANGED <<flags, taken, waiting, itemVars, objVars, workVars, tfVars,
                   stops, isrVars>>

\* Mutant: the owner of the item is not looked at again after the callback.
CallbackReturnUnowned ==
    /\ pc = "cb"
    /\ busy[Loop] = NoOp
    /\ pc' = IF ~cur.edge /\ Level(cur.obj, cur.dir) THEN "renotify" ELSE "sync"
    /\ UNCHANGED <<flags, taken, waiting, itemVars, objVars, workVars, tfVars,
                   stops, edgeDue, isrVars>>

\* process_event after the callback: Complete, Incomplete or FreeLater.
CallbackReturn ==
    /\ pc = "cb"
    /\ busy[Loop] = NoOp
    /\ pc' = IF cur.live /\ ~cur.edge /\ Level(cur.obj, cur.dir)
             THEN "renotify" ELSE "sync"
    /\ UNCHANGED <<flags, taken, waiting, itemVars, objVars, workVars, tfVars,
                   stops, edgeDue, isrVars>>

\* process_waiting_list, status Incomplete.
Renotify ==
    /\ pc = "renotify"
    /\ ItemNotify(cur.obj)
    /\ pc' = "sync"
    /\ UNCHANGED <<taken, itemVars, objVars, workVars, tfVars, stops, edgeDue,
                   isrVars>>

\* Mutant: the list is not looked at again after an item was processed.
SyncFlagsForgotten ==
    /\ pc = "sync"
    /\ cur' = NoItem
    /\ pc' = "restore"
    /\ UNCHANGED <<flags, taken, waiting, sub, objVars, workVars, tfVars,
                   stops, edgeDue, isrVars>>

\* furi_event_loop_sync_flags.
SyncFlags ==
    /\ pc = "sync"
    /\ flags' = IF waiting = <<>> THEN flags ELSE flags \cup {"Event"}
    /\ cur' = NoItem
    /\ pc' = "restore"
    /\ UNCHANGED <<taken, waiting, sub, objVars, workVars, tfVars, stops,
                   edgeDue, isrVars>>

\* Mutant: the flags taken with the one that was handled are dropped.
RestoreFlagsForgotten ==
    /\ pc = "restore"
    /\ taken' = {}
    /\ pc' = "wait"
    /\ UNCHANGED <<flags, waiting, itemVars, objVars, workVars, tfVars, stops,
                   edgeDue, isrVars>>

\* furi_event_loop_restore_flags, then around the loop.
RestoreFlags ==
    /\ pc = "restore"
    /\ flags' = flags \cup taken
    /\ taken' = {}
    /\ pc' = "wait"
    /\ UNCHANGED <<waiting, itemVars, objVars, workVars, tfVars, stops,
                   edgeDue, isrVars>>

\* furi_event_loop_process_pending_callbacks: the loop's test.
PendingStep ==
    /\ pc = "pending"
    /\ pc' = IF pendq = <<>> THEN "wait" ELSE "pcb"
    /\ UNCHANGED <<flags, taken, waiting, itemVars, objVars, workVars, tfVars,
                   stops, edgeDue, isrVars>>

\* ... the callback returns and its entry, the oldest, is popped.
PendingReturn ==
    /\ pc = "pcb"
    /\ busy[Loop] = NoOp
    /\ pendq' = Tail(pendq)
    /\ pc' = "pending"
    /\ UNCHANGED <<flags, taken, waiting, itemVars, objVars, pends, treq,
                   tdone, tfVars, stops, edgeDue, isrVars>>

\* The thread flags callback, or a timer or tick callback, returns.
UserReturn ==
    /\ pc \in {"tcb", "ucb"}
    /\ busy[Loop] = NoOp
    /\ pc' = "wait"
    /\ UNCHANGED <<flags, taken, waiting, itemVars, objVars, workVars, tfVars,
                   stops, edgeDue, isrVars>>

-----------------------------------------------------------------------------
LoopStep ==
    \/ TakeStop \/ TakeEvent \/ TakeTimer \/ TakePending \/ TakeThreadFlag
    \/ Timeout \/ PopItem \/ EnterOnce \/ EnterCallback \/ Renotify
    \/ SyncFlags \/ RestoreFlags \/ PendingStep

ReturnStep == CallbackReturn \/ PendingReturn \/ UserReturn

ClientStep ==
    \/ Run \/ Free
    \/ \E o \in Objects, e \in Subscriptions : Subscribe(o, e)
    \/ \E o \in Objects : Unsubscribe(o)
    \/ PendCallback
    \/ TimerRequest
    \/ SubscribeThreadFlags
    \/ UnsubscribeThreadFlags

\* The rest of a call that has begun.
FinishCall(a) == CheckTrigger(a) \/ Notify(a) \/ NotifyThreadFlags(a)

PrimitiveCall(a, o) ==
    \/ MessageQueuePut(a, o) \/ MessageQueueGet(a, o) \/ MessageQueueReset(a, o)
    \/ SemaphoreRelease(a, o) \/ SemaphoreAcquire(a, o)
    \/ MutexRelease(a, o) \/ MutexAcquire(a, o)
    \/ StreamBufferReset(a, o)
    \/ FlagSetFromISR(a, o) \/ FlagClearFromISR(a, o)
    \/ \E n \in 0..Capacity[o] :
          \/ StreamBufferSend(a, o, n) \/ StreamBufferReceive(a, o, n)
          \/ FlagSet(a, o, n) \/ FlagClear(a, o, n) \/ FlagWait(a, o, n)

ActorStep(a) ==
    \/ \E o \in Objects : PrimitiveCall(a, o)
    \/ SetThreadFlags(a)
    \/ Stop(a)
    \/ FinishCall(a)

Next ==
    \/ LoopStep
    \/ ReturnStep
    \/ ClientStep
    \/ \E a \in Actors : ActorStep(a)
    \/ \E o \in Objects : LateChange(o)

Spec == Init /\ [][Next]_vars

(***************************************************************************)
(* Fairness.  A thread that has begun a call finishes it and the loop's    *)
(* thread is scheduled; a callback returns after finitely many calls of    *)
(* its own, so its return is not postponed for ever by them (strong        *)
(* fairness, since the return is disabled inside each call).  Nothing is   *)
(* assumed of what clients choose to do.                                   *)
(***************************************************************************)
Fairness ==
    /\ WF_vars(LoopStep)
    /\ SF_vars(ReturnStep)
    /\ \A a \in Actors : WF_vars(FinishCall(a))

FairSpec == Spec /\ Fairness

-----------------------------------------------------------------------------
\* Properties.

(***************************************************************************)
(* The type invariant.                                                     *)
(***************************************************************************)
TypeOK ==
    /\ flags \subseteq Flags
    /\ pc \in Pcs
    /\ taken \subseteq Flags \ {"Event", "Stop"}
    /\ sub \in [Objects -> Subscriptions \cup {NoSub}]
    /\ waiting \in Seq(Objects)
    /\ cur \in [obj: Objects \cup {NoObject}, dir: Dirs \cup {"None"},
                edge: BOOLEAN, live: BOOLEAN]
    /\ count \in [Objects -> Nat]
    /\ \A o \in Objects : count[o] <= Capacity[o]
    /\ holder \in [Objects -> Actors \cup {NoObject}]
    /\ busy \in [Actors -> [op: Dirs \cup {"none", "check", "flag"},
                            obj: Objects \cup {NoObject}]]
    /\ late \in [Objects -> Seq({"set", "clear"})]
    /\ deferred \subseteq Objects
    /\ pendq \in Seq([after: Nat, nested: BOOLEAN])
    /\ pends \in Nat
    /\ treq \in Nat
    /\ tdone \in Nat
    /\ tsub \in BOOLEAN
    /\ stops \in Nat
    /\ edgeDue \subseteq Objects
    /\ tflagDue \in BOOLEAN

(***************************************************************************)
(* Every item linked in the waiting list is subscribed, once: what         *)
(* furi_event_loop_unsubscribe frees is never popped by                    *)
(* furi_event_loop_get_waiting_item, and the check of an empty list in     *)
(* furi_event_loop_free never fires on a client that unsubscribed.         *)
(***************************************************************************)
WaitingIsLive ==
    /\ \A i \in 1..Len(waiting) : sub[waiting[i]] # NoSub
    /\ \A i, j \in 1..Len(waiting) : waiting[i] = waiting[j] => i = j

(***************************************************************************)
(* When process_waiting_list puts an item back in the list (status         *)
(* Incomplete), its callback has not unsubscribed it: the owner that       *)
(* furi_event_loop_item_notify asserts is there.                           *)
(***************************************************************************)
RenotifiedIsOwned ==
    pc = "renotify" => /\ sub[cur.obj].dir = cur.dir
                       /\ sub[cur.obj].edge = cur.edge

(***************************************************************************)
(* No item is used after furi_event_loop_unsubscribe has freed it: neither *)
(* through the waiting list nor by being put back into it after its        *)
(* callback, whatever the callback and the other threads did meanwhile.    *)
(***************************************************************************)
ItemsAreLive == WaitingIsLive /\ RenotifiedIsOwned

\* A stream buffer announces data from its trigger level on, every other
\* primitive a level above zero.  An event flag that an interrupt handler
\* changes is left out: the link is notified before LateChange changes it.
\* So is a mutex for Out, whose level is up while nobody holds it.
Due(o) ==
    /\ o \notin deferred
    /\ sub[o] # NoSub
    /\ ~sub[o].edge
    /\ IF sub[o].dir = "In"
       THEN count[o] > 0 /\ (Kind[o] = "stream" => count[o] >= Trigger[o])
       ELSE Kind[o] # "mutex" /\ count[o] < Capacity[o]

\* Some thread is between changing o and notifying its link.
InFlight(o) ==
    \E a \in Actors : /\ busy[a].obj = o
                      /\ \/ busy[a].op = sub[o].dir
                         \/ busy[a].op = "check" /\ sub[o].dir = "In"

\* The loop will look at o in this iteration or a later one.
Scheduled(o) == InWaiting(o) /\ "Event" \in flags

(***************************************************************************)
(* No lost wake-up of a level event: when the loop is about to sleep, an   *)
(* object whose level is up and of which no notification is on its way is  *)
(* in the waiting list with the Event flag set.  (Up to the first          *)
(* furi_event_loop_stop: TakeStop drops the flags it took with it, and the *)
(* next run begins with the items of the list unannounced.)                *)
(***************************************************************************)
LevelNoticed ==
    stops = 0 /\ pc = "wait" =>
        \A o \in Objects : Due(o) /\ ~InFlight(o) => Scheduled(o)

(***************************************************************************)
(* No lost edge: a change of an edge-subscribed object that its callback   *)
(* has not been called for is still scheduled when the loop sleeps.        *)
(***************************************************************************)
EdgeNoticed ==
    stops = 0 /\ pc = "wait" =>
        \A o \in edgeDue : ~InFlight(o) => Scheduled(o)

(***************************************************************************)
(* Timer requests and deferred calls are never forgotten: while the loop   *)
(* sleeps, a nonempty timer queue has the Timer flag set and a nonempty    *)
(* pending queue the Pending flag, whatever branch took them with another. *)
(***************************************************************************)
WorkIsFlagged ==
    stops = 0 /\ pc = "wait" =>
        /\ treq > tdone => "Timer" \in flags
        /\ pendq # <<>> => "Pending" \in flags

(***************************************************************************)
(* furi_event_loop_pend_callback "calls a function when all preceding      *)
(* timer commands are processed", for calls pended outside another         *)
(* deferred call.  (A nested one is popped by the same loop, before the    *)
(* timer queue is looked at again.)                                        *)
(***************************************************************************)
PendingAfterTimers ==
    stops = 0 /\ pc = "pcb" /\ ~Head(pendq).nested => Head(pendq).after <= tdone

(***************************************************************************)
(* A thread flag set while the loop's client is subscribed to them is not  *)
(* forgotten: its notification is pending when the loop sleeps, whatever   *)
(* branch took it with another.  (As long as no call has been deferred:    *)
(* the Pending branch does not put back what it took.)                     *)
(***************************************************************************)
ThreadFlagNoticed ==
    stops = 0 /\ pends = 0 /\ pc = "wait" /\ tflagDue
        /\ (\A a \in Actors : busy[a].op # "flag") => "ThreadFlag" \in flags

(***************************************************************************)
(* No starvation among subscriptions: an object whose level is up while    *)
(* the loop runs gets its callback, unless the level drops, the client     *)
(* unsubscribes it or the loop is stopped.  The waiting list is a queue:   *)
(* an object that stays busy goes behind the others.                       *)
(***************************************************************************)
LevelServed ==
    \A o \in Objects :
        Due(o) /\ stops = 0 /\ pc # "idle"
            ~> ~Due(o) \/ (pc = "cb" /\ cur.obj = o) \/ pc = "idle"

-----------------------------------------------------------------------------
\* What the documentation says and the code does not do.

(***************************************************************************)
(* event_loop.h on FuriEventLoopEventFlagOnce: the subscription is         *)
(* cancelled "upon the first occurred event", so the step that cancels it  *)
(* on the client's behalf goes on to deliver that event.                   *)
(***************************************************************************)
OnceIsDelivered ==
    [][pc = "enter" /\ sub[cur.obj].once => pc' \in {"enter", "cb", "sync"}]_vars
=============================================================================
