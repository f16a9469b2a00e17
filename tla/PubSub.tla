-------------------------------- MODULE PubSub --------------------------------
(***************************************************************************)
(* FuriPubSub (furi/core/pubsub.c): a list of subscriptions guarded by a   *)
(* mutex.  furi_pubsub_publish calls the callbacks of all subscribers one  *)
(* after the other, in the publisher's thread and with the mutex held.     *)
(*                                                                         *)
(* A subscription is the memory of a list node; a client uses the pointer  *)
(* to it from the end of its subscribe to the start of its unsubscribe.    *)
(*                                                                         *)
(* Callbacks do not call the instance they are called by: the mutex is not *)
(* a recursive one, and such a call would wait for its own thread.         *)
(***************************************************************************)
EXTENDS Naturals, Sequences, SequencesExt

CONSTANTS
    Threads,   \* the threads that use the instance
    Subs,      \* memory for subscriptions
    NoThread,  \* nobody: the mutex is free
    NoSub      \* the null pointer

ASSUME PubSubAssumption ==
    /\ NoThread \notin Threads
    /\ NoSub \notin Subs

Ops == {"none", "subscribe", "unsubscribe", "publish"}

VARIABLES
    alive, \* the instance is allocated
    owner, \* who holds FuriPubSub.mutex
    list,  \* FuriPubSub.items in the order of iteration
    ready, \* the list nodes whose callback and context have been filled in
    life,  \* what the client of a subscription may do with it
    pc,    \* where a thread is in its call
    op,    \* the call ...
    arg,   \* ... and its subscription
    it,    \* the iterator of furi_pubsub_publish
    seen   \* history: the callbacks it has called so far

callVars == <<pc, op, arg, it, seen>>
vars == <<alive, owner, list, ready, life, pc, op, arg, it, seen>>

Init ==
    /\ alive = TRUE
    /\ owner = NoThread
    /\ list = <<>>
    /\ ready = {}
    /\ life = [s \in Subs |-> "free"]
    /\ pc = [t \in Threads |-> "idle"]
    /\ op = [t \in Threads |-> "none"]
    /\ arg = [t \in Threads |-> NoSub]
    /\ it = [t \in Threads |-> NoSub]
    /\ seen = [t \in Threads |-> <<>>]

Goto(t, l) == pc' = [pc EXCEPT ![t] = l]

-----------------------------------------------------------------------------
\* furi_pubsub_alloc and furi_pubsub_free.  The instance has one owner, which
\* frees it when nobody uses it any more.
Alloc ==
    /\ ~alive
    /\ alive' = TRUE
    /\ UNCHANGED <<owner, list, ready, life, callVars>>

Free ==
    /\ alive
    /\ \A t \in Threads : pc[t] = "idle"
    /\ list = <<>>
    /\ alive' = FALSE
    /\ UNCHANGED <<owner, list, ready, life, callVars>>

\* A thread calls the instance.
Call(t, o, s) ==
    /\ alive
    /\ pc[t] = "idle"
    /\ op' = [op EXCEPT ![t] = o]
    /\ arg' = [arg EXCEPT ![t] = s]
    /\ Goto(t, "lock")
    /\ UNCHANGED <<alive, owner, list, ready, it, seen>>

\* furi_pubsub_subscribe.
Subscribe(t, s) ==
    /\ life[s] = "free"
    /\ life' = [life EXCEPT ![s] = "subscribing"]
    /\ Call(t, "subscribe", s)

\* furi_pubsub_unsubscribe.
Unsubscribe(t, s) ==
    /\ life[s] = "subscribed"
    /\ life' = [life EXCEPT ![s] = "unsubscribing"]
    /\ Call(t, "unsubscribe", s)

\* furi_pubsub_publish.
Publish(t) == Call(t, "publish", NoSub) /\ UNCHANGED life

-----------------------------------------------------------------------------
First == IF list = <<>> THEN NoSub ELSE Head(list)

\* FuriPubSubSubscriptionList_next: the node after s in the list.
After(s) ==
    IF \E i \in 1..Len(list) - 1 : list[i] = s
    THEN list[(CHOOSE i \in 1..Len(list) - 1 : list[i] = s) + 1]
    ELSE NoSub

\* Mutant: unsubscribing does not wait for the mutex.
AcquireShared(t) ==
    /\ pc[t] = "lock"
    /\ owner = NoThread \/ op[t] = "unsubscribe"
    /\ owner' = t
    /\ Goto(t, op[t])
    /\ it' = IF op[t] = "publish" THEN [it EXCEPT ![t] = First] ELSE it
    /\ UNCHANGED <<alive, list, ready, life, op, arg, seen>>

\* furi_mutex_acquire: the mutex is a normal one, which its holder cannot
\* acquire again.  furi_pubsub_publish starts to iterate.
Acquire(t) ==
    /\ pc[t] = "lock"
    /\ owner = NoThread
    /\ owner' = t
    /\ Goto(t, op[t])
    /\ it' = IF op[t] = "publish" THEN [it EXCEPT ![t] = First] ELSE it
    /\ UNCHANGED <<alive, list, ready, life, op, arg, seen>>

\* furi_pubsub_subscribe: a node that is not initialized is put into the list,
\* in front of the others ...
Push(t) ==
    /\ pc[t] = "subscribe"
    /\ list' = <<arg[t]>> \o list
    /\ Goto(t, "fill")
    /\ UNCHANGED <<alive, owner, ready, life, op, arg, it, seen>>

\* ... and filled in.
Fill(t) ==
    /\ pc[t] = "fill"
    /\ ready' = ready \cup {arg[t]}
    /\ Goto(t, "unlock")
    /\ UNCHANGED <<alive, owner, list, life, op, arg, it, seen>>

\* furi_pubsub_unsubscribe: the node is searched for, unlinked and freed.
\* (Not finding it is a failed furi_check.)
RemoveNode(t) ==
    /\ pc[t] = "unsubscribe"
    /\ \E i \in 1..Len(list) : list[i] = arg[t] /\ list' = RemoveAt(list, i)
    /\ ready' = ready \ {arg[t]}
    /\ Goto(t, "unlock")
    /\ UNCHANGED <<alive, owner, life, op, arg, it, seen>>

\* furi_pubsub_publish: the callback of the node is called.
Deliver(t) ==
    /\ pc[t] = "publish"
    /\ it[t] # NoSub
    /\ seen' = [seen EXCEPT ![t] = Append(@, it[t])]
    /\ Goto(t, "callback")
    /\ UNCHANGED <<alive, owner, list, ready, life, op, arg, it>>

\* Mutant: the iteration ends with the first callback.
CallbackReturnLast(t) ==
    /\ pc[t] = "callback"
    /\ it' = [it EXCEPT ![t] = NoSub]
    /\ Goto(t, "publish")
    /\ UNCHANGED <<alive, owner, list, ready, life, op, arg, seen>>

\* The callback returns and the iterator moves on.
CallbackReturn(t) ==
    /\ pc[t] = "callback"
    /\ it' = [it EXCEPT ![t] = After(it[t])]
    /\ Goto(t, "publish")
    /\ UNCHANGED <<alive, owner, list, ready, life, op, arg, seen>>

\* The end of the list.
IterationEnd(t) ==
    /\ pc[t] = "publish"
    /\ it[t] = NoSub
    /\ Goto(t, "unlock")
    /\ UNCHANGED <<alive, owner, list, ready, life, op, arg, it, seen>>

\* Mutant: an early return forgets the mutex when nobody is subscribed.
ReturnLocked(t) ==
    /\ pc[t] = "unlock"
    /\ owner' = IF list = <<>> THEN owner ELSE NoThread
    /\ life' = CASE op[t] = "subscribe" -> [life EXCEPT ![arg[t]] = "subscribed"]
                 [] op[t] = "unsubscribe" -> [life EXCEPT ![arg[t]] = "free"]
                 [] OTHER -> life
    /\ op' = [op EXCEPT ![t] = "none"]
    /\ arg' = [arg EXCEPT ![t] = NoSub]
    /\ seen' = [seen EXCEPT ![t] = <<>>]
    /\ Goto(t, "idle")
    /\ UNCHANGED <<alive, list, ready, it>>

\* furi_mutex_release, and the call returns.
Return(t) ==
    /\ pc[t] = "unlock"
    /\ owner' = NoThread
    /\ life' = CASE op[t] = "subscribe" -> [life EXCEPT ![arg[t]] = "subscribed"]
                 [] op[t] = "unsubscribe" -> [life EXCEPT ![arg[t]] = "free"]
                 [] OTHER -> life
    /\ op' = [op EXCEPT ![t] = "none"]
    /\ arg' = [arg EXCEPT ![t] = NoSub]
    /\ seen' = [seen EXCEPT ![t] = <<>>]
    /\ Goto(t, "idle")
    /\ UNCHANGED <<alive, list, ready, it>>

-----------------------------------------------------------------------------
Section(t) ==
    \/ Push(t) \/ Fill(t) \/ RemoveNode(t) \/ Deliver(t) \/ CallbackReturn(t)
    \/ IterationEnd(t) \/ Return(t)

Next ==
    \/ Alloc \/ Free
    \/ \E t \in Threads : \/ Publish(t) \/ Acquire(t) \/ Section(t)
                          \/ \E s \in Subs : Subscribe(t, s) \/ Unsubscribe(t, s)

Spec == Init /\ [][Next]_vars

(***************************************************************************)
(* Fairness.  The holder of the mutex is scheduled and callbacks return; a *)
(* thread that waits for the mutex gets it in turn, as threads of the same *)
(* priority do (strong fairness).                                          *)
(***************************************************************************)
FairSpec ==
    Spec /\ \A t \in Threads : WF_vars(Section(t)) /\ SF_vars(Acquire(t))

-----------------------------------------------------------------------------
\* Properties.

(***************************************************************************)
(* The type invariant.                                                     *)
(***************************************************************************)
TypeOK ==
    /\ alive \in BOOLEAN
    /\ owner \in Threads \cup {NoThread}
    /\ list \in Seq(Subs)
    /\ ready \subseteq Subs
    /\ life \in [Subs -> {"free", "subscribing", "subscribed", "unsubscribing"}]
    /\ pc \in [Threads -> {"idle", "lock", "subscribe", "fill", "unsubscribe",
                           "publish", "callback", "unlock"}]
    /\ op \in [Threads -> Ops]
    /\ arg \in [Threads -> Subs \cup {NoSub}]
    /\ it \in [Threads -> Subs \cup {NoSub}]
    /\ seen \in [Threads -> Seq(Subs)]

(***************************************************************************)
(* The node that a publisher's iterator is at, before, during and after    *)
(* the callback, is linked and initialized: it is not removed under the    *)
(* publisher's feet, nor seen half made.  furi_pubsub_unsubscribe finds    *)
(* the node it looks for.                                                  *)
(***************************************************************************)
UsedIsLinked ==
    \A t \in Threads :
        /\ pc[t] \in {"publish", "callback"} /\ it[t] # NoSub =>
               it[t] \in ToSet(list) /\ it[t] \in ready
        /\ pc[t] = "unsubscribe" => arg[t] \in ToSet(list)

(***************************************************************************)
(* After furi_pubsub_unsubscribe has returned, the callback is neither     *)
(* running in some other thread nor called again: its context may be       *)
(* freed.                                                                  *)
(***************************************************************************)
SilentAfterUnsubscribe ==
    \A t \in Threads :
        pc[t] = "callback" => life[it[t]] \in {"subscribed", "unsubscribing"}

(***************************************************************************)
(* A message reaches every subscription once, the ones that are being      *)
(* removed by a waiting thread too: when furi_pubsub_publish returns, the  *)
(* callbacks it called are the list as it is then.                         *)
(***************************************************************************)
DeliveredToAll ==
    [][\A t \in Threads : op[t] = "publish" /\ op'[t] = "none" =>
           seen[t] = list]_vars

(***************************************************************************)
(* The list, the mutex and the iterator do what Broadcast promises: calls  *)
(* take effect one at a time, a message reaches whoever is subscribed when *)
(* it is its turn, once, and who has unsubscribed is not called any more.  *)
(***************************************************************************)
Delivering == owner # NoThread /\ pc[owner] \in {"publish", "callback"}

Promise == INSTANCE Broadcast WITH
    subscribed <- ToSet(list),
    done <- {t \in Threads : pc[t] \in {"fill", "unlock"}},
    publisher <- IF Delivering THEN owner ELSE NoThread,
    left <- IF Delivering THEN ToSet(list) \ ToSet(seen[owner]) ELSE {},
    running <- IF Delivering /\ pc[owner] = "callback" THEN it[owner] ELSE NoSub

Implements == Promise!Spec

(***************************************************************************)
(* The instance does not hang: every call returns.                         *)
(***************************************************************************)
CallReturns == \A t \in Threads : pc[t] = "lock" ~> pc[t] = "idle"
=============================================================================
