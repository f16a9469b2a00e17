------------------------------ MODULE Broadcast ------------------------------
(***************************************************************************)
(* What FuriPubSub promises (furi/core/pubsub.h), without its list, nodes  *)
(* and mutex: the calls take effect one at a time, between their beginning *)
(* and their return.  A message is for those who are subscribed when its   *)
(* turn comes.  Each of their callbacks is called once, one after the      *)
(* other, and nobody subscribes or unsubscribes before they have returned. *)
(* The order of the callbacks is left open.                                *)
(***************************************************************************)
EXTENDS Naturals

CONSTANTS
    Threads,  \* the threads that use the instance
    Subs,     \* subscriptions
    NoThread, \* nobody
    NoSub     \* no subscription

VARIABLES
    alive,      \* the instance is allocated
    subscribed, \* the subscriptions in effect
    op,         \* the call of a thread ...
    arg,        \* ... and its subscription
    done,       \* the threads whose call has taken effect but not returned
    publisher,  \* whose message is on its way
    left,       \* the subscriptions that have not got it yet
    running     \* the one whose callback runs

callVars == <<op, arg>>
messageVars == <<publisher, left, running>>
vars == <<alive, subscribed, callVars, done, messageVars>>

Init ==
    /\ alive = TRUE
    /\ subscribed = {}
    /\ op = [t \in Threads |-> "none"] /\ arg = [t \in Threads |-> NoSub]
    /\ done = {}
    /\ publisher = NoThread /\ left = {} /\ running = NoSub

\* The owner of the instance, when nobody uses it.
Alloc == ~alive /\ alive' = TRUE /\ UNCHANGED <<subscribed, callVars, done, messageVars>>

Free ==
    /\ alive /\ subscribed = {} /\ \A t \in Threads : op[t] = "none"
    /\ alive' = FALSE
    /\ UNCHANGED <<subscribed, callVars, done, messageVars>>

\* A thread makes a call, for a subscription that no other call is about.
Ask(t, o, s) ==
    /\ alive /\ op[t] = "none"
    /\ op' = [op EXCEPT ![t] = o] /\ arg' = [arg EXCEPT ![t] = s]
    /\ UNCHANGED <<alive, subscribed, done, messageVars>>

Untouched(s) == \A t \in Threads : arg[t] # s

Subscribe(t, s) == s \notin subscribed /\ Untouched(s) /\ Ask(t, "subscribe", s)
Unsubscribe(t, s) == s \in subscribed /\ Untouched(s) /\ Ask(t, "unsubscribe", s)
Publish(t) == Ask(t, "publish", NoSub)

\* Its turn has come, as no message is on its way.
Turn(t, o) == op[t] = o /\ t \notin done /\ publisher = NoThread

Add(t) ==
    /\ Turn(t, "subscribe")
    /\ subscribed' = subscribed \cup {arg[t]} /\ done' = done \cup {t}
    /\ UNCHANGED <<alive, callVars, messageVars>>

Remove(t) ==
    /\ Turn(t, "unsubscribe")
    /\ subscribed' = subscribed \ {arg[t]} /\ done' = done \cup {t}
    /\ UNCHANGED <<alive, callVars, messageVars>>

Begin(t) ==
    /\ Turn(t, "publish")
    /\ publisher' = t /\ left' = subscribed
    /\ UNCHANGED <<alive, subscribed, callVars, done, running>>

Callback(s) ==
    /\ s \in left /\ running = NoSub
    /\ running' = s /\ left' = left \ {s}
    /\ UNCHANGED <<alive, subscribed, callVars, done, publisher>>

CallbackReturns ==
    /\ running # NoSub
    /\ running' = NoSub
    /\ UNCHANGED <<alive, subscribed, callVars, done, publisher, left>>

End(t) ==
    /\ publisher = t /\ running = NoSub /\ left = {}
    /\ publisher' = NoThread /\ done' = done \cup {t}
    /\ UNCHANGED <<alive, subscribed, callVars, left, running>>

Return(t) ==
    /\ t \in done
    /\ op' = [op EXCEPT ![t] = "none"] /\ arg' = [arg EXCEPT ![t] = NoSub]
    /\ done' = done \ {t}
    /\ UNCHANGED <<alive, subscribed, messageVars>>

Next ==
    \/ Alloc \/ Free \/ CallbackReturns
    \/ \E t \in Threads : Publish(t) \/ Add(t) \/ Remove(t) \/ Begin(t) \/ End(t) \/ Return(t)
    \/ \E s \in Subs : \/ Callback(s)
                       \/ \E t \in Threads : Subscribe(t, s) \/ Unsubscribe(t, s)

Spec == Init /\ [][Next]_vars
=============================================================================
