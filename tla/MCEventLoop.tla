----------------------------- MODULE MCEventLoop -----------------------------
(***************************************************************************)
(* Instances of EventLoop for TLC.                                         *)
(***************************************************************************)
EXTENDS EventLoop, TLC

CONSTANTS q, s, m, f, sem, t1, isr

Ev(dir, edge, once) == [dir |-> dir, edge |-> edge, once |-> once]

\* Objects of every kind the configurations choose from.
AllKinds == (q :> "queue") @@ (s :> "stream") @@ (m :> "mutex")
                @@ (f :> "flag") @@ (sem :> "semaphore")
MCKind == [o \in Objects |-> AllKinds[o]]
MCCapacity == [o \in Objects |-> IF o = s THEN 2 ELSE 1]
MCTrigger == [o \in Objects |-> IF o = s THEN 2 ELSE 0]

AllEvents == {Ev(d, e, FALSE) : d \in Dirs, e \in BOOLEAN}
Once == {Ev("In", TRUE, TRUE)}
LevelOrOnce == {Ev("In", FALSE, FALSE)} \cup Once

\* One instance goes through all kinds: the objects in use at a time (those
\* subscribed, changed or in a call) are in one of the sets of UsedTogether.  A
\* handler uses event flags only, since its calls of the others are those of a
\* thread; the queue is polled for its messages only, the semaphore both ways;
\* and nobody stops the loop.
UsedTogether == {{q, sem}, {m}, {f}}

InUse(o) ==
    \/ sub[o] # NoSub
    \/ count[o] # (IF Kind[o] = "mutex" THEN 1 ELSE 0)
    \/ o \in deferred \cup edgeDue
    \/ \E a \in Actors : busy[a].obj = o

Bounded ==
    /\ \E u \in UsedTogether : \A o \in Objects : InUse(o) => o \in u
    /\ \A a \in Handlers : busy[a] = NoOp \/ Kind[busy[a].obj] = "flag"
    /\ q \in Objects => sub[q].dir # "Out"
    /\ "Stop" \notin flags
=============================================================================
