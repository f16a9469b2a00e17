----------------------------- MODULE ThreadProofs -----------------------------
(***************************************************************************)
(* Proofs about Thread, for any number of instances, any capacity of the   *)
(* scrubber's queue and any number of starts, by clients of any mixture of *)
(* the styles of release that are given each other's memory, and about the *)
(* flags of a thread (ThreadFlags).                                        *)
(***************************************************************************)
EXTENDS Thread, ThreadFlags, SequenceTheorems, TLAPS

\* The instance t waits in the scrubber's queue.
Queued(t) == \E i \in 1..Len(queue) : queue[i] = t

\* The scrubber is at step s with t.
At(s, t) == spc = s /\ cur = t

-----------------------------------------------------------------------------
(***************************************************************************)
(* The inductive invariant.                                                *)
(***************************************************************************)

\* The scrubber has an instance except while it waits for one, and no instance
\* is in its queue twice or while it is being cleaned up.
ScrubberOK ==
    /\ spc = "get" <=> cur = NoInstance
    /\ \A i, j \in 1..Len(queue) : queue[i] = queue[j] => i = j
    /\ \A t \in Instances :
         /\ Queued(t) => task[t] = "suspended" /\ ~At("delete", t)
         /\ At("delete", t) => task[t] = "suspended"
         /\ At("stop", t) => task[t] = "none" /\ state[t] = "Stopping"

\* The client is not in a call for an instance that it has not allocated.  The
\* instances of the style "parallel" are freed by the scrubber.
ClientOK ==
    \A t \in Instances :
        /\ owner[t] \in {"new", "start", "join"} => t \in live
        /\ owner[t] = "started" /\ t \notin live => style[t] = "parallel"
        /\ owner[t] = "join" => style[t] # "parallel"

\* A thread that is not running has no task and is not being cleaned up.
Resting(t) == task[t] = "none" /\ ~At("stop", t)

\* How the state, the task and its local storage agree at the points of a run.
RunOK ==
    \A t \in Instances :
        /\ owner[t] \in {"new", "idle"} => Resting(t) /\ (t \in live => state[t] = "Stopped")
        /\ owner[t] = "start" => Resting(t) /\ state[t] = "Starting"
        /\ t \notin live => Resting(t)
        /\ state[t] = "Stopped" => Resting(t)
        /\ owner[t] \in {"started", "join"} /\ Resting(t) /\ t \in live => state[t] = "Stopped"
        /\ task[t] = "created" => state[t] = "Starting" /\ ~tls[t]
        /\ task[t] = "callback" => state[t] = "Running" /\ tls[t]
        /\ task[t] \in {"exit", "suspended"} => state[t] = "Stopping" /\ tls[t]

\* From the end of the thread's callback to the next start, its return code is
\* that of the last start.
RetOK ==
    \A t \in Instances :
        owner[t] \in {"started", "join"} /\ t \in live /\ task[t] \notin {"created", "callback"} =>
            ret[t] = starts[t]

\* A client that is told of the stop has not been told too early, and the
\* scrubber does not touch the instance after it has told; if the client is a
\* new one, the memory has been reused.
ToldOK ==
    \A t \in Instances :
        /\ style[t] = "notified" =>
             /\ owner[t] = "start" => told[t] # "Stopped"
             /\ owner[t] = "started" /\ told[t] = "Stopped" => state[t] = "Stopped" /\ ~At("notify", t)
             /\ owner[t] = "join" => state[t] = "Stopped" /\ ~At("notify", t)
        /\ At("notify", t) /\ ~reused =>
             /\ owner[t] # "new"
             /\ style[t] # "join" => owner[t] = "started" /\ t \in live /\ state[t] = "Stopped"

\* All is well ...
GoodInv ==
    ~crash /\ ScrubberOK /\ ClientOK /\ RunOK /\ RetOK /\ ToldOK

\* ... until the scrubber calls something that it should not.
IndInv == TypeOK /\ (astray \/ GoodInv)

USE ThreadAssumption

-----------------------------------------------------------------------------
\* The scrubber's queue.

(***************************************************************************)
(* furi_thread_scrub_message_queue receives an instance.                   *)
(***************************************************************************)
LEMMA PutLemma ==
    ASSUME queue \in Seq(Instances), NEW t \in Instances, queue' = Append(queue, t)
    PROVE  /\ queue' \in Seq(Instances) /\ Len(queue') = Len(queue) + 1
           /\ \A u : Queued(u)' <=> u = t \/ Queued(u)
           /\ (\A i, j \in 1..Len(queue) : queue[i] = queue[j] => i = j) /\ ~Queued(t) =>
                 \A i, j \in 1..Len(queue') : queue'[i] = queue'[j] => i = j
<1>1. /\ queue' \in Seq(Instances) /\ Len(queue) \in Nat /\ Len(queue') = Len(queue) + 1
      /\ \A i \in 1..Len(queue') : queue'[i] = IF i <= Len(queue) THEN queue[i] ELSE t
  OBVIOUS
<1>2. ASSUME NEW u PROVE Queued(u)' <=> u = t \/ Queued(u)
  BY <1>1 DEF Queued
<1>3. ASSUME \A i, j \in 1..Len(queue) : queue[i] = queue[j] => i = j, ~Queued(t)
      PROVE  \A i, j \in 1..Len(queue') : queue'[i] = queue'[j] => i = j
  BY <1>1, <1>3 DEF Queued
<1> QED BY <1>1, <1>2, <1>3

(***************************************************************************)
(* What is left of the queue when its first message is taken.              *)
(***************************************************************************)
LEMMA QueueLemma ==
    ASSUME queue \in Seq(Instances), queue # <<>>
    PROVE  /\ Head(queue) \in Instances /\ Tail(queue) \in Seq(Instances)
           /\ Len(queue) \in Nat /\ Len(Tail(queue)) = Len(queue) - 1
OBVIOUS

(***************************************************************************)
(* The scrubber takes an instance from its queue.                          *)
(***************************************************************************)
LEMMA GetLemma ==
    ASSUME queue \in Seq(Instances), queue # <<>>, queue' = Tail(queue),
           \A i, j \in 1..Len(queue) : queue[i] = queue[j] => i = j
    PROVE  /\ Head(queue) \in Instances /\ Queued(Head(queue))
           /\ queue' \in Seq(Instances) /\ Len(queue') = Len(queue) - 1
           /\ \A u : Queued(u)' <=> u # Head(queue) /\ Queued(u)
           /\ \A i, j \in 1..Len(queue') : queue'[i] = queue'[j] => i = j
<1>1. /\ Len(queue) \in Nat \ {0} /\ Head(queue) = queue[1] /\ queue[1] \in Instances
      /\ queue' \in Seq(Instances) /\ Len(queue') = Len(queue) - 1
      /\ \A i \in 1..Len(queue') : queue'[i] = queue[i + 1]
  OBVIOUS
<1>2. 1 \in 1..Len(queue) /\ \A i \in 1..Len(queue') : i + 1 \in 1..Len(queue)
  BY <1>1
<1>3. \A i, j \in 1..Len(queue') : queue'[i] = queue'[j] => i = j
  BY <1>1, <1>2
<1>4. ASSUME NEW u PROVE Queued(u)' => u # Head(queue) /\ Queued(u)
  <2> SUFFICES ASSUME NEW i \in 1..Len(queue'), queue'[i] = u
               PROVE  u # Head(queue) /\ Queued(u)
    BY DEF Queued
  <2>1. i + 1 \in 1..Len(queue) /\ queue[i + 1] = u /\ i + 1 # 1
    BY <1>1, <1>2
  <2> QED BY <1>1, <1>2, <2>1 DEF Queued
<1>5. ASSUME NEW u, u # Head(queue), Queued(u) PROVE Queued(u)'
  <2>1. PICK i \in 1..Len(queue) : queue[i] = u
    BY <1>5 DEF Queued
  <2>2. i - 1 \in 1..Len(queue') /\ (i - 1) + 1 = i
    BY <1>1, <1>5, <2>1
  <2> QED BY <1>1, <2>1, <2>2 DEF Queued
<1> QED BY <1>1, <1>2, <1>3, <1>4, <1>5 DEF Queued

-----------------------------------------------------------------------------
\* The steps.

(***************************************************************************)
(* Every step keeps the types.                                             *)
(***************************************************************************)
LEMMA TypeStep == TypeOK /\ [Next]_vars => TypeOK'
<1> SUFFICES ASSUME TypeOK, [Next]_vars PROVE TypeOK'
  OBVIOUS
<1> USE DEF TypeOK, SetState, Check, clientVars, threadVars, scrubVars
<1>t. TypeOK
  OBVIOUS
<1>1. ASSUME NEW t \in Instances, Alloc(t) PROVE TypeOK' BY <1>1, <1>t DEF Alloc, States, Styles
<1>15. ASSUME NEW t \in Instances, NEW s \in Styles, Configure(t, s) PROVE TypeOK' BY <1>15, <1>t DEF Configure
<1>2. ASSUME NEW t \in Instances, Start(t) PROVE TypeOK' BY <1>2, <1>t DEF Start, States
<1>3. ASSUME NEW t \in Instances, Create(t) PROVE TypeOK' BY <1>3, <1>t DEF Create
<1>4. ASSUME NEW t \in Instances, Join(t) PROVE TypeOK' BY <1>4, <1>t DEF Join
<1>5. ASSUME NEW t \in Instances, JoinReturn(t) PROVE TypeOK' BY <1>5, <1>t DEF JoinReturn
<1>6. ASSUME NEW t \in Instances, Free(t) PROVE TypeOK' BY <1>6, <1>t DEF Free
<1>7. ASSUME NEW t \in Instances, Enter(t) PROVE TypeOK' BY <1>7, <1>t DEF Enter, States
<1>8. ASSUME NEW t \in Instances, Return(t) PROVE TypeOK' BY <1>8, <1>t DEF Return, States
<1>9. ASSUME NEW t \in Instances, Exit(t) PROVE TypeOK'
  <2>1. queue' \in Seq(Instances) /\ Len(queue') <= QueueLen
    BY <1>9, <1>t DEF Exit
  <2> QED BY <1>9, <1>t, <2>1 DEF Exit
<1>10. CASE ScrubGet
  <2>1. Head(queue) \in Instances /\ queue' \in Seq(Instances) /\ Len(queue') <= QueueLen
    BY <1>10, <1>t, QueueLemma DEF ScrubGet
  <2> QED BY <1>10, <1>t, <2>1 DEF ScrubGet
<1>11. CASE ScrubDelete BY <1>11, <1>t DEF ScrubDelete
<1>12. CASE ScrubStop BY <1>12, <1>t DEF ScrubStop, States
<1>13. CASE ScrubNotify BY <1>13, <1>t DEF ScrubNotify, States
<1>14. CASE UNCHANGED vars BY <1>14, <1>t DEF vars
<1> QED BY <1>1, <1>2, <1>3, <1>4, <1>5, <1>6, <1>7, <1>8, <1>9, <1>10, <1>11, <1>12,
           <1>13, <1>14, <1>15 DEF Next, Scrub, Finish

(***************************************************************************)
(* The scrubber's part is kept when nothing changes for an instance that   *)
(* is in its queue or being cleaned up.                                    *)
(***************************************************************************)
LEMMA ScrubberKept ==
    ASSUME ScrubberOK, UNCHANGED <<queue, spc, cur>>,
           \A u \in Instances :
               \/ task'[u] = task[u] /\ state'[u] = state[u]
               \/ Resting(u)
    PROVE  ScrubberOK'
<1>1. ASSUME NEW u \in Instances
      PROVE  /\ Queued(u)' => task'[u] = "suspended" /\ ~At("delete", u)'
             /\ At("delete", u)' => task'[u] = "suspended"
             /\ At("stop", u)' => task'[u] = "none" /\ state'[u] = "Stopping"
  <2>1. (Queued(u)' <=> Queued(u)) /\ (At("delete", u)' <=> At("delete", u))
        /\ (At("stop", u)' <=> At("stop", u))
    BY DEF Queued, At
  <2>2. /\ Queued(u) => task[u] = "suspended" /\ ~At("delete", u)
        /\ At("delete", u) => task[u] = "suspended"
        /\ At("stop", u) => task[u] = "none" /\ state[u] = "Stopping"
    BY DEF ScrubberOK
  <2> QED BY <2>1, <2>2 DEF Resting
<1> QED BY <1>1 DEF ScrubberOK

(***************************************************************************)
(* The steps of the client keep the invariant.                             *)
(***************************************************************************)
LEMMA ClientStep ==
    ASSUME TypeOK, GoodInv, TypeOK', NEW t \in Instances,
           \/ Alloc(t) \/ Start(t) \/ Create(t) \/ Join(t) \/ JoinReturn(t) \/ Free(t)
           \/ \E s \in Styles : Configure(t, s)
    PROVE  GoodInv'
<1> USE DEF GoodInv, TypeOK, Check, SetState, threadVars, scrubVars
<1>0. UNCHANGED <<queue, spc, cur>>
  BY DEF Alloc, Configure, Start, Create, Join, JoinReturn, Free
<1>1. CASE Alloc(t)
  <2> USE DEF Alloc
  <2>1. ~crash' BY <1>1
  <2>2. ScrubberOK'
    <3>1. \A u \in Instances : (task'[u] = task[u] /\ state'[u] = state[u]) \/ Resting(u)
      BY <1>1 DEF RunOK
    <3> QED BY <1>0, <3>1, ScrubberKept
  <2>3. ClientOK' BY <1>1 DEF ClientOK
  <2>4. RunOK' BY <1>0, <1>1 DEF RunOK, Resting, At
  <2>5. RetOK' BY <1>1 DEF RetOK
  <2>6. ToldOK' BY <1>0, <1>1 DEF ToldOK, At
  <2> QED BY <2>1, <2>2, <2>3, <2>4, <2>5, <2>6
<1>2. CASE Start(t)
  <2> USE DEF Start
  <2>1. ~crash' BY <1>2 DEF RunOK
  <2>2. ScrubberOK'
    <3>1. \A u \in Instances : (task'[u] = task[u] /\ state'[u] = state[u]) \/ Resting(u)
      BY <1>2 DEF RunOK
    <3> QED BY <1>0, <3>1, ScrubberKept
  <2>3. ClientOK' BY <1>2 DEF ClientOK
  <2>4. RunOK' BY <1>0, <1>2 DEF RunOK, Resting, At
  <2>5. RetOK' BY <1>2 DEF RetOK
  <2>6. ToldOK' BY <1>0, <1>2 DEF ToldOK, At
  <2> QED BY <2>1, <2>2, <2>3, <2>4, <2>5, <2>6
<1>3. CASE Create(t)
  <2> USE DEF Create
  <2>1. ~crash' BY <1>3
  <2>2. ScrubberOK'
    <3>1. \A u \in Instances : (task'[u] = task[u] /\ state'[u] = state[u]) \/ Resting(u)
      BY <1>3 DEF RunOK
    <3> QED BY <1>0, <3>1, ScrubberKept
  <2>3. ClientOK' BY <1>3 DEF ClientOK
  <2>4. RunOK' BY <1>0, <1>3 DEF RunOK, Resting, At, ClientOK
  <2>5. RetOK' BY <1>3 DEF RetOK
  <2>6. ToldOK' BY <1>0, <1>3 DEF ToldOK, At
  <2> QED BY <2>1, <2>2, <2>3, <2>4, <2>5, <2>6
<1>4. CASE Join(t)
  <2> USE DEF Join
  <2>1. ~crash' BY <1>4
  <2>2. ScrubberOK' BY <1>0, <1>4, ScrubberKept
  <2>3. ClientOK' BY <1>4 DEF ClientOK, Styles
  <2>4. RunOK' BY <1>0, <1>4 DEF RunOK, Resting, At
  <2>5. RetOK' BY <1>4 DEF RetOK
  <2>6. ToldOK' BY <1>0, <1>4 DEF ToldOK, At
  <2> QED BY <2>1, <2>2, <2>3, <2>4, <2>5, <2>6
<1>5. CASE JoinReturn(t)
  <2> USE DEF JoinReturn
  <2>1. ~crash' BY <1>5
  <2>2. ScrubberOK' BY <1>0, <1>5, ScrubberKept
  <2>3. ClientOK' BY <1>5 DEF ClientOK
  <2>4. RunOK' BY <1>0, <1>5 DEF RunOK, Resting, At
  <2>5. RetOK' BY <1>5 DEF RetOK
  <2>6. ToldOK' BY <1>0, <1>5 DEF ToldOK, At
  <2> QED BY <2>1, <2>2, <2>3, <2>4, <2>5, <2>6
<1>6. CASE Free(t)
  <2> USE DEF Free
  <2>1. ~crash' BY <1>6 DEF RunOK
  <2>2. ScrubberOK' BY <1>0, <1>6, ScrubberKept
  <2>3. ClientOK' BY <1>6 DEF ClientOK
  <2>4. RunOK' BY <1>0, <1>6 DEF RunOK, Resting, At
  <2>5. RetOK' BY <1>6 DEF RetOK
  <2>6. ToldOK' BY <1>0, <1>6 DEF ToldOK, At
  <2> QED BY <2>1, <2>2, <2>3, <2>4, <2>5, <2>6
<1>7. ASSUME NEW s \in Styles, Configure(t, s) PROVE GoodInv'
  <2> USE DEF Configure
  <2>1. ~crash' BY <1>7 DEF RunOK, ClientOK
  <2>2. ScrubberOK' BY <1>0, <1>7, ScrubberKept
  <2>3. ClientOK' BY <1>7 DEF ClientOK
  <2>4. RunOK' BY <1>0, <1>7 DEF RunOK, Resting, At
  <2>5. RetOK' BY <1>7 DEF RetOK
  <2>6. ToldOK' BY <1>0, <1>7 DEF ToldOK, At
  <2> QED BY <2>1, <2>2, <2>3, <2>4, <2>5, <2>6
<1> QED BY <1>1, <1>2, <1>3, <1>4, <1>5, <1>6, <1>7

(***************************************************************************)
(* The steps of furi_thread_body keep the invariant.                       *)
(***************************************************************************)
LEMMA BodyStep ==
    ASSUME TypeOK, GoodInv, TypeOK', NEW t \in Instances, Enter(t) \/ Return(t) \/ Exit(t)
    PROVE  GoodInv'
<1> USE DEF GoodInv, TypeOK, Check, SetState, clientVars, threadVars, scrubVars
<1>0. UNCHANGED <<clientVars, spc, cur>>
  BY DEF Enter, Return, Exit
<1>1. CASE Enter(t)
  <2> USE DEF Enter
  <2>1. ~crash' BY <1>1 DEF RunOK
  <2>2. ScrubberOK'
    <3>1. ~Queued(t) /\ ~At("delete", t) /\ ~At("stop", t)
      BY <1>1 DEF ScrubberOK
    <3> QED BY <1>0, <1>1, <3>1 DEF ScrubberOK, Queued, At
  <2>3. ClientOK' BY <1>0 DEF ClientOK
  <2>4. RunOK' BY <1>0, <1>1 DEF RunOK, Resting, At
  <2>5. RetOK' BY <1>0, <1>1 DEF RetOK
  <2>6. ToldOK' BY <1>0, <1>1 DEF ToldOK, At, RunOK
  <2> QED BY <2>1, <2>2, <2>3, <2>4, <2>5, <2>6
<1>2. CASE Return(t)
  <2> USE DEF Return
  <2>1. ~crash' BY <1>2 DEF RunOK
  <2>2. ScrubberOK' BY <1>0, <1>2 DEF ScrubberOK, Queued, At
  <2>3. ClientOK' BY <1>0 DEF ClientOK
  <2>4. RunOK' BY <1>0, <1>2 DEF RunOK, Resting, At
  <2>5. RetOK' BY <1>0, <1>2 DEF RetOK
  <2>6. ToldOK' BY <1>0, <1>2 DEF ToldOK, At, RunOK
  <2> QED BY <2>1, <2>2, <2>3, <2>4, <2>5, <2>6
<1>3. CASE Exit(t)
  <2> USE DEF Exit
  <2>1. ~crash' BY <1>3
  <2>2. ScrubberOK'
    <3>1. ~Queued(t) /\ ~At("delete", t) /\ ~At("stop", t)
      BY <1>3 DEF ScrubberOK
    <3>2. /\ \A u : Queued(u)' <=> u = t \/ Queued(u)
          /\ \A i, j \in 1..Len(queue') : queue'[i] = queue'[j] => i = j
      BY <1>3, <3>1, PutLemma DEF ScrubberOK
    <3> QED BY <1>0, <1>3, <3>1, <3>2 DEF ScrubberOK, At
  <2>3. ClientOK' BY <1>0 DEF ClientOK
  <2>4. RunOK' BY <1>0, <1>3 DEF RunOK, Resting, At
  <2>5. RetOK' BY <1>0, <1>3 DEF RetOK
  <2>6. ToldOK' BY <1>0, <1>3 DEF ToldOK, At
  <2> QED BY <2>1, <2>2, <2>3, <2>4, <2>5, <2>6
<1> QED BY <1>1, <1>2, <1>3

(***************************************************************************)
(* The steps of furi_thread_scrub keep the invariant, unless the last one  *)
(* finds the memory of its instance reused.                                *)
(***************************************************************************)
LEMMA ScrubStep ==
    ASSUME TypeOK, GoodInv, TypeOK', Scrub, ~astray'
    PROVE  GoodInv'
<1> USE DEF GoodInv, TypeOK, Check, clientVars, threadVars, scrubVars
<1>1. CASE ScrubGet
  <2> USE DEF ScrubGet
  <2>0. /\ cur' \in Instances /\ Queued(cur')
        /\ \A u : Queued(u)' <=> u # cur' /\ Queued(u)
        /\ \A i, j \in 1..Len(queue') : queue'[i] = queue'[j] => i = j
    BY <1>1, GetLemma DEF ScrubberOK, Queued
  <2>1. ~crash' BY <1>1
  <2>2. ScrubberOK' BY <1>1, <2>0 DEF ScrubberOK, At
  <2>3. ClientOK' BY <1>1 DEF ClientOK
  <2>4. RunOK' BY <1>1 DEF RunOK, Resting, At
  <2>5. RetOK' BY <1>1 DEF RetOK
  <2>6. ToldOK' BY <1>1 DEF ToldOK, At
  <2> QED BY <2>1, <2>2, <2>3, <2>4, <2>5, <2>6
<1>2. CASE ScrubDelete
  <2> USE DEF ScrubDelete
  <2>0. cur \in Instances /\ task[cur] = "suspended" /\ tls[cur] /\ ~Queued(cur) /\ state[cur] = "Stopping"
    BY <1>2 DEF ScrubberOK, At, RunOK
  <2>1. ~crash' BY <1>2, <2>0
  <2>2. ScrubberOK' BY <1>2, <2>0 DEF ScrubberOK, At, Queued
  <2>3. ClientOK' BY <1>2 DEF ClientOK
  <2>4. RunOK' BY <1>2, <2>0 DEF RunOK, Resting, At
  <2>5. RetOK' BY <1>2, <2>0 DEF RetOK
  <2>6. ToldOK' BY <1>2 DEF ToldOK, At
  <2> QED BY <2>1, <2>2, <2>3, <2>4, <2>5, <2>6
<1>3. CASE ScrubStop
  <2> USE DEF ScrubStop
  <2>0. /\ cur \in Instances /\ task[cur] = "none" /\ state[cur] = "Stopping" /\ ~Queued(cur)
        /\ cur \in live /\ owner[cur] \in {"started", "join"}
    BY <1>3 DEF ScrubberOK, At, RunOK, Resting
  <2>1. ~crash' BY <1>3
  <2>2. ScrubberOK' BY <1>3, <2>0 DEF ScrubberOK, At, Queued
  <2>3. ClientOK' BY <1>3 DEF ClientOK
  <2>4. RunOK' BY <1>3, <2>0 DEF RunOK, Resting, At
  <2>5. RetOK' BY <1>3 DEF RetOK
  <2>6. ToldOK'
    <3>1. ASSUME style[cur] # "join"
          PROVE  owner[cur] = "started" /\ (style[cur] = "notified" => told[cur] # "Stopped")
      <4>1. style[cur] \in Styles
        BY <2>0
      <4>2. CASE style[cur] = "notified" BY <2>0, <4>2 DEF ToldOK
      <4>3. CASE style[cur] = "parallel" BY <2>0, <4>3 DEF ClientOK
      <4> QED BY <3>1, <4>1, <4>2, <4>3 DEF Styles
    <3>2. ToldOK /\ state' = [state EXCEPT ![cur] = "Stopped"] /\ spc' = "notify"
          /\ UNCHANGED <<cur, owner, told, live, style, reused>> /\ state \in [Instances -> States]
      BY <1>3
    <3> HIDE DEF GoodInv, TypeOK, ScrubStop
    <3> QED BY <2>0, <3>1, <3>2 DEF ToldOK, At
  <2> QED BY <2>1, <2>2, <2>3, <2>4, <2>5, <2>6
<1>4. CASE ScrubNotify
  <2> USE DEF ScrubNotify
  <2>0. /\ cur \in Instances /\ At("notify", cur)
        /\ cur \in live /\ style[cur] # "join" => owner[cur] = "started" /\ state[cur] = "Stopped"
        /\ cur \in live /\ style[cur] = "parallel" => Resting(cur)
    BY <1>4 DEF ScrubberOK, At, RunOK, ToldOK
  <2>1. ~crash' BY <1>4, <2>0
  <2>2. ScrubberOK' BY <1>4, <2>0 DEF ScrubberOK, At, Queued
  <2>7. \/ live' = live
        \/ cur \in live /\ style[cur] = "parallel" /\ live' = live \ {cur}
    BY <1>4
  <2>8. /\ spc = "notify" /\ spc' = "get" /\ cur' = NoInstance
        /\ UNCHANGED <<style, owner, state, task, tls>>
    BY <1>4
  <2>3. ClientOK'
    <3>1. ClientOK
      OBVIOUS
    <3> HIDE DEF GoodInv, TypeOK, ScrubNotify
    <3> QED BY <2>0, <2>7, <2>8, <3>1 DEF ClientOK
  <2>4. RunOK'
    <3>1. RunOK
      OBVIOUS
    <3>2. \A t \in Instances : Resting(t)' <=> Resting(t)
      BY <2>8 DEF Resting, At
    <3> HIDE DEF GoodInv, TypeOK, ScrubNotify
    <3> QED BY <2>0, <2>7, <2>8, <3>1, <3>2 DEF RunOK
  <2>5. RetOK' BY <1>4 DEF RetOK
  <2>6. ToldOK' BY <1>4, <2>0 DEF ToldOK, At
  <2> QED BY <2>1, <2>2, <2>3, <2>4, <2>5, <2>6
<1> QED BY <1>1, <1>2, <1>3, <1>4 DEF Scrub

(***************************************************************************)
(* The initial state satisfies the invariant.                              *)
(***************************************************************************)
LEMMA InitInv == Init => IndInv
<1> SUFFICES ASSUME Init PROVE IndInv
  OBVIOUS
<1> USE DEF Init
<1>1. TypeOK
  <2>1. queue \in Seq(Instances) /\ Len(queue) <= QueueLen
    OBVIOUS
  <2> QED BY <2>1 DEF TypeOK, States, Styles
<1>2. ~crash /\ ScrubberOK BY DEF ScrubberOK, Queued, At
<1>3. ClientOK /\ RunOK /\ RetOK /\ ToldOK BY DEF ClientOK, RunOK, Resting, At, RetOK, ToldOK
<1> QED BY <1>1, <1>2, <1>3 DEF IndInv, GoodInv

(***************************************************************************)
(* Once the scrubber has gone astray it has for good.                      *)
(***************************************************************************)
LEMMA AstrayStep == TypeOK /\ astray /\ [Next]_vars => astray'
BY DEF TypeOK, Next, Scrub, Finish, Alloc, Configure, Start, Create, Join, JoinReturn, Free, Enter,
       Return, Exit, ScrubGet, ScrubDelete, ScrubStop, ScrubNotify, scrubVars, vars

(***************************************************************************)
(* Every step keeps the invariant.                                         *)
(***************************************************************************)
LEMMA StepInv == IndInv /\ [Next]_vars => IndInv'
<1> SUFFICES ASSUME IndInv, [Next]_vars PROVE IndInv'
  OBVIOUS
<1>t. TypeOK /\ TypeOK'
  <2>1. TypeOK BY DEF IndInv
  <2> QED BY <2>1, TypeStep
<1>a. CASE astray BY <1>a, <1>t, AstrayStep DEF IndInv
<1>b. CASE astray' BY <1>b, <1>t DEF IndInv
<1>g. ASSUME GoodInv, ~astray' PROVE GoodInv'
  <2>1. CASE UNCHANGED vars
    BY <1>g, <2>1 DEF vars, clientVars, threadVars, scrubVars, GoodInv, ScrubberOK, Queued, At,
                      ClientOK, RunOK, Resting, RetOK, ToldOK
  <2>2. CASE Scrub BY <1>t, <1>g, <2>2, ScrubStep
  <2>3. ASSUME NEW t \in Instances,
               \/ Alloc(t) \/ (\E s \in Styles : Configure(t, s))
               \/ Start(t) \/ Join(t) \/ Free(t) \/ Return(t) \/ Exit(t)
               \/ Finish(t)
        PROVE  GoodInv'
    BY <1>t, <1>g, <2>3, ClientStep, BodyStep DEF Finish
  <2> QED BY <2>1, <2>2, <2>3 DEF Next
<1> QED BY <1>t, <1>a, <1>b, <1>g DEF IndInv

(***************************************************************************)
(* The invariant holds in every reachable state.                           *)
(***************************************************************************)
THEOREM Invariance == Spec => []IndInv
BY InitInv, StepInv, PTL DEF Spec

-----------------------------------------------------------------------------
\* The properties.

(***************************************************************************)
(* The types of the variables, in every reachable state.                   *)
(***************************************************************************)
THEOREM TypeCorrect == Spec => []TypeOK
<1>1. IndInv => TypeOK BY DEF IndInv
<1> QED BY <1>1, Invariance, PTL

(***************************************************************************)
(* No furi_check of thread.c on the state and the local storage of a       *)
(* thread fails before the scrubber has called, between thread.c:96 and    *)
(* :97, a callback that is not the one of the thread it has scrubbed.      *)
(***************************************************************************)
THEOREM NoCheckFails == Spec => []ChecksHold
<1>1. IndInv => ChecksHold BY DEF IndInv, GoodInv, ChecksHold
<1> QED BY <1>1, Invariance, PTL

(***************************************************************************)
(* Whatever the kernel and the scrubber still refer to is allocated:       *)
(* furi_thread_free cannot give back the memory of a task, of a message or *)
(* of the scrubber's instance.                                             *)
(***************************************************************************)
THEOREM TouchedStaysAllocated == Spec => []TouchedIsAllocated
<1>1. ASSUME IndInv, ~astray PROVE TouchedIsAllocated
  <2> USE <1>1 DEF IndInv, GoodInv
  <2>1. \A t \in Instances : ~Resting(t) => t \in live
    BY DEF RunOK
  <2>2. \A t \in Instances : task[t] # "none" => t \in live
    BY <2>1 DEF Resting
  <2>3. ASSUME NEW t \in ToSet(queue) PROVE t \in live /\ task[t] = "suspended"
    <3>1. t \in Instances /\ Queued(t)
      BY DEF ToSet, Queued, TypeOK
    <3> QED BY <2>2, <3>1 DEF ScrubberOK
  <2>4. spc \in {"delete", "stop"} => cur \in live
    BY <2>1 DEF ScrubberOK, At, Resting, TypeOK
  <2>5. spc = "notify" /\ ~reused /\ style[cur] # "join" => cur \in live
    BY DEF ScrubberOK, At, ToldOK, TypeOK
  <2> QED BY <2>2, <2>3, <2>4, <2>5 DEF TouchedIsAllocated
<1>2. IndInv => TouchedIsAllocated
  BY <1>1 DEF TouchedIsAllocated
<1> QED BY <1>2, Invariance, PTL

(***************************************************************************)
(* furi_thread_join returns when the callback of this start has returned   *)
(* and the kernel has deleted the task.                                    *)
(***************************************************************************)
THEOREM JoinedIsOver == Spec => JoinedIsFinished
<1>1. ASSUME IndInv, [Next]_vars
      PROVE  [\A t \in Instances : ~astray /\ owner[t] = "join" /\ owner'[t] = "idle" =>
                 ret[t] = starts[t] /\ task[t] = "none"]_vars
  <2> SUFFICES ASSUME NEW t \in Instances, ~astray, owner[t] = "join", owner'[t] = "idle"
               PROVE  ret[t] = starts[t] /\ task[t] = "none"
    OBVIOUS
  <2> USE <1>1 DEF IndInv, GoodInv, TypeOK
  <2>1. t \in live /\ owner' # owner
    BY DEF ClientOK
  <2>2. ASSUME NEW u \in Instances,
               Alloc(u) \/ Start(u) \/ Create(u) \/ Join(u) \/ JoinReturn(u)
        PROVE  JoinReturn(t)
    BY <2>1, <2>2 DEF Alloc, Start, Create, Join, JoinReturn
  <2>3. JoinReturn(t)
    BY <2>1, <2>2 DEF Next, Scrub, Finish, ScrubGet, ScrubDelete, ScrubStop, ScrubNotify,
                      Configure, Free, Enter, Return, Exit, clientVars, vars
  <2>4. state[t] = "Stopped" /\ Resting(t)
    BY <2>3 DEF JoinReturn, RunOK
  <2> QED BY <2>1, <2>4 DEF RetOK, Resting
<1> QED BY <1>1, Invariance, PTL DEF Spec, JoinedIsFinished


-----------------------------------------------------------------------------
(***************************************************************************)
(* The flags of one thread, for any flags, any number of threads and       *)
(* interrupt handlers that set them, and any waits.                        *)
(***************************************************************************)
\* A wait holds back nothing but flags it was asked for and has cleared, and
\* its clock does not run ahead.  Flags that are due during a clear were read
\* by it, or have come since.
WaitOK ==
    /\ pc \in {"idle", "clear"} => rflags = {}
    /\ rflags \ ClearOnExit \subseteq value
    /\ pc \in {"enter", "blocked"} => tout <= arg.timeout
    /\ start <= clock
    /\ pc = "clear" => due \subseteq cflags.read \cup window
    /\ pc # "clear" => window = {}

FlagsInv == FlagsTypeOK /\ WaitOK /\ FlagKept

\* A wait returns with one of few results.
LEMMA EndLemma ==
    ASSUME NEW r \in {"ok", "resource", "timeout"}, EndWait(r)
    PROVE  /\ pc' = "idle" /\ result' = r /\ arg' = NoWait /\ rflags' = {}
           /\ start' = 0 /\ tout' = 0 /\ until' = 0
           /\ NoWait \in WaitArgs
BY DEF EndWait, NoWait, WaitArgs

(***************************************************************************)
(* Every step keeps the types.                                             *)
(***************************************************************************)
LEMMA FlagsTypeStep ==
    ASSUME FlagsInv, [FlagsNext]_flagsVars
    PROVE  FlagsTypeOK'
<1> USE DEF FlagsTypeOK
<1>1. /\ Waits \subseteq WaitArgs /\ \A w \in Waits : w.timeout <= Forever
      /\ Clears \subseteq SUBSET Bits /\ Forever \in Nat /\ MaxClock \in Nat
  BY FlagsAssumption
<1>2. FlagsTypeOK /\ start <= clock
  BY DEF FlagsInv, WaitOK
<1>3. arg.flags \subseteq Bits /\ arg.timeout \in Nat /\ arg.clear \in BOOLEAN
  BY <1>2 DEF WaitArgs
<1>4. CASE Tick
  BY <1>2, <1>4 DEF Tick, callVars
<1>5. ASSUME NEW s \in Setters, SetQuery(s) PROVE FlagsTypeOK'
  BY <1>2, <1>5 DEF SetQuery, Mark, callVars
<1>6. ASSUME NEW s \in Setters, NEW f \in SUBSET Bits, FlagsSet(s, f) PROVE FlagsTypeOK'
  BY <1>2, <1>6 DEF FlagsSet, Mark, callVars
<1>7. CASE FlagsGet
  BY <1>2, <1>7 DEF FlagsGet, Mark, callVars
<1>8. ASSUME NEW f \in Clears, FlagsClear(f) PROVE FlagsTypeOK'
  <2>1. cflags' \in [read: SUBSET Bits, clear: SUBSET Bits]
    BY <1>1, <1>2, <1>8 DEF FlagsClear, Mark
  <2> QED BY <1>2, <1>8, <2>1 DEF FlagsClear, Mark
<1>9. CASE ClearWrite
  <2>1. cflags' \in [read: SUBSET Bits, clear: SUBSET Bits]
    BY <1>9 DEF ClearWrite, NothingRead
  <2>2. value' \subseteq Bits
    BY <1>2, <1>9 DEF ClearWrite, KeptByClear
  <2> QED BY <1>2, <1>9, <2>1, <2>2 DEF ClearWrite, Mark
<1>10. ASSUME NEW w \in Waits, FlagsWait(w) PROVE FlagsTypeOK'
  <2>1. w \in WaitArgs /\ w.timeout \in 0..Forever
    BY <1>1 DEF WaitArgs
  <2> QED BY <1>2, <1>10, <2>1 DEF FlagsWait
<1>11. CASE Block
  <2>1. until' \in Nat
    BY <1>1, <1>2, <1>11 DEF Block
  <2> QED BY <1>2, <1>11, <2>1 DEF Block
<1>12. CASE Notified
  <2>1. value' \subseteq Bits /\ pending' \in BOOLEAN /\ UNCHANGED <<query, cflags, clock, window>>
        /\ passed' \subseteq Bits
    BY <1>2, <1>12 DEF Notified
  <2>2. due' \subseteq Bits
    BY <1>2, <1>12 DEF Notified
  <2>3. \/ \E r \in {"ok", "resource", "timeout"} : EndWait(r)
        \/ /\ rflags' = Received /\ tout' = TimeLeft /\ until' = 0 /\ pc' = "enter"
           /\ UNCHANGED <<arg, start, result>>
    BY <1>12 DEF Notified
  <2>4. Received \subseteq Bits
    BY <1>2 DEF Received
  <2>5. TimeLeft \in 0..Forever
    BY <1>1, <1>2 DEF TimeLeft
  <2>6. CASE \E r \in {"ok", "resource", "timeout"} : EndWait(r)
    <3>1. PICK r \in {"ok", "resource", "timeout"} : EndWait(r)
      BY <2>6
    <3> QED BY <1>1, <1>2, <2>1, <2>2, <3>1, EndLemma
  <2> QED BY <1>2, <2>1, <2>2, <2>3, <2>4, <2>5, <2>6
<1>13. CASE TimedOut
  <2>1. PICK r \in {"ok", "resource", "timeout"} : EndWait(r)
    BY <1>13 DEF TimedOut
  <2> QED BY <1>1, <1>2, <1>13, <2>1, EndLemma DEF TimedOut
<1>14. CASE UNCHANGED flagsVars
  BY <1>2, <1>14 DEF flagsVars
<1> QED BY <1>4, <1>5, <1>6, <1>7, <1>8, <1>9, <1>10, <1>11, <1>12, <1>13, <1>14
        DEF FlagsNext, WaitStep

(***************************************************************************)
(* No step loses a flag: a notification that does not help moves the flags *)
(* it clears to those the wait has collected.                              *)
(***************************************************************************)
LEMMA FlagsStep ==
    ASSUME FlagsInv, [FlagsNext]_flagsVars
    PROVE  WaitOK' /\ FlagKept'
<1> USE DEF WaitOK, FlagKept, ClearOnExit
<1>1. Waits \subseteq WaitArgs /\ Forever \in Nat
  BY FlagsAssumption
<1>2. FlagsTypeOK /\ WaitOK /\ FlagKept
  BY DEF FlagsInv
<1>3. start \in Nat /\ clock \in Nat /\ tout \in Nat /\ arg.timeout \in Nat
  BY <1>1, <1>2 DEF FlagsTypeOK, WaitArgs
<1>4. CASE Tick
  BY <1>2, <1>3, <1>4 DEF Tick, callVars
<1>5. ASSUME NEW s \in Setters, SetQuery(s) PROVE WaitOK' /\ FlagKept'
  BY <1>2, <1>5 DEF SetQuery, Mark, callVars
<1>6. ASSUME NEW s \in Setters, NEW f \in SUBSET Bits, FlagsSet(s, f)
      PROVE  WaitOK' /\ FlagKept'
  BY <1>2, <1>6 DEF FlagsSet, Mark, callVars
<1>7. CASE FlagsGet
  BY <1>2, <1>7 DEF FlagsGet, Mark, callVars
<1>8. ASSUME NEW f \in Clears, FlagsClear(f) PROVE WaitOK' /\ FlagKept'
  BY <1>2, <1>8 DEF FlagsClear, Mark
<1>9. CASE ClearWrite
  <2>1. value' = cflags.read \ cflags.clear
    BY <1>9 DEF ClearWrite, KeptByClear
  <2>2. /\ pc = "clear" /\ pc' = "idle" /\ rflags' = rflags /\ start' = start
        /\ clock' = clock /\ window' = {}
        /\ due' = due \ (cflags.clear \cup (window \ cflags.read))
    BY <1>9 DEF ClearWrite
  <2> QED BY <1>2, <2>1, <2>2
<1>10. ASSUME NEW w \in Waits, FlagsWait(w) PROVE WaitOK' /\ FlagKept'
  <2>1. w.timeout <= w.timeout /\ clock <= clock
    BY <1>1, <1>3 DEF WaitArgs
  <2> QED BY <1>2, <1>10, <2>1 DEF FlagsWait
<1>11. CASE Block
  BY <1>2, <1>11 DEF Block
<1>12. CASE Notified
  <2>1. /\ value' = value \ ClearOnExit /\ clock' = clock
        /\ pc \in {"enter", "blocked"} /\ window' = window
    BY <1>12 DEF Notified
  <2>2. CASE Satisfied(Received) /\ EndWait("ok")
             /\ due' = IF arg.clear THEN due \ arg.flags ELSE due
    BY <1>2, <1>3, <2>1, <2>2, EndLemma
  <2>3. CASE EndWait("resource") /\ due' = due \ Collected(Received)
    BY <1>2, <1>3, <2>1, <2>3, EndLemma DEF Collected, Received
  <2>4. CASE /\ rflags' = Received /\ tout' = TimeLeft /\ pc' = "enter"
             /\ UNCHANGED <<arg, start, due>>
    <3>1. TimeLeft <= tout
      BY <1>2, <1>3 DEF TimeLeft
    <3>2. tout <= arg.timeout /\ tout' <= arg.timeout
      <4>1. tout <= arg.timeout
        BY <1>2, <1>12 DEF Notified
      <4>2. TimeLeft \in Nat
        BY <1>2, <1>3 DEF TimeLeft
      <4> QED BY <1>3, <2>4, <3>1, <4>1, <4>2
    <3>3. /\ rflags' \ ClearOnExit \subseteq value'
          /\ due \subseteq value' \cup rflags'
      BY <1>2, <2>1, <2>4 DEF Received
    <3> QED BY <1>2, <2>1, <2>4, <3>2, <3>3
  <2> QED BY <1>12, <2>2, <2>3, <2>4 DEF Notified
<1>13. CASE TimedOut
  <2>1. /\ \E r \in {"ok", "resource", "timeout"} : EndWait(r)
        /\ due' = due \ Collected(rflags) /\ value' = value /\ clock' = clock
        /\ pc \in {"enter", "blocked"} /\ window' = window
    BY <1>13 DEF TimedOut
  <2>2. due' \subseteq value'
    BY <1>2, <2>1 DEF Collected
  <2> QED BY <1>2, <1>3, <2>1, <2>2, EndLemma
<1>14. CASE UNCHANGED flagsVars
  BY <1>2, <1>14 DEF flagsVars
<1> QED BY <1>4, <1>5, <1>6, <1>7, <1>8, <1>9, <1>10, <1>11, <1>12, <1>13, <1>14
        DEF FlagsNext, WaitStep

\* At first no flag is set and no thread waits.
LEMMA FlagsInitInv == ASSUME FlagsInit PROVE FlagsInv
<1>1. NoWait \in WaitArgs
  BY DEF NoWait, WaitArgs
<1>2. FlagsTypeOK
  <2>1. NothingRead \in [read: SUBSET Bits, clear: SUBSET Bits]
    BY DEF NothingRead
  <2>2. 0 \in Nat /\ 0 \in 0..Forever
    BY FlagsAssumption
  <2> QED BY <1>1, <2>1, <2>2 DEF FlagsInit, FlagsTypeOK
<1>3. WaitOK /\ FlagKept
  BY DEF FlagsInit, WaitOK, FlagKept
<1> QED BY <1>2, <1>3 DEF FlagsInv

(***************************************************************************)
(* FlagsInv holds in every state a thread can reach.                       *)
(***************************************************************************)
THEOREM FlagsInvariance == FlagsSpec => []FlagsInv
<1>1. FlagsInv /\ [FlagsNext]_flagsVars => FlagsInv'
  BY FlagsTypeStep, FlagsStep DEF FlagsInv
<1> QED BY FlagsInitInv, <1>1, PTL DEF FlagsSpec

(***************************************************************************)
(* No thread flag is lost: one that was set stays in the notification, or  *)
(* among those the wait in progress has collected, until a wait reports    *)
(* it, furi_thread_flags_clear overwrites it, or a wait for several fails. *)
(***************************************************************************)
THEOREM FlagStaysKept == FlagsSpec => []FlagKept
<1>1. FlagsInv => FlagKept
  BY DEF FlagsInv
<1> QED BY FlagsInvariance, <1>1, PTL

(***************************************************************************)
(* The retries of furi_thread_flags_wait never add up to more than its     *)
(* timeout.                                                                *)
(***************************************************************************)
THEOREM WaitIsNeverLate == FlagsSpec => NeverLate
<1>1. ASSUME FlagsInv, Notified, pc' = "enter"
      PROVE  tout' = 0 \/ clock + tout' <= start + arg.timeout
  <2>1. /\ start \in Nat /\ clock \in Nat /\ tout \in Nat /\ arg.timeout \in Nat
        /\ start <= clock
    BY <1>1, FlagsAssumption DEF FlagsInv, WaitOK, FlagsTypeOK, WaitArgs
  <2>2. tout <= arg.timeout
    BY <1>1 DEF FlagsInv, WaitOK, Notified
  <2>3. tout' = TimeLeft
    BY <1>1 DEF Notified, EndWait
  <2> QED BY <2>1, <2>2, <2>3 DEF TimeLeft
<1>2. FlagsInv /\ [FlagsNext]_flagsVars
        => [Notified /\ pc' = "enter" =>
               tout' = 0 \/ clock + tout' <= start + arg.timeout]_flagsVars
  BY <1>1
<1> QED BY FlagsInvariance, <1>2, PTL DEF FlagsSpec, NeverLate

(***************************************************************************)
(* The notification mark of furi_thread_flags_wait is as good as the flags *)
(* that no earlier wait has left in the value: a wait that is blocked      *)
(* without a notification has none of its flags set but these.             *)
(***************************************************************************)
THEOREM BlockedHasNoFlag == FlagsSpec => []BlockedIsUnset
<1> DEFINE Seen == pending \/ value \subseteq passed
<1>1. FlagsInit => Seen
  BY DEF FlagsInit
<1>2. Seen /\ [FlagsNext]_flagsVars => Seen'
  <2> SUFFICES ASSUME Seen, [FlagsNext]_flagsVars PROVE Seen'
    OBVIOUS
  <2>1. CASE Notified
    BY <2>1 DEF Notified, ClearOnExit
  <2>2. CASE ~Notified
    BY <2>2 DEF FlagsNext, WaitStep, Tick, SetQuery, FlagsSet, FlagsGet, Mark,
           FlagsClear, ClearWrite, FlagsWait, Block, TimedOut, flagsVars
  <2> QED BY <2>1, <2>2
<1>3. Seen => BlockedIsUnset
  BY DEF BlockedIsUnset
<1> QED BY <1>1, <1>2, <1>3, PTL DEF FlagsSpec
=============================================================================
