----------------------------- MODULE PubSubProofs -----------------------------
(***************************************************************************)
(* Proofs about PubSub, for any number of threads and subscriptions.  The  *)
(* invariant IndInv below is inductive, and the safety properties of       *)
(* PubSub follow from it.  The last part is the refinement of Broadcast.   *)
(***************************************************************************)
EXTENDS PubSub, SequenceTheorems, TLAPS

\* No node occurs twice.
Distinct(q) == \A i, j \in 1..Len(q) : q[i] = q[j] => i = j

\* The node s is in the list q.
In(s, q) == \E i \in 1..Len(q) : q[i] = s

-----------------------------------------------------------------------------
(***************************************************************************)
(* The inductive invariant.                                                *)
(***************************************************************************)

\* A thread is inside a call, past the acquisition of the mutex, if and only
\* if it holds the mutex.
Inside == {"subscribe", "fill", "unsubscribe", "publish", "callback", "unlock"}
MutexHeld == \A t \in Threads : pc[t] \in Inside <=> owner = t

\* What a thread is doing belongs to its call, and the call to what the
\* client of the subscription has asked for.
CallOK ==
    \A t \in Threads :
        /\ pc[t] = "idle" <=> op[t] = "none"
        /\ pc[t] \in {"subscribe", "fill"} => op[t] = "subscribe"
        /\ pc[t] = "unsubscribe" => op[t] = "unsubscribe"
        /\ pc[t] \in {"publish", "callback"} => op[t] = "publish"
        /\ arg[t] \in Subs <=> op[t] \in {"subscribe", "unsubscribe"}
        /\ op[t] = "subscribe" => life[arg[t]] = "subscribing"
        /\ op[t] = "unsubscribe" => life[arg[t]] = "unsubscribing"
        /\ pc[t] \in {"idle", "lock"} => seen[t] = <<>>

\* A subscription that is being made or cancelled is so in one call.
OneCall ==
    /\ \A t, u \in Threads : arg[t] \in Subs /\ arg[t] = arg[u] => t = u
    /\ \A s \in Subs : life[s] \in {"subscribing", "unsubscribing"} =>
           \E t \in Threads : arg[t] = s

\* The nodes in the list are those of the subscriptions that are not free, but
\* for the ones that are being made or cancelled, which depends on how far
\* their call has got.
Placed ==
    /\ Distinct(list)
    /\ \A s \in Subs : /\ life[s] = "free" => ~In(s, list)
                       /\ life[s] = "subscribed" => In(s, list) /\ s \in ready
    /\ \A t \in Threads :
         /\ op[t] = "subscribe" =>
              /\ pc[t] \in {"lock", "subscribe"} => ~In(arg[t], list)
              /\ pc[t] \in {"fill", "unlock"} => In(arg[t], list)
              /\ pc[t] = "unlock" => arg[t] \in ready
         /\ op[t] = "unsubscribe" =>
              /\ pc[t] \in {"lock", "unsubscribe"} => In(arg[t], list) /\ arg[t] \in ready
              /\ pc[t] = "unlock" => ~In(arg[t], list)

\* A publisher has called the callbacks of the nodes before its iterator.
Iterating ==
    \A t \in Threads :
        /\ pc[t] = "publish" /\ it[t] = NoSub => seen[t] = list
        /\ pc[t] = "publish" /\ it[t] # NoSub =>
               \E k \in 1..Len(list) : it[t] = list[k] /\ seen[t] = SubSeq(list, 1, k - 1)
        /\ pc[t] = "callback" =>
               \E k \in 1..Len(list) : it[t] = list[k] /\ seen[t] = SubSeq(list, 1, k)
        /\ pc[t] = "unlock" /\ op[t] = "publish" => seen[t] = list

IndInv == TypeOK /\ MutexHeld /\ CallOK /\ OneCall /\ Placed /\ Iterating

USE PubSubAssumption

-----------------------------------------------------------------------------
\* The list.

(***************************************************************************)
(* FuriPubSubSubscriptionList_push_raw links one node and no other.        *)
(***************************************************************************)
LEMMA PushLemma ==
    ASSUME NEW q \in Seq(Subs), NEW s \in Subs, Distinct(q), ~In(s, q)
    PROVE  /\ <<s>> \o q \in Seq(Subs)
           /\ Distinct(<<s>> \o q)
           /\ \A x : In(x, <<s>> \o q) <=> x = s \/ In(x, q)
<1> DEFINE r == <<s>> \o q
<1>1. /\ r \in Seq(Subs)
      /\ Len(q) \in Nat /\ Len(r) = Len(q) + 1
      /\ r[1] = s
      /\ \A i \in 1..Len(q) : r[i + 1] = q[i]
  OBVIOUS
<1> HIDE DEF r
<1>2. \A i \in 1..Len(r) : r[i] = IF i = 1 THEN s ELSE q[i - 1]
  <2> TAKE i \in 1..Len(r)
  <2>1. CASE i = 1 BY <1>1, <2>1
  <2>2. CASE i # 1
    <3>1. i - 1 \in 1..Len(q) /\ (i - 1) + 1 = i BY <1>1, <2>2
    <3>2. r[(i - 1) + 1] = q[i - 1] BY <1>1, <3>1
    <3> QED BY <2>2, <3>1, <3>2
  <2> QED BY <2>1, <2>2
<1>3. Distinct(r)
  <2> SUFFICES ASSUME NEW i \in 1..Len(r), NEW j \in 1..Len(r), r[i] = r[j]
               PROVE  i = j
    BY DEF Distinct
  <2>1. i # 1 => i - 1 \in 1..Len(q)
    BY <1>1
  <2>2. j # 1 => j - 1 \in 1..Len(q)
    BY <1>1
  <2> QED BY <1>2, <2>1, <2>2 DEF Distinct, In
<1>4. ASSUME NEW x PROVE In(x, r) <=> x = s \/ In(x, q)
  <2>1. ASSUME NEW i \in 1..Len(r), r[i] = x
        PROVE  x = s \/ In(x, q)
    <3>1. i # 1 => i - 1 \in 1..Len(q)
      BY <1>1
    <3> QED BY <1>2, <2>1, <3>1 DEF In
  <2>2. ASSUME NEW i \in 1..Len(q), q[i] = x
        PROVE  In(x, r)
    <3>1. i + 1 \in 1..Len(r)
      BY <1>1
    <3> QED BY <1>1, <2>2, <3>1 DEF In
  <2>3. x = s => In(x, r)
    <3>1. 1 \in 1..Len(r)
      BY <1>1
    <3> QED BY <1>1, <3>1 DEF In
  <2> QED BY <2>1, <2>2, <2>3 DEF In
<1> QED BY <1>1, <1>3, <1>4 DEF r

(***************************************************************************)
(* FuriPubSubSubscriptionList_remove unlinks one node and no other.        *)
(***************************************************************************)
LEMMA RemoveLemma ==
    ASSUME NEW q \in Seq(Subs), NEW k \in 1..Len(q), Distinct(q)
    PROVE  /\ RemoveAt(q, k) \in Seq(Subs)
           /\ Distinct(RemoveAt(q, k))
           /\ \A x : In(x, RemoveAt(q, k)) <=> x # q[k] /\ In(x, q)
<1> DEFINE r == RemoveAt(q, k)
           a == SubSeq(q, 1, k - 1)
           b == SubSeq(q, k + 1, Len(q))
<1>1. /\ a \in Seq(Subs) /\ Len(a) = k - 1
      /\ \A i \in 1..(k-1) : a[i] = q[i]
  BY SubSeqProperties
<1>2. /\ b \in Seq(Subs) /\ Len(b) = Len(q) - k
      /\ \A i \in 1..(Len(q) - k) : b[i] = q[k + i]
  BY SubSeqProperties
<1>3. r = a \o b
  BY DEF RemoveAt
<1> HIDE DEF a, b, r
<1>4. /\ r \in Seq(Subs) /\ Len(r) = Len(a) + Len(b)
      /\ \A i \in 1..(Len(a) + Len(b)) :
            r[i] = IF i <= Len(a) THEN a[i] ELSE b[i - Len(a)]
  BY <1>1, <1>2, <1>3, ConcatProperties
<1>5. Len(q) \in Nat /\ Len(r) = Len(q) - 1
  BY <1>1, <1>2, <1>4
<1>6. ASSUME NEW i \in 1..Len(r)
      PROVE  r[i] = IF i < k THEN q[i] ELSE q[i + 1]
  <2>1. CASE i < k
    BY <2>1, <1>1, <1>4, <1>5
  <2>2. CASE ~(i < k)
    <3>1. r[i] = b[i - (k - 1)]
      BY <2>2, <1>1, <1>2, <1>4, <1>5
    <3>2. i - (k - 1) \in 1..(Len(q) - k) /\ k + (i - (k - 1)) = i + 1
      BY <2>2, <1>5
    <3> QED BY <2>2, <3>1, <3>2, <1>2
  <2> QED BY <2>1, <2>2
<1>7. Distinct(r)
  BY <1>5, <1>6 DEF Distinct
<1>8. ASSUME NEW x, NEW i \in 1..Len(r), r[i] = x
      PROVE  x # q[k] /\ In(x, q)
  <2> DEFINE j == IF i < k THEN i ELSE i + 1
  <2>1. j \in 1..Len(q) /\ j # k /\ q[j] = x
    BY <1>5, <1>6, <1>8
  <2> QED BY <2>1 DEF In, Distinct
<1>9. ASSUME NEW x, x # q[k], NEW i \in 1..Len(q), q[i] = x
      PROVE  In(x, r)
  <2> DEFINE j == IF i < k THEN i ELSE i - 1
  <2>1. j \in 1..Len(r) /\ r[j] = x
    BY <1>5, <1>6, <1>9
  <2> QED BY <2>1 DEF In
<1>10. ASSUME NEW x PROVE In(x, r) <=> x # q[k] /\ In(x, q)
  BY <1>8, <1>9 DEF In
<1> QED BY <1>4, <1>7, <1>10 DEF r

(***************************************************************************)
(* FuriPubSubSubscriptionList_next leads from the node at a place of the   *)
(* list to the one behind it, or to the end.                               *)
(***************************************************************************)
LEMMA AfterLemma ==
    ASSUME list \in Seq(Subs), Distinct(list), NEW k \in 1..Len(list)
    PROVE  After(list[k]) = IF k < Len(list) THEN list[k + 1] ELSE NoSub
<1>1. Len(list) \in Nat
  OBVIOUS
<1>2. \A i \in 1..Len(list) - 1 : list[i] = list[k] <=> i = k
  BY <1>1 DEF Distinct
<1>3. CASE k < Len(list)
  <2>1. k \in 1..Len(list) - 1
    BY <1>1, <1>3
  <2>2. (CHOOSE i \in 1..Len(list) - 1 : list[i] = list[k]) = k
    BY <1>2, <2>1
  <2> QED BY <1>3, <2>1, <2>2 DEF After
<1>4. CASE ~(k < Len(list))
  <2>1. k \notin 1..Len(list) - 1
    BY <1>1, <1>4
  <2> QED BY <1>2, <1>4, <2>1 DEF After
<1> QED BY <1>3, <1>4

(***************************************************************************)
(* What the publisher has called grows by the node at its iterator.        *)
(***************************************************************************)
LEMMA SeenLemma ==
    ASSUME NEW q \in Seq(Subs), NEW k \in 1..Len(q)
    PROVE  Append(SubSeq(q, 1, k - 1), q[k]) = SubSeq(q, 1, k)
<1>1. SubSeq(q, 1, k) = SubSeq(q, 1, k - 1) \o <<q[k]>>
  BY SubSeqRecursiveSecond
<1>2. SubSeq(q, 1, k - 1) \in Seq(Subs)
  BY SubSeqProperties
<1>3. q[k] \in Subs
  OBVIOUS
<1> QED BY <1>1, <1>2, <1>3, AppendIsConcat

-----------------------------------------------------------------------------
\* The steps.

(***************************************************************************)
(* Every step keeps the types.                                             *)
(***************************************************************************)
LEMMA TypeStep == IndInv /\ [Next]_vars => TypeOK'
<1> SUFFICES ASSUME IndInv, [Next]_vars PROVE TypeOK'
  OBVIOUS
<1> USE DEF TypeOK, Ops, Goto, callVars
<1>t. TypeOK /\ Distinct(list)
  BY DEF IndInv, Placed
<1>1. CASE Alloc BY <1>1, <1>t DEF Alloc
<1>2. CASE Free BY <1>2, <1>t DEF Free
<1>3. ASSUME NEW t \in Threads, Publish(t) PROVE TypeOK'
  BY <1>3, <1>t DEF Publish, Call
<1>4. ASSUME NEW t \in Threads, NEW s \in Subs, Subscribe(t, s) PROVE TypeOK'
  BY <1>4, <1>t DEF Subscribe, Call
<1>5. ASSUME NEW t \in Threads, NEW s \in Subs, Unsubscribe(t, s) PROVE TypeOK'
  BY <1>5, <1>t DEF Unsubscribe, Call
<1>6. ASSUME NEW t \in Threads, Acquire(t) PROVE TypeOK'
  <2>1. First \in Subs \cup {NoSub}
    BY <1>t DEF First
  <2>2. it' \in [Threads -> Subs \cup {NoSub}]
    BY <1>6, <1>t, <2>1 DEF Acquire
  <2>3. op[t] \in {"subscribe", "unsubscribe", "publish"}
    BY <1>6, <1>t DEF Acquire, IndInv, CallOK
  <2> QED BY <1>6, <1>t, <2>2, <2>3 DEF Acquire
<1>7. ASSUME NEW t \in Threads, Push(t) PROVE TypeOK'
  <2>1. arg[t] \in Subs /\ ~In(arg[t], list)
    BY <1>7 DEF Push, IndInv, CallOK, Placed
  <2> QED BY <1>7, <1>t, <2>1, PushLemma DEF Push
<1>8. ASSUME NEW t \in Threads, Fill(t) PROVE TypeOK'
  <2>1. arg[t] \in Subs
    BY <1>8 DEF Fill, IndInv, CallOK
  <2> QED BY <1>8, <1>t, <2>1 DEF Fill
<1>9. ASSUME NEW t \in Threads, RemoveNode(t) PROVE TypeOK'
  <2>1. list' \in Seq(Subs)
    BY <1>9, <1>t, RemoveLemma DEF RemoveNode
  <2> QED BY <1>9, <1>t, <2>1 DEF RemoveNode
<1>10. ASSUME NEW t \in Threads, Deliver(t) PROVE TypeOK'
  <2>1. Append(seen[t], it[t]) \in Seq(Subs)
    BY <1>10, <1>t DEF Deliver
  <2> QED BY <1>10, <1>t, <2>1 DEF Deliver
<1>11. ASSUME NEW t \in Threads, CallbackReturn(t) PROVE TypeOK'
  <2>1. After(it[t]) \in Subs \cup {NoSub}
    <3>1. PICK k \in 1..Len(list) : it[t] = list[k]
      BY <1>11 DEF CallbackReturn, IndInv, Iterating
    <3>2. k < Len(list) => k + 1 \in 1..Len(list)
      BY <1>t
    <3>3. k < Len(list) => list[k + 1] \in Subs
      BY <1>t, <3>2
    <3>4. After(list[k]) = IF k < Len(list) THEN list[k + 1] ELSE NoSub
      BY <1>t, AfterLemma
    <3> HIDE DEF TypeOK
    <3> QED BY <3>1, <3>3, <3>4
  <2> QED BY <1>11, <1>t, <2>1 DEF CallbackReturn
<1>12. ASSUME NEW t \in Threads, IterationEnd(t) PROVE TypeOK'
  BY <1>12, <1>t DEF IterationEnd
<1>13. ASSUME NEW t \in Threads, Return(t) PROVE TypeOK'
  <2>1. life' \in [Subs -> {"free", "subscribing", "subscribed", "unsubscribing"}]
    BY <1>13, <1>t DEF Return
  <2> QED BY <1>13, <1>t, <2>1 DEF Return
<1>14. CASE UNCHANGED vars BY <1>14, <1>t DEF vars
<1> QED BY <1>1, <1>2, <1>3, <1>4, <1>5, <1>6, <1>7, <1>8, <1>9, <1>10, <1>11, <1>12,
           <1>13, <1>14 DEF Next, Section

(***************************************************************************)
(* The calls to the instance and the acquisition of the mutex keep the     *)
(* invariant.                                                              *)
(***************************************************************************)
LEMMA CallStep ==
    ASSUME IndInv, TypeOK', NEW t \in Threads,
           \/ Publish(t) \/ Acquire(t)
           \/ \E s \in Subs : Subscribe(t, s) \/ Unsubscribe(t, s)
    PROVE  IndInv'
<1> USE DEF IndInv, TypeOK, Goto, Ops
<1>0. \A u \in Threads : arg[u] \in Subs => life[arg[u]] \in {"subscribing", "unsubscribing"}
  BY DEF CallOK
<1>1. CASE Publish(t)
  <2> USE DEF Publish, Call, MutexHeld, CallOK, Inside
  <2>1. MutexHeld' BY <1>1
  <2>2. CallOK' BY <1>1
  <2>3. OneCall'
    <3>1. arg[t] \notin Subs /\ arg' = [arg EXCEPT ![t] = NoSub] /\ life' = life
      BY <1>1
    <3> QED BY <3>1 DEF OneCall
  <2>4. Placed' BY <1>1 DEF Placed, Distinct, In
  <2>5. Iterating' BY <1>1 DEF Iterating
  <2> QED BY <2>1, <2>2, <2>3, <2>4, <2>5
<1>2. CASE Acquire(t)
  <2> USE DEF Acquire, MutexHeld, CallOK, Inside
  <2>0. op[t] \in {"subscribe", "unsubscribe", "publish"} BY <1>2
  <2>1. MutexHeld' BY <1>2, <2>0
  <2>2. CallOK' BY <1>2, <2>0
  <2>3. OneCall' BY <1>2 DEF OneCall
  <2>4. Placed' BY <1>2, <2>0 DEF Placed, Distinct, In
  <2>5. Iterating'
    <3>1. SubSeq(list, 1, 1 - 1) = <<>>
      BY SubSeqEmpty
    <3>2. list # <<>> => 1 \in 1..Len(list) /\ First = list[1] /\ First \in Subs
      BY DEF First
    <3>3. list = <<>> => First = NoSub
      BY DEF First
    <3>4. ASSUME op[t] = "publish", list # <<>>
          PROVE  \E k \in 1..Len(list) : it'[t] = list[k] /\ seen[t] = SubSeq(list, 1, k - 1)
      BY <1>2, <3>1, <3>2, <3>4
    <3>5. op[t] = "publish" => it'[t] = First /\ seen[t] = <<>>
      BY <1>2
    <3>6. /\ pc'[t] = op[t] /\ list' = list /\ seen' = seen /\ op' = op
          /\ \A u \in Threads : u # t => pc'[u] = pc[u] /\ it'[u] = it[u]
      BY <1>2
    <3>7. Iterating /\ First \in Subs \cup {NoSub}
      BY <3>2, <3>3
    <3>8. ASSUME pc'[t] = "publish"
          PROVE  /\ it'[t] = NoSub => seen'[t] = list'
                 /\ it'[t] # NoSub =>
                      \E k \in 1..Len(list') : it'[t] = list'[k] /\ seen'[t] = SubSeq(list', 1, k - 1)
      <4> HIDE DEF IndInv, CallOK, MutexHeld, TypeOK, Acquire
      <4>1. op[t] = "publish"
        BY <3>6, <3>8
      <4>2. CASE list = <<>>
        BY <3>3, <3>5, <3>6, <4>1, <4>2
      <4>3. CASE list # <<>>
        BY <3>2, <3>4, <3>5, <3>6, <4>1, <4>3
      <4> QED BY <4>2, <4>3
    <3> HIDE DEF IndInv, CallOK, MutexHeld, TypeOK, Acquire
    <3> QED BY <2>0, <3>6, <3>7, <3>8 DEF Iterating
  <2> QED BY <2>1, <2>2, <2>3, <2>4, <2>5
<1>3. ASSUME NEW s \in Subs, Subscribe(t, s) PROVE IndInv'
  <2> USE DEF Subscribe, Call, MutexHeld, CallOK, Inside
  <2>0. \A u \in Threads : arg[u] # s
    <3>1. life[s] = "free"
      BY <1>3
    <3> HIDE DEF IndInv, CallOK, MutexHeld, TypeOK, Call
    <3> QED BY <1>0, <3>1
  <2>1. MutexHeld' BY <1>3
  <2>2. CallOK' BY <1>3, <2>0
  <2>3. OneCall' BY <1>3, <2>0 DEF OneCall
  <2>4. Placed' BY <1>3, <2>0 DEF Placed, Distinct, In
  <2>5. Iterating'
    <3>1. /\ pc'[t] = "lock" /\ list' = list /\ seen' = seen /\ it' = it
          /\ \A u \in Threads : u # t => pc'[u] = pc[u] /\ op'[u] = op[u]
      BY <1>3
    <3>2. Iterating
      OBVIOUS
    <3> HIDE DEF IndInv, CallOK, MutexHeld, TypeOK, Subscribe
    <3> QED BY <3>1, <3>2 DEF Iterating
  <2> QED BY <2>1, <2>2, <2>3, <2>4, <2>5
<1>4. ASSUME NEW s \in Subs, Unsubscribe(t, s) PROVE IndInv'
  <2> USE DEF Unsubscribe, Call, MutexHeld, CallOK, Inside
  <2>0. \A u \in Threads : arg[u] # s
    <3>1. life[s] = "subscribed"
      BY <1>4
    <3> HIDE DEF IndInv, CallOK, MutexHeld, TypeOK, Call
    <3> QED BY <1>0, <3>1
  <2>1. MutexHeld' BY <1>4
  <2>2. CallOK' BY <1>4, <2>0
  <2>3. OneCall' BY <1>4, <2>0 DEF OneCall
  <2>4. Placed' BY <1>4, <2>0 DEF Placed, Distinct, In
  <2>5. Iterating'
    <3>1. /\ pc'[t] = "lock" /\ list' = list /\ seen' = seen /\ it' = it
          /\ \A u \in Threads : u # t => pc'[u] = pc[u] /\ op'[u] = op[u]
      BY <1>4
    <3>2. Iterating
      OBVIOUS
    <3> HIDE DEF IndInv, CallOK, MutexHeld, TypeOK, Unsubscribe
    <3> QED BY <3>1, <3>2 DEF Iterating
  <2> QED BY <2>1, <2>2, <2>3, <2>4, <2>5
<1> QED BY <1>1, <1>2, <1>3, <1>4

(***************************************************************************)
(* The steps that change the list, or what is in a node, keep it: no       *)
(* publisher is iterating, as the mutex is held by somebody else.          *)
(***************************************************************************)
LEMMA ListStep ==
    ASSUME IndInv, TypeOK', NEW t \in Threads, Push(t) \/ Fill(t) \/ RemoveNode(t)
    PROVE  IndInv'
<1> USE DEF IndInv, TypeOK, Goto, Ops
<1>0. /\ \A u \in Threads : u # t => pc[u] \in {"idle", "lock"}
      /\ arg[t] \in Subs
      /\ \A u \in Threads : u # t => arg[u] # arg[t]
  BY DEF Push, Fill, RemoveNode, MutexHeld, CallOK, OneCall, Inside
<1>1. CASE Push(t)
  <2> USE DEF Push
  <2>0. /\ ~In(arg[t], list)
        /\ op[t] = "subscribe" /\ life[arg[t]] = "subscribing"
    BY <1>1 DEF Placed, CallOK
  <2>1. MutexHeld' BY <1>1 DEF MutexHeld, Inside
  <2>2. CallOK' BY <1>1, <2>0 DEF CallOK
  <2>3. OneCall' BY <1>1 DEF OneCall
  <2>4. Placed'
    <3>1. /\ Distinct(list')
          /\ \A x : In(x, list') <=> x = arg[t] \/ In(x, list)
      BY <1>0, <1>1, <2>0, PushLemma DEF Placed
    <3>2. /\ ready' = ready /\ life' = life /\ op' = op /\ arg' = arg
          /\ pc'[t] = "fill" /\ \A u \in Threads : u # t => pc'[u] = pc[u]
      BY <1>1
    <3>3. \A u \in Threads : u # t =>
             (In(arg[u], list') <=> In(arg[u], list))
      BY <1>0, <3>1
    <3>4. \A s \in Subs : life[s] \in {"free", "subscribed"} =>
             (In(s, list') <=> In(s, list))
      BY <2>0, <3>1
    <3> QED BY <2>0, <3>1, <3>2, <3>3, <3>4 DEF Placed
  <2>5. Iterating' BY <1>0, <1>1, <2>0 DEF Iterating
  <2> QED BY <2>1, <2>2, <2>3, <2>4, <2>5
<1>2. CASE Fill(t)
  <2> USE DEF Fill
  <2>0. op[t] = "subscribe" BY <1>2 DEF CallOK
  <2>1. MutexHeld' BY <1>2 DEF MutexHeld, Inside
  <2>2. CallOK' BY <1>2, <2>0 DEF CallOK
  <2>3. OneCall' BY <1>2 DEF OneCall
  <2>4. Placed' BY <1>0, <1>2, <2>0 DEF Placed, In
  <2>5. Iterating' BY <1>0, <1>2, <2>0 DEF Iterating
  <2> QED BY <2>1, <2>2, <2>3, <2>4, <2>5
<1>3. CASE RemoveNode(t)
  <2> USE DEF RemoveNode
  <2>0. op[t] = "unsubscribe" /\ life[arg[t]] = "unsubscribing"
    BY <1>3 DEF CallOK
  <2>1. MutexHeld' BY <1>3 DEF MutexHeld, Inside
  <2>2. CallOK' BY <1>3, <2>0 DEF CallOK
  <2>3. OneCall' BY <1>3 DEF OneCall
  <2>4. Placed'
    <3>1. PICK k \in 1..Len(list) : list[k] = arg[t] /\ list' = RemoveAt(list, k)
      BY <1>3
    <3>2. /\ Distinct(list')
          /\ \A x : In(x, list') <=> x # arg[t] /\ In(x, list)
      BY <3>1, RemoveLemma DEF Placed
    <3> QED BY <1>0, <1>3, <2>0, <3>2 DEF Placed, CallOK
  <2>5. Iterating' BY <1>0, <1>3, <2>0 DEF Iterating
  <2> QED BY <2>1, <2>2, <2>3, <2>4, <2>5
<1> QED BY <1>1, <1>2, <1>3

(***************************************************************************)
(* The steps of a publisher, which leave the list alone, keep the          *)
(* invariant: the iterator goes from node to node, and the callbacks that  *)
(* have been called are those of the nodes before it.                      *)
(***************************************************************************)
LEMMA PublishStep ==
    ASSUME IndInv, TypeOK', NEW t \in Threads,
           Deliver(t) \/ CallbackReturn(t) \/ IterationEnd(t)
    PROVE  IndInv'
<1> USE DEF IndInv, TypeOK, Goto, Ops
<1>0. /\ op[t] = "publish" /\ op' = op /\ arg' = arg /\ life' = life /\ list' = list
      /\ \A u \in Threads : u # t =>
            pc'[u] = pc[u] /\ it'[u] = it[u] /\ seen'[u] = seen[u]
  BY DEF Deliver, CallbackReturn, IterationEnd, CallOK
<1>1. MutexHeld'
  BY DEF Deliver, CallbackReturn, IterationEnd, MutexHeld, Inside
<1>2. CallOK'
  BY DEF Deliver, CallbackReturn, IterationEnd, CallOK
<1>3. OneCall' /\ Placed'
  <2>1. ready' = ready
    BY DEF Deliver, CallbackReturn, IterationEnd
  <2>2. OneCall /\ Placed
    OBVIOUS
  <2> HIDE DEF IndInv, TypeOK
  <2> QED BY <1>0, <2>1, <2>2 DEF OneCall, Placed, In, Distinct
<1>4. /\ pc'[t] = "callback" =>
            \E k \in 1..Len(list) : it'[t] = list[k] /\ seen'[t] = SubSeq(list, 1, k)
      /\ pc'[t] = "publish" /\ it'[t] = NoSub => seen'[t] = list
      /\ pc'[t] = "publish" /\ it'[t] # NoSub =>
            \E k \in 1..Len(list) : it'[t] = list[k] /\ seen'[t] = SubSeq(list, 1, k - 1)
      /\ pc'[t] = "unlock" => seen'[t] = list
  <2>1. CASE Deliver(t)
    <3>1. PICK k \in 1..Len(list) : it[t] = list[k] /\ seen[t] = SubSeq(list, 1, k - 1)
      BY <2>1 DEF Deliver, Iterating
    <3>2. /\ pc'[t] = "callback" /\ it'[t] = it[t]
          /\ seen'[t] = Append(seen[t], it[t])
      BY <2>1 DEF Deliver
    <3>3. Append(SubSeq(list, 1, k - 1), list[k]) = SubSeq(list, 1, k)
      BY SeenLemma
    <3> HIDE DEF IndInv, TypeOK
    <3> QED BY <3>1, <3>2, <3>3
  <2>2. CASE CallbackReturn(t)
    <3>1. PICK k \in 1..Len(list) : it[t] = list[k] /\ seen[t] = SubSeq(list, 1, k)
      BY <2>2 DEF CallbackReturn, Iterating
    <3>2. /\ pc'[t] = "publish" /\ it'[t] = After(it[t])
          /\ seen'[t] = seen[t]
      BY <2>2 DEF CallbackReturn
    <3>3. After(list[k]) = IF k < Len(list) THEN list[k + 1] ELSE NoSub
      BY AfterLemma DEF Placed
    <3>4. CASE k < Len(list)
      <4>1. k + 1 \in 1..Len(list) /\ list[k + 1] \in Subs /\ (k + 1) - 1 = k
        BY <3>4
      <4> HIDE DEF IndInv, TypeOK
      <4> QED BY <3>1, <3>2, <3>3, <3>4, <4>1
    <3>5. CASE ~(k < Len(list))
      <4>1. k = Len(list)
        BY <3>5
      <4>2. SubSeq(list, 1, Len(list)) = list
        BY SubSeqFull
      <4> HIDE DEF IndInv, TypeOK
      <4> QED BY <3>1, <3>2, <3>3, <3>5, <4>1, <4>2
    <3> QED BY <3>4, <3>5
  <2>3. CASE IterationEnd(t)
    BY <2>3 DEF IterationEnd, Iterating
  <2> QED BY <2>1, <2>2, <2>3
<1>5. Iterating'
  <2>1. Iterating
    OBVIOUS
  <2> HIDE DEF IndInv, TypeOK
  <2>2. ASSUME NEW u \in Threads, u # t
        PROVE  /\ pc'[u] = "publish" /\ it'[u] = NoSub => seen'[u] = list'
               /\ pc'[u] = "publish" /\ it'[u] # NoSub =>
                     \E k \in 1..Len(list') : it'[u] = list'[k] /\ seen'[u] = SubSeq(list', 1, k - 1)
               /\ pc'[u] = "callback" =>
                     \E k \in 1..Len(list') : it'[u] = list'[k] /\ seen'[u] = SubSeq(list', 1, k)
               /\ pc'[u] = "unlock" /\ op'[u] = "publish" => seen'[u] = list'
    BY <1>0, <2>1, <2>2 DEF Iterating
  <2> QED BY <1>0, <1>4, <2>2 DEF Iterating
<1> QED BY <1>1, <1>2, <1>3, <1>5

(***************************************************************************)
(* The return from a call keeps the invariant: what the client may do with *)
(* the subscription agrees with the place of its node again.               *)
(***************************************************************************)
LEMMA ReturnStep ==
    ASSUME IndInv, TypeOK', NEW t \in Threads, Return(t)
    PROVE  IndInv'
<1> USE DEF IndInv, TypeOK, Goto, Ops, Return
<1>0. /\ op' = [op EXCEPT ![t] = "none"] /\ arg' = [arg EXCEPT ![t] = NoSub]
      /\ seen' = [seen EXCEPT ![t] = <<>>] /\ pc' = [pc EXCEPT ![t] = "idle"]
      /\ list' = list /\ ready' = ready /\ it' = it /\ owner' = NoThread
      /\ pc[t] = "unlock"
  OBVIOUS
<1>1. op[t] \in {"subscribe", "unsubscribe", "publish"}
  BY DEF CallOK
<1>2. /\ op[t] = "subscribe" => life' = [life EXCEPT ![arg[t]] = "subscribed"]
      /\ op[t] = "unsubscribe" => life' = [life EXCEPT ![arg[t]] = "free"]
      /\ op[t] = "publish" => life' = life
  OBVIOUS
<1>3. \A u \in Threads : u # t /\ arg[u] \in Subs => arg[u] # arg[t] /\ life'[arg[u]] = life[arg[u]]
  BY <1>1, <1>2 DEF OneCall
<1>4. arg[t] \in Subs <=> op[t] \in {"subscribe", "unsubscribe"}
  BY DEF CallOK
<1>5. /\ \A u \in Threads : u # t => pc'[u] = pc[u] /\ op'[u] = op[u] /\ arg'[u] = arg[u]
                                     /\ seen'[u] = seen[u]
      /\ pc'[t] = "idle" /\ op'[t] = "none" /\ arg'[t] = NoSub /\ seen'[t] = <<>>
  OBVIOUS
<1>6. MutexHeld'
  BY DEF MutexHeld, Inside
<1>7. TypeOK /\ CallOK /\ OneCall /\ Placed /\ Iterating
  OBVIOUS
<1> HIDE DEF IndInv, Return
<1>8. CallOK'
  BY <1>3, <1>5, <1>7 DEF CallOK
<1>9. OneCall'
  <2>1. \A u, v \in Threads : arg'[u] \in Subs /\ arg'[u] = arg'[v] => u = v
    BY <1>5, <1>7 DEF OneCall
  <2>2. ASSUME NEW s \in Subs, life'[s] \in {"subscribing", "unsubscribing"}
        PROVE  \E u \in Threads : arg'[u] = s
    <3>1. s # arg[t] /\ life[s] = life'[s]
      BY <1>1, <1>2, <1>4, <1>7, <2>2
    <3> QED BY <1>5, <1>7, <2>2, <3>1 DEF OneCall
  <2> QED BY <2>1, <2>2 DEF OneCall
<1>10. Placed'
  <2>1. Distinct(list')
    BY <1>0, <1>7 DEF Placed
  <2>2. ASSUME NEW s \in Subs
        PROVE  /\ life'[s] = "free" => ~In(s, list')
               /\ life'[s] = "subscribed" => In(s, list') /\ s \in ready'
    BY <1>0, <1>1, <1>2, <1>4, <1>7 DEF Placed
  <2>3. \A u \in Threads :
          /\ op'[u] = "subscribe" =>
               /\ pc'[u] \in {"lock", "subscribe"} => ~In(arg'[u], list')
               /\ pc'[u] \in {"fill", "unlock"} => In(arg'[u], list')
               /\ pc'[u] = "unlock" => arg'[u] \in ready'
          /\ op'[u] = "unsubscribe" =>
               /\ pc'[u] \in {"lock", "unsubscribe"} => In(arg'[u], list') /\ arg'[u] \in ready'
               /\ pc'[u] = "unlock" => ~In(arg'[u], list')
    BY <1>0, <1>5, <1>7 DEF Placed
  <2> QED BY <2>1, <2>2, <2>3 DEF Placed
<1>11. Iterating'
  <2> HIDE DEF TypeOK
  <2> QED BY <1>0, <1>5, <1>7 DEF Iterating
<1> QED BY <1>6, <1>8, <1>9, <1>10, <1>11 DEF IndInv

(***************************************************************************)
(* The initial state satisfies the invariant.                              *)
(***************************************************************************)
LEMMA InitInv == Init => IndInv
<1> SUFFICES ASSUME Init PROVE IndInv
  OBVIOUS
<1> USE DEF Init
<1>1. TypeOK BY DEF TypeOK, Ops
<1>2. MutexHeld /\ CallOK /\ OneCall BY DEF MutexHeld, Inside, CallOK, OneCall
<1>3. Placed BY DEF Placed, Distinct, In
<1>4. Iterating BY DEF Iterating
<1> QED BY <1>1, <1>2, <1>3, <1>4 DEF IndInv

(***************************************************************************)
(* Every step keeps the invariant.                                         *)
(***************************************************************************)
LEMMA StepInv == IndInv /\ [Next]_vars => IndInv'
<1> SUFFICES ASSUME IndInv, [Next]_vars PROVE IndInv'
  OBVIOUS
<1>t. TypeOK' BY TypeStep
<1>1. CASE Alloc \/ Free \/ UNCHANGED vars
  <2>1. UNCHANGED <<owner, list, ready, life, pc, op, arg, it, seen>>
    BY <1>1 DEF Alloc, Free, callVars, vars
  <2> QED BY <1>t, <2>1 DEF IndInv, MutexHeld, CallOK, OneCall, Placed, Iterating, Distinct, In
<1>2. CASE \E t \in Threads :
             \/ Publish(t) \/ Acquire(t) \/ Section(t)
             \/ \E s \in Subs : Subscribe(t, s) \/ Unsubscribe(t, s)
  BY <1>t, <1>2, CallStep, ListStep, PublishStep, ReturnStep DEF Section
<1> QED BY <1>1, <1>2 DEF Next

(***************************************************************************)
(* The invariant holds in every state the instance can reach.              *)
(***************************************************************************)
THEOREM Invariance == Spec => []IndInv
BY InitInv, StepInv, PTL DEF Spec

(***************************************************************************)
(* While a thread publishes, every node in the list is filled in and is    *)
(* that of a subscription that its client has made and not yet cancelled.  *)
(***************************************************************************)
LEMMA LinkedIsReady ==
    ASSUME IndInv, NEW t \in Threads, pc[t] \in {"publish", "callback"},
           NEW s \in Subs, In(s, list)
    PROVE  s \in ready /\ life[s] \in {"subscribed", "unsubscribing"}
<1> USE DEF IndInv
<1>1. \A u \in Threads : op[u] \in {"subscribe", "unsubscribe"} => pc[u] = "lock"
  BY DEF MutexHeld, CallOK, TypeOK, Inside
<1>2. CASE life[s] \in {"subscribing", "unsubscribing"}
  <2>1. PICK u \in Threads : arg[u] = s
    BY <1>2 DEF OneCall
  <2>2. op[u] \in {"subscribe", "unsubscribe"} /\ pc[u] = "lock"
    BY <1>1, <2>1 DEF CallOK
  <2>3. op[u] # "subscribe"
    BY <2>1, <2>2 DEF Placed
  <2> QED BY <2>1, <2>2, <2>3 DEF Placed, CallOK
<1>3. CASE life[s] \in {"free", "subscribed"}
  BY <1>3 DEF Placed
<1> QED BY <1>2, <1>3 DEF TypeOK

-----------------------------------------------------------------------------
\* The properties.

(***************************************************************************)
(* The types of the variables, in every reachable state.                   *)
(***************************************************************************)
THEOREM TypeCorrect == Spec => []TypeOK
<1>1. IndInv => TypeOK BY DEF IndInv
<1> QED BY <1>1, Invariance, PTL

(***************************************************************************)
(* furi_mutex_acquire: at most one thread is between the acquisition and   *)
(* the release of the mutex of the instance.                               *)
(***************************************************************************)
THEOREM OneInside ==
    Spec => [](\A t, u \in Threads : pc[t] \in Inside /\ pc[u] \in Inside => t = u)
<1>1. IndInv => \A t, u \in Threads : pc[t] \in Inside /\ pc[u] \in Inside => t = u
  BY DEF IndInv, MutexHeld
<1> QED BY <1>1, Invariance, PTL

(***************************************************************************)
(* The node that furi_pubsub_publish uses, and the one that                *)
(* furi_pubsub_unsubscribe looks for, are in the list.                     *)
(***************************************************************************)
THEOREM UsedStaysLinked == Spec => []UsedIsLinked
<1>1. ASSUME IndInv PROVE UsedIsLinked
  <2> SUFFICES ASSUME NEW t \in Threads
               PROVE  /\ pc[t] \in {"publish", "callback"} /\ it[t] # NoSub =>
                             it[t] \in ToSet(list) /\ it[t] \in ready
                      /\ pc[t] = "unsubscribe" => arg[t] \in ToSet(list)
    BY DEF UsedIsLinked
  <2> USE <1>1 DEF IndInv
  <2>1. \A x : In(x, list) <=> x \in ToSet(list)
    BY DEF In, ToSet
  <2>2. ASSUME pc[t] \in {"publish", "callback"}, it[t] # NoSub
        PROVE  In(it[t], list) /\ it[t] \in ready
    <3>1. In(it[t], list) /\ it[t] \in Subs
      BY <2>2 DEF Iterating, In, TypeOK
    <3>2. it[t] \in ready
      BY <2>2, <3>1, LinkedIsReady DEF Inside
    <3> QED BY <3>1, <3>2
  <2>3. pc[t] = "unsubscribe" => In(arg[t], list)
    BY DEF Placed, CallOK
  <2> QED BY <2>1, <2>2, <2>3
<1> QED BY <1>1, Invariance, PTL

(***************************************************************************)
(* A callback that runs belongs to a subscription whose unsubscribe has    *)
(* not returned.                                                           *)
(***************************************************************************)
THEOREM SilentAfterReturn == Spec => []SilentAfterUnsubscribe
<1>1. ASSUME IndInv PROVE SilentAfterUnsubscribe
  <2> SUFFICES ASSUME NEW t \in Threads, pc[t] = "callback"
               PROVE  life[it[t]] \in {"subscribed", "unsubscribing"}
    BY DEF SilentAfterUnsubscribe
  <2>1. In(it[t], list) /\ it[t] \in Subs
    BY <1>1 DEF IndInv, Iterating, In, TypeOK
  <2> QED BY <1>1, <2>1, LinkedIsReady DEF Inside
<1> QED BY <1>1, Invariance, PTL

(***************************************************************************)
(* furi_pubsub_publish returns when it has called the callback of every    *)
(* node in the list, each one once and in the order of the list.           *)
(***************************************************************************)
THEOREM DeliveredOnReturn == Spec => DeliveredToAll
<1>1. ASSUME IndInv, [Next]_vars
      PROVE  [\A t \in Threads : op[t] = "publish" /\ op'[t] = "none" => seen[t] = list]_vars
  <2> SUFFICES ASSUME NEW t \in Threads, op[t] = "publish", op'[t] = "none"
               PROVE  seen[t] = list
    OBVIOUS
  <2>1. Return(t)
    <3> USE DEF IndInv, TypeOK, Ops, callVars, Goto
    <3>1. ASSUME NEW u \in Threads, Publish(u) \/ (\E s \in Subs : Subscribe(u, s) \/ Unsubscribe(u, s))
          PROVE  op'[t] # "none"
      BY <1>1, <3>1 DEF Publish, Subscribe, Unsubscribe, Call
    <3>2. ASSUME NEW u \in Threads, Return(u) PROVE u = t
      BY <1>1, <3>2 DEF Return
    <3>3. op' # op
      OBVIOUS
    <3> HIDE DEF IndInv, TypeOK
    <3> QED BY <1>1, <3>1, <3>2, <3>3
       DEF Next, Section, Alloc, Free, Acquire, Push, Fill, RemoveNode, Deliver,
           CallbackReturn, IterationEnd, vars
  <2> QED BY <1>1, <2>1 DEF Return, IndInv, Iterating
<1> QED BY <1>1, Invariance, PTL DEF Spec, DeliveredToAll

-----------------------------------------------------------------------------
(***************************************************************************)
(* The refinement of Broadcast.                                            *)
(***************************************************************************)

\* What Broadcast sees of a state.
Done == {t \in Threads : pc[t] \in {"fill", "unlock"}}
Publisher == IF Delivering THEN owner ELSE NoThread
Left == IF Delivering THEN ToSet(list) \ ToSet(seen[owner]) ELSE {}
Running == IF Delivering /\ pc[owner] = "callback" THEN it[owner] ELSE NoSub

\* Where a thread may be.
Steps == {"idle", "lock", "subscribe", "fill", "unsubscribe", "publish", "callback", "unlock"}

\* A node is in the list: the two ways to say so.
LEMMA InIs == ASSUME NEW q PROVE \A x : In(x, q) <=> x \in ToSet(q)
BY DEF In, ToSet

\* The callbacks that have been called, up to and with a node.
LEMMA SeenSets ==
    ASSUME NEW q \in Seq(Subs), NEW k \in 1..Len(q), Distinct(q)
    PROVE  /\ ToSet(SubSeq(q, 1, k)) = ToSet(SubSeq(q, 1, k - 1)) \cup {q[k]}
           /\ q[k] \in ToSet(q) /\ q[k] \notin ToSet(SubSeq(q, 1, k - 1))
<1>1. Len(q) \in Nat /\ k \in Nat /\ k - 1 \in Nat
  OBVIOUS
<1>2. /\ Len(SubSeq(q, 1, k)) = k /\ Len(SubSeq(q, 1, k - 1)) = k - 1
      /\ \A i \in 1..k : SubSeq(q, 1, k)[i] = q[i]
      /\ \A i \in 1..(k - 1) : SubSeq(q, 1, k - 1)[i] = q[i]
  BY <1>1, SubSeqProperties
<1>3. \A x : /\ x \in ToSet(SubSeq(q, 1, k)) <=> \E i \in 1..k : q[i] = x
             /\ x \in ToSet(SubSeq(q, 1, k - 1)) <=> \E i \in 1..(k - 1) : q[i] = x
  <2> DEFINE a == SubSeq(q, 1, k)
             b == SubSeq(q, 1, k - 1)
  <2>1. \A x : (In(x, a) <=> x \in ToSet(a)) /\ (In(x, b) <=> x \in ToSet(b))
    BY InIs
  <2>2. \A x : /\ In(x, a) <=> \E i \in 1..k : a[i] = x
               /\ In(x, b) <=> \E i \in 1..(k - 1) : b[i] = x
    BY <1>2 DEF In
  <2> QED BY <1>2, <2>1, <2>2
<1>4. \A i \in 1..k : i = k \/ i \in 1..(k - 1)
  BY <1>1
<1>5. \A i \in 1..(k - 1) : i \in 1..k /\ q[i] # q[k]
  BY <1>1 DEF Distinct
<1>6. k \in 1..k /\ q[k] \in ToSet(q)
  BY <1>1 DEF ToSet
<1> QED BY <1>3, <1>4, <1>5, <1>6

\* Who is not in the midst of its publish has no message on its way, whoever
\* else waits.
LEMMA DeliveringIs ==
    ASSUME IndInv, NEW t \in Threads
    PROVE  /\ pc[t] \in {"publish", "callback"} => Delivering /\ owner = t
           /\ pc[t] \in {"subscribe", "fill", "unsubscribe", "unlock"} => ~Delivering /\ owner = t
           /\ owner = NoThread => ~Delivering
<1>1. owner \in Threads \cup {NoThread} /\ (pc[t] \in Inside <=> owner = t)
  BY DEF IndInv, TypeOK, MutexHeld
<1> QED BY <1>1 DEF Delivering, Inside

\* Steps that change nothing of what Broadcast sees but perhaps a call.
LEMMA MessageSame ==
    ASSUME IndInv, IndInv', NEW t \in Threads,
           pc[t] \notin {"publish", "callback"}, pc'[t] \notin {"publish", "callback"},
           \A u \in Threads : u # t =>
               pc'[u] = pc[u] /\ it'[u] = it[u] /\ seen'[u] = seen[u],
           owner' = owner \/ (~Delivering /\ ~Delivering'),
           list' = list \/ (~Delivering /\ ~Delivering')
    PROVE  Publisher' = Publisher /\ Left' = Left /\ Running' = Running
<1>1. CASE ~Delivering /\ ~Delivering'
  BY <1>1 DEF Publisher, Left, Running
<1>2. CASE ~(~Delivering /\ ~Delivering')
  <2>1. owner' = owner /\ list' = list
    BY <1>2
  <2>2. owner \in Threads \cup {NoThread}
    BY DEF IndInv, TypeOK
  <2>3. owner # NoThread /\ owner # t
    BY <1>2, <2>1 DEF Delivering
  <2>4. pc'[owner] = pc[owner] /\ it'[owner] = it[owner] /\ seen'[owner] = seen[owner]
    BY <2>2, <2>3
  <2>5. Delivering' <=> Delivering
    BY <2>1, <2>4 DEF Delivering
  <2> QED BY <2>1, <2>4, <2>5 DEF Publisher, Left, Running
<1> QED BY <1>1, <1>2

\* All that Broadcast sees, but for the calls and who has done.
Unseen == list' = list /\ Publisher' = Publisher /\ Left' = Left /\ Running' = Running

(***************************************************************************)
(* A call that begins is one that begins: the client's books on its        *)
(* subscriptions agree with those of Broadcast.                            *)
(***************************************************************************)
LEMMA AskMaps ==
    ASSUME IndInv, IndInv', NEW t \in Threads,
           Publish(t) \/ \E s \in Subs : Subscribe(t, s) \/ Unsubscribe(t, s)
    PROVE  Promise!Next
<1>1. /\ pc[t] = "idle" /\ pc' = [pc EXCEPT ![t] = "lock"] /\ pc \in [Threads -> Steps]
      /\ alive /\ UNCHANGED <<alive, owner, list, it, seen>>
  BY DEF Publish, Subscribe, Unsubscribe, Call, Goto, IndInv, TypeOK, Steps
<1>2. op[t] = "none"
  BY <1>1 DEF IndInv, CallOK
<1>3. Unseen
  BY <1>1, MessageSame DEF Unseen
<1>4. Done' = Done
  BY <1>1 DEF Done
<1>5. ASSUME NEW o, NEW s, Call(t, o, s) PROVE Promise!Ask(t, o, s)
  BY <1>1, <1>2, <1>3, <1>4, <1>5
     DEF Call, Promise!Ask, Promise!messageVars, Unseen, Done, Publisher, Left, Running
<1>6. ASSUME NEW s \in Subs, \A u \in Threads : arg[u] # s PROVE Promise!Untouched(s)
  BY <1>6 DEF Promise!Untouched
<1>7. \A u \in Threads : arg[u] \in Subs => life[arg[u]] \in {"subscribing", "unsubscribing"}
  BY DEF IndInv, CallOK
<1>8. CASE Publish(t)
  BY <1>5, <1>8 DEF Publish, Promise!Publish, Promise!Next
<1>9. ASSUME NEW s \in Subs, Subscribe(t, s) PROVE Promise!Next
  <2>1. life[s] = "free" /\ Call(t, "subscribe", s)
    BY <1>9 DEF Subscribe
  <2>2. s \notin ToSet(list)
    BY <2>1, InIs DEF IndInv, Placed
  <2> QED BY <1>5, <1>6, <1>7, <2>1, <2>2 DEF Promise!Subscribe, Promise!Next
<1>10. ASSUME NEW s \in Subs, Unsubscribe(t, s) PROVE Promise!Next
  <2>1. life[s] = "subscribed" /\ Call(t, "unsubscribe", s)
    BY <1>10 DEF Unsubscribe
  <2>2. s \in ToSet(list)
    BY <2>1, InIs DEF IndInv, Placed
  <2> QED BY <1>5, <1>6, <1>7, <2>1, <2>2 DEF Promise!Unsubscribe, Promise!Next
<1> QED BY <1>8, <1>9, <1>10

(***************************************************************************)
(* A publisher's message is on its way from its acquisition of the mutex   *)
(* on; who comes to subscribe or unsubscribe has only reached its turn.    *)
(***************************************************************************)
LEMMA AcquireMaps ==
    ASSUME IndInv, IndInv', NEW t \in Threads, Acquire(t)
    PROVE  Promise!Begin(t) \/ UNCHANGED Promise!vars
<1>1. /\ pc[t] = "lock" /\ pc' = [pc EXCEPT ![t] = op[t]] /\ pc \in [Threads -> Steps]
      /\ owner = NoThread /\ owner' = t /\ t # NoThread
      /\ UNCHANGED <<alive, list, op, arg, seen>>
      /\ op[t] # "publish" => it' = it
  BY DEF Acquire, Goto, IndInv, TypeOK, Steps
<1>2. pc'[t] = op[t] /\ op[t] \in {"subscribe", "unsubscribe", "publish"}
  BY <1>1 DEF IndInv, CallOK, TypeOK, Ops
<1>3. Done' = Done /\ t \notin Done
  BY <1>1, <1>2 DEF Done
<1>4. ~Delivering
  BY <1>1 DEF Delivering
<1>5. CASE op[t] = "publish"
  <2>1. Delivering' /\ pc'[owner'] = "publish"
    BY <1>1, <1>2, <1>5 DEF Delivering
  <2>2. ToSet(seen[t]) = {}
    <3>1. seen[t] = <<>> BY <1>1 DEF IndInv, CallOK
    <3> QED BY <3>1 DEF ToSet
  <2>3. /\ Publisher = NoThread /\ Publisher' = t
        /\ Left' = ToSet(list)
        /\ Running = NoSub /\ Running' = NoSub
    BY <1>1, <1>4, <2>1, <2>2 DEF Publisher, Left, Running
  <2>4. Promise!Begin(t)
    BY <1>1, <1>3, <1>5, <2>3
       DEF Promise!Begin, Promise!Turn, Promise!callVars, Done, Publisher, Left, Running
  <2> QED BY <2>4
<1>6. CASE op[t] # "publish"
  <2>1. ~Delivering'
    BY <1>1, <1>2, <1>6 DEF Delivering
  <2>2. Publisher' = Publisher /\ Left' = Left /\ Running' = Running
    BY <1>4, <2>1 DEF Publisher, Left, Running
  <2> QED BY <1>1, <1>3, <2>2
       DEF Promise!vars, Promise!callVars, Promise!messageVars, Done, Publisher, Left, Running
<1> QED BY <1>5, <1>6

(***************************************************************************)
(* The list changes while no message is on its way, and with it changes    *)
(* who is subscribed.  A node that is not filled in yet is one already.    *)
(***************************************************************************)
LEMMA ListMaps ==
    ASSUME IndInv, IndInv', NEW t \in Threads, Push(t) \/ Fill(t) \/ RemoveNode(t)
    PROVE  Promise!Add(t) \/ Promise!Remove(t) \/ UNCHANGED Promise!vars
<1>1. /\ pc[t] \in {"subscribe", "fill", "unsubscribe"} /\ pc \in [Threads -> Steps]
      /\ pc' = [pc EXCEPT ![t] = IF Push(t) THEN "fill" ELSE "unlock"]
      /\ UNCHANGED <<alive, owner, op, arg, it, seen>>
  BY DEF Push, Fill, RemoveNode, Goto, IndInv, TypeOK, Steps
<1>2. pc'[t] \in {"fill", "unlock"}
  BY <1>1
<1>3. ~Delivering /\ ~Delivering'
  BY <1>1, <1>2, DeliveringIs DEF Delivering
<1>4. Publisher' = Publisher /\ Left' = Left /\ Running' = Running /\ Publisher = NoThread
  BY <1>3 DEF Publisher, Left, Running
<1>5. Done' = Done \cup {t}
  BY <1>1, <1>2 DEF Done
<1>6. CASE Push(t)
  <2>1. op[t] = "subscribe" /\ t \notin Done /\ arg[t] \in Subs /\ ~In(arg[t], list)
    BY <1>6 DEF Push, IndInv, CallOK, Placed, Done
  <2>2. \A x : In(x, list') <=> x = arg[t] \/ In(x, list)
    BY <1>6, <2>1, PushLemma DEF Push, IndInv, TypeOK, Placed
  <2>3. ToSet(list') = ToSet(list) \cup {arg[t]}
    BY <2>2, InIs
  <2>4. Promise!Add(t)
    BY <1>1, <1>4, <1>5, <2>1, <2>3
       DEF Promise!Add, Promise!Turn, Promise!callVars, Promise!messageVars,
           Done, Publisher, Left, Running
  <2> QED BY <2>4
<1>7. CASE Fill(t)
  <2>1. list' = list /\ t \in Done
    BY <1>7 DEF Fill, Done
  <2> QED BY <1>1, <1>4, <1>5, <2>1
       DEF Promise!vars, Promise!callVars, Promise!messageVars, Done, Publisher, Left, Running
<1>8. CASE RemoveNode(t)
  <2>1. op[t] = "unsubscribe" /\ t \notin Done
    BY <1>8 DEF RemoveNode, IndInv, CallOK, Done
  <2>2. PICK k \in 1..Len(list) : list[k] = arg[t] /\ list' = RemoveAt(list, k)
    BY <1>8 DEF RemoveNode
  <2>3. \A x : In(x, list') <=> x # arg[t] /\ In(x, list)
    BY <2>2, RemoveLemma DEF IndInv, TypeOK, Placed
  <2>4. ToSet(list') = ToSet(list) \ {arg[t]}
    BY <2>3, InIs
  <2>5. Promise!Remove(t)
    BY <1>1, <1>4, <1>5, <2>1, <2>4
       DEF Promise!Remove, Promise!Turn, Promise!callVars, Promise!messageVars,
           Done, Publisher, Left, Running
  <2> QED BY <2>5
<1> QED BY <1>6, <1>7, <1>8

(***************************************************************************)
(* Along the list, every callback is called for one that has not got the   *)
(* message yet, and at the end everybody has got it.                       *)
(***************************************************************************)
LEMMA PublishMaps ==
    ASSUME IndInv, IndInv', NEW t \in Threads,
           Deliver(t) \/ CallbackReturn(t) \/ IterationEnd(t)
    PROVE  (\E s \in Subs : Promise!Callback(s)) \/ Promise!CallbackReturns \/ Promise!End(t)
<1>1. /\ pc[t] \in {"publish", "callback"} /\ pc \in [Threads -> Steps]
      /\ UNCHANGED <<alive, owner, list, op, arg>>
      /\ list \in Seq(Subs) /\ Distinct(list) /\ seen \in [Threads -> Seq(Subs)]
      /\ it \in [Threads -> Subs \cup {NoSub}]
  BY DEF Deliver, CallbackReturn, IterationEnd, IndInv, TypeOK, Placed, Steps
<1>2. Delivering /\ owner = t /\ owner # NoThread
  BY <1>1, DeliveringIs
<1>3. /\ Publisher = t /\ Left = ToSet(list) \ ToSet(seen[t])
      /\ Running = IF pc[t] = "callback" THEN it[t] ELSE NoSub
  BY <1>2 DEF Publisher, Left, Running
<1>4. CASE Deliver(t)
  <2>1. /\ pc[t] = "publish" /\ pc' = [pc EXCEPT ![t] = "callback"] /\ it' = it
        /\ seen' = [seen EXCEPT ![t] = Append(@, it[t])] /\ it[t] # NoSub
    BY <1>4 DEF Deliver, Goto
  <2>2. PICK k \in 1..Len(list) : it[t] = list[k] /\ seen[t] = SubSeq(list, 1, k - 1)
    BY <2>1 DEF IndInv, Iterating
  <2>3. seen'[t] = SubSeq(list, 1, k)
    BY <1>1, <2>1, <2>2, SeenLemma
  <2>4. /\ ToSet(seen'[t]) = ToSet(seen[t]) \cup {it[t]}
        /\ it[t] \in ToSet(list) /\ it[t] \notin ToSet(seen[t])
    BY <1>1, <2>2, <2>3, SeenSets
  <2>5. pc'[t] = "callback" /\ owner' = t /\ Delivering'
    BY <1>1, <1>2, <2>1 DEF Delivering
  <2>6. Publisher' = t /\ Left' = ToSet(list) \ ToSet(seen'[t]) /\ Running' = it[t]
    BY <1>1, <2>1, <2>5 DEF Publisher, Left, Running
  <2>7. Left' = Left \ {it[t]} /\ it[t] \in Left
    BY <1>3, <2>4, <2>6
  <2>8. Done' = Done
    BY <1>1, <2>1 DEF Done
  <2>9. it[t] \in Subs /\ Running = NoSub
    BY <1>1, <1>3, <2>1
  <2>10. Promise!Callback(it[t])
    BY <1>1, <1>3, <2>6, <2>7, <2>8, <2>9
       DEF Promise!Callback, Promise!callVars, Done, Publisher, Left, Running
  <2> QED BY <2>9, <2>10
<1>5. CASE CallbackReturn(t)
  <2>1. pc[t] = "callback" /\ pc' = [pc EXCEPT ![t] = "publish"] /\ seen' = seen
    BY <1>5 DEF CallbackReturn, Goto
  <2>2. it[t] # NoSub
    BY <1>1, <2>1 DEF IndInv, Iterating
  <2>3. pc'[t] = "publish" /\ owner' = t /\ Delivering'
    BY <1>1, <1>2, <2>1 DEF Delivering
  <2>4. Publisher' = t /\ Left' = Left /\ Running' = NoSub
    BY <1>1, <1>3, <2>1, <2>3 DEF Publisher, Left, Running
  <2>5. Done' = Done
    BY <1>1, <2>1 DEF Done
  <2>6. Running # NoSub
    BY <1>3, <2>1, <2>2
  <2>7. Promise!CallbackReturns
    BY <1>1, <1>3, <2>4, <2>5, <2>6
       DEF Promise!CallbackReturns, Promise!callVars, Done, Publisher, Left, Running
  <2> QED BY <2>7
<1>6. CASE IterationEnd(t)
  <2>1. /\ pc[t] = "publish" /\ it[t] = NoSub /\ pc' = [pc EXCEPT ![t] = "unlock"]
    BY <1>6 DEF IterationEnd, Goto
  <2>2. seen[t] = list
    BY <2>1 DEF IndInv, Iterating
  <2>3. Left = {} /\ Running = NoSub
    BY <1>3, <2>1, <2>2
  <2>4. ~Delivering'
    BY <1>1, <1>2, <2>1 DEF Delivering
  <2>5. Publisher' = NoThread /\ Left' = {} /\ Running' = NoSub
    BY <2>4 DEF Publisher, Left, Running
  <2>6. Done' = Done \cup {t}
    BY <1>1, <2>1 DEF Done
  <2>7. Promise!End(t)
    BY <1>1, <1>3, <2>3, <2>5, <2>6
       DEF Promise!End, Promise!callVars, Done, Publisher, Left, Running
  <2> QED BY <2>7
<1> QED BY <1>4, <1>5, <1>6

\* A call that has taken effect returns.
LEMMA ReturnMaps ==
    ASSUME IndInv, IndInv', NEW t \in Threads, Return(t)
    PROVE  Promise!Return(t)
<1>1. /\ pc[t] = "unlock" /\ pc' = [pc EXCEPT ![t] = "idle"] /\ pc \in [Threads -> Steps]
      /\ owner' = NoThread /\ UNCHANGED <<alive, list>>
      /\ op' = [op EXCEPT ![t] = "none"] /\ arg' = [arg EXCEPT ![t] = NoSub]
  BY DEF Return, Goto, IndInv, TypeOK, Steps
<1>2. ~Delivering /\ ~Delivering'
  BY <1>1, DeliveringIs DEF Delivering
<1>3. Publisher' = Publisher /\ Left' = Left /\ Running' = Running
  BY <1>2 DEF Publisher, Left, Running
<1>4. Done' = Done \ {t} /\ t \in Done
  BY <1>1 DEF Done
<1> QED BY <1>1, <1>3, <1>4
     DEF Promise!Return, Promise!messageVars, Done, Publisher, Left, Running

\* The instance is allocated and freed.
LEMMA OwnerMaps ==
    ASSUME IndInv, Alloc \/ Free
    PROVE  Promise!Alloc \/ Promise!Free
<1>1. UNCHANGED <<owner, list, op, arg, pc, it, seen>>
  BY DEF Alloc, Free, callVars
<1>2. Publisher' = Publisher /\ Left' = Left /\ Running' = Running /\ Done' = Done
  BY <1>1 DEF Publisher, Left, Running, Done, Delivering
<1>3. CASE Alloc
  BY <1>1, <1>2, <1>3
     DEF Alloc, Promise!Alloc, Promise!callVars, Promise!messageVars, Done, Publisher, Left, Running
<1>4. CASE Free
  <2>1. ToSet(list) = {} /\ \A t \in Threads : op[t] = "none"
    BY <1>4 DEF Free, ToSet, IndInv, CallOK
  <2> QED BY <1>1, <1>2, <1>4, <2>1
     DEF Free, Promise!Free, Promise!callVars, Promise!messageVars, Done, Publisher, Left, Running
<1> QED BY <1>3, <1>4

\* Nobody is subscribed in the beginning.
LEMMA InitMaps == Init => Promise!Init
<1> SUFFICES ASSUME Init PROVE Promise!Init
  OBVIOUS
<1>1. ~Delivering
  BY DEF Init, Delivering
<1>2. ToSet(list) = {} /\ Done = {}
  BY DEF Init, Done, ToSet
<1> QED BY <1>1, <1>2 DEF Init, Promise!Init, Done

(***************************************************************************)
(* Every step is one of Broadcast, or none.                                *)
(***************************************************************************)
LEMMA StepMaps == IndInv /\ IndInv' /\ [Next]_vars => [Promise!Next]_Promise!vars
<1> SUFFICES ASSUME IndInv, IndInv', [Next]_vars PROVE [Promise!Next]_Promise!vars
  OBVIOUS
<1>1. CASE Alloc \/ Free
  BY <1>1, OwnerMaps DEF Promise!Next
<1>2. ASSUME NEW t \in Threads, Publish(t) \/ \E s \in Subs : Subscribe(t, s) \/ Unsubscribe(t, s)
      PROVE  Promise!Next
  BY <1>2, AskMaps
<1>3. ASSUME NEW t \in Threads, Acquire(t) PROVE [Promise!Next]_Promise!vars
  BY <1>3, AcquireMaps DEF Promise!Next
<1>4. ASSUME NEW t \in Threads, Push(t) \/ Fill(t) \/ RemoveNode(t)
      PROVE  [Promise!Next]_Promise!vars
  BY <1>4, ListMaps DEF Promise!Next
<1>5. ASSUME NEW t \in Threads, Deliver(t) \/ CallbackReturn(t) \/ IterationEnd(t)
      PROVE  Promise!Next
  BY <1>5, PublishMaps DEF Promise!Next
<1>6. ASSUME NEW t \in Threads, Return(t) PROVE Promise!Next
  BY <1>6, ReturnMaps DEF Promise!Next
<1>7. CASE UNCHANGED vars
  BY <1>7 DEF vars, callVars, Delivering, Promise!vars, Promise!callVars, Promise!messageVars
<1> QED BY <1>1, <1>2, <1>3, <1>4, <1>5, <1>6, <1>7 DEF Next, Section

(***************************************************************************)
(* FuriPubSub does what Broadcast promises, for any number of threads and  *)
(* subscriptions: though a node is linked before it is filled in, though   *)
(* callbacks run with the mutex held and threads wait for it in the        *)
(* meantime, calls seem to take effect one at a time, and messages reach   *)
(* exactly those who are subscribed.                                       *)
(***************************************************************************)
THEOREM BroadcastRefined == Spec => Implements
BY Invariance, InitMaps, StepMaps, PTL DEF Spec, Implements, Promise!Spec
=============================================================================
