------------------------------ MODULE TimerProofs ------------------------------
(***************************************************************************)
(* Proofs about Timer, for any number of clients and timers, any mixture   *)
(* of periodic and one-shot timers and any length of the daemon's queue.   *)
(***************************************************************************)
EXTENDS Timer, TLAPS

\* The command m starts the timer t, or takes it out of the daemon's list.
Arms(m, t) == m.timer = t /\ m.cmd \in {"change", "reset"}
Stops(m, t) == m.timer = t /\ m.cmd \in {"stop", "delete"}

\* Behind place k of the daemon's queue, or still in the hands of the client
\* that sends it, there is a command that stops t.
OffPending(t, k) ==
    \/ \E j \in 1..Len(queue) : j > k /\ Stops(queue[j], t)
    \/ \E j \in 1..Len(todo[User[t]]) : Stops(todo[User[t]][j], t)

-----------------------------------------------------------------------------
(***************************************************************************)
(* The inductive invariant.                                                *)
(***************************************************************************)

\* What a client has still to send belongs to its call, and the event is the
\* last of it.
ClientOK ==
    \A c \in Clients :
        /\ call[c] = "none" => todo[c] = <<>> /\ arg[c] = NoTimer
        /\ arg[c] \in Timers => arg[c] \in live /\ User[arg[c]] = c
        /\ call[c] \in {"start", "restart"} => arg[c] \in on
        /\ call[c] = "free" => arg[c] \in Timers \ on
        /\ \A i \in 1..Len(todo[c]) :
              /\ todo[c][i].from = c /\ todo[c][i].timer = arg[c]
              /\ todo[c][i].cmd # "event" => arg[c] \in Timers
              /\ todo[c][i].cmd \in {"change", "reset"} => call[c] \in {"start", "restart"}
              /\ todo[c][i].cmd = "event" => call[c] \in {"flush", "free"} /\ i = Len(todo[c])

\* A command in the queue is for an allocated timer of its sender, and the
\* event of a flush is the last that its client, which waits for it, has sent.
QueueOK ==
    \A i \in 1..Len(queue) :
        /\ queue[i].timer \in Timers =>
              queue[i].timer \in live /\ User[queue[i].timer] = queue[i].from
        /\ queue[i].cmd # "event" => queue[i].timer \in Timers
        /\ queue[i].cmd = "event" =>
              /\ call[queue[i].from] \in {"flush", "free"}
              /\ todo[queue[i].from] = <<>>
              /\ \A j \in 1..Len(queue) : j > i => queue[j].from # queue[i].from

\* When the event of a client is set, the daemon has processed all its commands.
EventOK ==
    \A c \in Clients :
        event[c] => todo[c] = <<>> /\ \A i \in 1..Len(queue) : queue[i].from # c

\* Only allocated timers are in use.
LiveOK == on \subseteq live /\ armed \subseteq live /\ daemon \in live \cup {NoTimer}

\* A timer that its client has switched off is on its way out of the daemon's
\* list: a command that stops it comes after everything that may start it.
OffOK ==
    \A t \in Timers \ on :
        /\ t \in armed \/ daemon = t => OffPending(t, 0)
        /\ \A i \in 1..Len(queue) : Arms(queue[i], t) => OffPending(t, i)

\* A timer that is quiet is off, and there is nothing that may start it.
QuietOK ==
    \A t \in quiet :
        /\ t \notin on /\ t \notin armed /\ daemon # t
        /\ \A i \in 1..Len(queue) : ~Arms(queue[i], t)

IndInv == TypeOK /\ ClientOK /\ QueueOK /\ EventOK /\ LiveOK /\ OffOK /\ QuietOK

USE TimerAssumption

-----------------------------------------------------------------------------
\* The client.

(***************************************************************************)
(* The commands in the queue and in the hands of the clients.              *)
(***************************************************************************)
LEMMA QueueTypes ==
    ASSUME TypeOK
    PROVE  /\ \A i \in 1..Len(queue) :
                 queue[i] \in Commands /\ queue[i].from \in Clients
                 /\ queue[i].timer \in Timers \cup {NoTimer}
           /\ \A c \in Clients : \A i \in 1..Len(todo[c]) : todo[c][i] \in Commands
<1>1. \A m \in Commands : m.from \in Clients /\ m.timer \in Timers \cup {NoTimer}
  BY DEF Commands
<1>2. \A i \in 1..Len(queue) : queue[i] \in Commands
  BY DEF TypeOK
<1>3. ASSUME NEW c \in Clients PROVE \A i \in 1..Len(todo[c]) : todo[c][i] \in Commands
  <2>1. todo[c] \in Seq(Commands)
    BY DEF TypeOK
  <2> QED BY <2>1
<1> QED BY <1>1, <1>2, <1>3

CommandNames == {"change", "reset", "stop", "delete", "event"}

(***************************************************************************)
(* The commands that a call is going to send.                              *)
(***************************************************************************)
LEMMA TodoLemma ==
    ASSUME TypeOK, NEW c \in Clients, NEW name \in Calls, NEW t \in Timers \cup {NoTimer},
           NEW commands \in Seq(CommandNames), Call(c, name, t, commands)
    PROVE  /\ todo' \in [Clients -> Seq(Commands)]
           /\ \A d \in Clients : d # c => todo'[d] = todo[d]
           /\ Len(todo'[c]) = Len(commands)
           /\ \A i \in 1..Len(commands) :
                 /\ todo'[c][i].cmd = commands[i] /\ todo'[c][i].timer = t
                 /\ todo'[c][i].from = c
<1> DEFINE new == [i \in 1..Len(commands) |-> [cmd |-> commands[i], timer |-> t, from |-> c]]
<1>1. Len(commands) \in Nat /\ \A i \in 1..Len(commands) : commands[i] \in CommandNames
  OBVIOUS
<1>2. \A i \in 1..Len(commands) : [cmd |-> commands[i], timer |-> t, from |-> c] \in Commands
  BY <1>1 DEF Commands, CommandNames
<1>3. new \in Seq(Commands) /\ Len(new) = Len(commands)
  BY <1>1, <1>2
<1>4. \A i \in 1..Len(commands) : new[i].cmd = commands[i] /\ new[i].timer = t /\ new[i].from = c
  OBVIOUS
<1>5. todo' = [todo EXCEPT ![c] = new]
  BY DEF Call
<1> HIDE DEF new
<1> QED BY <1>3, <1>4, <1>5 DEF TypeOK

(***************************************************************************)
(* A call of the timer API keeps the invariant, if it sends commands for a *)
(* timer of the caller only, those that start it when the client switches  *)
(* it on, one that stops it when the client switches it off, and the event *)
(* as the last one.                                                        *)
(***************************************************************************)
LEMMA CallStep ==
    ASSUME IndInv, NEW c \in Clients, NEW name \in Calls \ {"none"},
           NEW t \in Timers \cup {NoTimer}, NEW commands \in Seq(CommandNames),
           Call(c, name, t, commands),
           t \in Timers => t \in live /\ User[t] = c,
           t \in Timers <=> name # "flush",
           name \in {"start", "restart"} => on' = on \cup {t} /\ quiet' = quiet \ {t},
           name \in {"stop", "free"} => on' = on \ {t} /\ quiet' = quiet,
           name = "flush" => on' = on /\ quiet' = quiet,
           \A i \in 1..Len(commands) :
               /\ commands[i] # "event" => t \in Timers
               /\ commands[i] \in {"change", "reset"} => name \in {"start", "restart"}
               /\ commands[i] = "event" => name \in {"flush", "free"} /\ i = Len(commands),
           name \in {"stop", "free"} =>
               \E i \in 1..Len(commands) : commands[i] \in {"stop", "delete"}
    PROVE  IndInv'
<1>1. /\ call[c] = "none" /\ call' = [call EXCEPT ![c] = name]
      /\ arg' = [arg EXCEPT ![c] = t] /\ event' = [event EXCEPT ![c] = FALSE]
      /\ UNCHANGED <<live, armed, queue, daemon>>
  BY DEF Call
<1>2. /\ TypeOK /\ ClientOK /\ QueueOK /\ EventOK /\ LiveOK /\ OffOK /\ QuietOK
  BY DEF IndInv
<1>3. /\ todo' \in [Clients -> Seq(Commands)]
      /\ \A d \in Clients : d # c => todo'[d] = todo[d]
      /\ Len(todo'[c]) = Len(commands)
      /\ \A i \in 1..Len(commands) :
            /\ todo'[c][i].cmd = commands[i] /\ todo'[c][i].timer = t
            /\ todo'[c][i].from = c
  BY <1>2, TodoLemma
<1>4. todo[c] = <<>> /\ name \in {"start", "restart", "stop", "flush", "free"}
  BY <1>1, <1>2 DEF ClientOK, Calls
<1>5. on' \subseteq Timers /\ quiet' \subseteq Timers /\ on' \subseteq live
  BY <1>2, <1>4 DEF TypeOK, LiveOK
<1>6. TypeOK'
  BY <1>1, <1>2, <1>3, <1>5 DEF TypeOK
<1>7. ClientOK'
  <2>1. ASSUME NEW d \in Clients, d # c
        PROVE  arg[d] # t \/ arg[d] = NoTimer
    BY <1>2, <2>1 DEF ClientOK
  <2>2. ASSUME NEW d \in Clients, d # c
        PROVE  arg[d] \in Timers => (arg[d] \in on' <=> arg[d] \in on)
    BY <1>4, <2>1, <2>2
  <2>3. ASSUME NEW d \in Clients, d # c
        PROVE  /\ call'[d] = "none" => todo'[d] = <<>> /\ arg'[d] = NoTimer
               /\ arg'[d] \in Timers => arg'[d] \in live' /\ User[arg'[d]] = d
               /\ call'[d] \in {"start", "restart"} => arg'[d] \in on'
               /\ call'[d] = "free" => arg'[d] \in Timers \ on'
               /\ \A i \in 1..Len(todo'[d]) :
                     /\ todo'[d][i].from = d /\ todo'[d][i].timer = arg'[d]
                     /\ todo'[d][i].cmd # "event" => arg'[d] \in Timers
                     /\ todo'[d][i].cmd \in {"change", "reset"} => call'[d] \in {"start", "restart"}
                     /\ todo'[d][i].cmd = "event" =>
                           call'[d] \in {"flush", "free"} /\ i = Len(todo'[d])
    <3>1. call'[d] = call[d] /\ arg'[d] = arg[d] /\ todo'[d] = todo[d]
      BY <1>1, <1>2, <1>3, <2>3 DEF TypeOK
    <3>2. call[d] \in {"start", "restart"} => arg[d] \in Timers
      BY <1>2 DEF ClientOK, TypeOK
    <3> QED BY <1>1, <1>2, <2>2, <2>3, <3>1, <3>2 DEF ClientOK
  <2>4. /\ call'[c] = name /\ arg'[c] = t
        /\ arg'[c] \in Timers => arg'[c] \in live' /\ User[arg'[c]] = c
        /\ call'[c] \in {"start", "restart"} => arg'[c] \in on'
        /\ call'[c] = "free" => arg'[c] \in Timers \ on'
    BY <1>1, <1>2 DEF TypeOK
  <2>5. \A i \in 1..Len(todo'[c]) :
            /\ todo'[c][i].from = c /\ todo'[c][i].timer = arg'[c]
            /\ todo'[c][i].cmd # "event" => arg'[c] \in Timers
            /\ todo'[c][i].cmd \in {"change", "reset"} => call'[c] \in {"start", "restart"}
            /\ todo'[c][i].cmd = "event" => call'[c] \in {"flush", "free"} /\ i = Len(todo'[c])
    <3> TAKE i \in 1..Len(todo'[c])
    <3>1. i \in 1..Len(commands)
      BY <1>3
    <3>2. /\ todo'[c][i].cmd = commands[i] /\ todo'[c][i].timer = t
          /\ todo'[c][i].from = c
      BY <1>3, <3>1
    <3> QED BY <1>3, <2>4, <3>1, <3>2
  <2> QED BY <2>3, <2>4, <2>5 DEF ClientOK
<1>8. QueueOK'
  <2>1. \A i \in 1..Len(queue) : queue[i].cmd = "event" => queue[i].from # c
    BY <1>1, <1>2 DEF QueueOK
  <2>2. \A i \in 1..Len(queue) : queue[i].from \in Clients
    BY <1>2, QueueTypes
  <2> QED BY <1>1, <1>2, <1>3, <2>1, <2>2 DEF QueueOK, TypeOK
<1>9. EventOK'
  BY <1>1, <1>2, <1>3 DEF EventOK, TypeOK
<1>10. LiveOK'
  BY <1>1, <1>2, <1>5 DEF LiveOK
<1>11. ASSUME NEW u \in Timers, NEW k, u # t, OffPending(u, k)
       PROVE  OffPending(u, k)'
  <2>1. CASE User[u] = c
    BY <1>1, <1>4, <1>11, <2>1 DEF OffPending
  <2>2. CASE User[u] # c
    BY <1>1, <1>3, <1>11, <2>2 DEF OffPending
  <2> QED BY <2>1, <2>2
<1>12. OffOK'
  <2>1. ASSUME NEW u \in Timers \ on', u # t
        PROVE  /\ u \in armed' \/ daemon' = u => OffPending(u, 0)'
               /\ \A i \in 1..Len(queue') : Arms(queue'[i], u) => OffPending(u, i)'
    <3>1. u \in Timers \ on
      BY <1>4, <2>1
    <3> QED BY <1>1, <1>2, <1>11, <2>1, <3>1 DEF OffOK
  <2>2. ASSUME t \in Timers \ on'
        PROVE  \A k : OffPending(t, k)'
    <3>1. PICK i \in 1..Len(commands) : commands[i] \in {"stop", "delete"}
      BY <1>4, <2>2
    <3>2. /\ todo'[c][i].cmd = commands[i] /\ todo'[c][i].timer = t
          /\ i \in 1..Len(todo'[c]) /\ User[t] = c
      BY <1>3, <2>2
    <3> QED BY <3>1, <3>2 DEF OffPending, Stops
  <2> QED BY <2>1, <2>2 DEF OffOK
<1>13. QuietOK'
  BY <1>1, <1>2, <1>4 DEF QuietOK
<1> QED BY <1>6, <1>7, <1>8, <1>9, <1>10, <1>12, <1>13 DEF IndInv

(***************************************************************************)
(* The calls that furi_timer_start, furi_timer_restart, furi_timer_stop,   *)
(* furi_timer_flush and furi_timer_free begin with keep the invariant.     *)
(***************************************************************************)
LEMMA ClientStep ==
    ASSUME IndInv
    PROVE  /\ \A t \in Timers : Start(t) \/ Restart(t) \/ Stop(t) \/ Free(t) => IndInv'
           /\ \A c \in Clients : Flush(c) => IndInv'
<1>1. ASSUME NEW t \in Timers, Start(t) PROVE IndInv'
  <2> DEFINE q == <<"change">>
  <2>1. q \in Seq(CommandNames) /\ Len(q) = 1 /\ q[1] = "change"
    BY DEF CommandNames
  <2>2. Call(User[t], "start", t, q) /\ t \in live /\ on' = on \cup {t} /\ quiet' = quiet \ {t}
    BY <1>1 DEF Start
  <2> HIDE DEF q
  <2> QED BY <2>1, <2>2, CallStep DEF Calls
<1>2. ASSUME NEW t \in Timers, Restart(t) PROVE IndInv'
  <2> DEFINE q == <<"change", "reset">>
  <2>1. q \in Seq(CommandNames) /\ Len(q) = 2 /\ q[1] = "change" /\ q[2] = "reset"
    BY DEF CommandNames
  <2>2. Call(User[t], "restart", t, q) /\ t \in live /\ on' = on \cup {t} /\ quiet' = quiet \ {t}
    BY <1>2 DEF Restart
  <2> HIDE DEF q
  <2> QED BY <2>1, <2>2, CallStep DEF Calls
<1>3. ASSUME NEW t \in Timers, Stop(t) PROVE IndInv'
  <2> DEFINE q == <<"stop">>
  <2>1. q \in Seq(CommandNames) /\ Len(q) = 1 /\ q[1] = "stop" /\ 1 \in 1..Len(q)
    BY DEF CommandNames
  <2>2. Call(User[t], "stop", t, q) /\ t \in live /\ on' = on \ {t} /\ quiet' = quiet
    BY <1>3 DEF Stop
  <2> HIDE DEF q
  <2> QED BY <2>1, <2>2, CallStep DEF Calls
<1>4. ASSUME NEW t \in Timers, Free(t) PROVE IndInv'
  <2> DEFINE q == <<"delete", "event">>
  <2>1. /\ q \in Seq(CommandNames) /\ Len(q) = 2 /\ q[1] = "delete" /\ q[2] = "event"
        /\ 1 \in 1..Len(q)
    BY DEF CommandNames
  <2>2. Call(User[t], "free", t, q) /\ t \in live /\ on' = on \ {t} /\ quiet' = quiet
    BY <1>4 DEF Free
  <2> HIDE DEF q
  <2>3. \A i \in 1..Len(q) : i = 1 \/ i = 2
    BY <2>1
  <2> QED BY <2>1, <2>2, <2>3, CallStep DEF Calls
<1>5. ASSUME NEW c \in Clients, Flush(c) PROVE IndInv'
  <2> DEFINE q == <<"event">>
  <2>1. q \in Seq(CommandNames) /\ Len(q) = 1 /\ q[1] = "event"
    BY DEF CommandNames
  <2>2. Call(c, "flush", NoTimer, q) /\ on' = on /\ quiet' = quiet
    BY <1>5 DEF Flush
  <2> HIDE DEF q
  <2> QED BY <2>1, <2>2, CallStep DEF Calls
<1> QED BY <1>1, <1>2, <1>3, <1>4, <1>5

(***************************************************************************)
(* A command that is sent goes to the end of the queue: it leaves the      *)
(* order of the client's commands as it is.                                *)
(***************************************************************************)
LEMMA SendStep ==
    ASSUME IndInv, NEW c \in Clients, Send(c)
    PROVE  IndInv'
<1> DEFINE m == Head(todo[c])
<1>1. /\ todo[c] # <<>> /\ Len(queue) < QueueLen
      /\ queue' = Append(queue, m) /\ todo' = [todo EXCEPT ![c] = Tail(todo[c])]
      /\ UNCHANGED <<live, armed, daemon, call, arg, event, on, quiet>>
  BY DEF Send
<1>2. /\ TypeOK /\ ClientOK /\ QueueOK /\ EventOK /\ LiveOK /\ OffOK /\ QuietOK
  BY DEF IndInv
<1>3. /\ todo[c] \in Seq(Commands) /\ queue \in Seq(Commands) /\ todo \in [Clients -> Seq(Commands)]
      /\ Len(queue) \in Nat /\ Len(queue) <= QueueLen
  BY <1>2 DEF TypeOK
<1>4. /\ m \in Commands /\ m = todo[c][1] /\ Len(todo[c]) \in Nat \ {0}
      /\ Tail(todo[c]) \in Seq(Commands) /\ Len(Tail(todo[c])) = Len(todo[c]) - 1
      /\ \A i \in 1..Len(todo[c]) - 1 : Tail(todo[c])[i] = todo[c][i + 1]
  BY <1>1, <1>3
<1>5. /\ todo' \in [Clients -> Seq(Commands)] /\ todo'[c] = Tail(todo[c])
      /\ \A d \in Clients : d # c => todo'[d] = todo[d]
  BY <1>1, <1>3, <1>4
<1> HIDE DEF m
<1>6. /\ queue' \in Seq(Commands) /\ Len(queue') = Len(queue) + 1
      /\ \A i \in 1..Len(queue) : queue'[i] = queue[i]
      /\ queue'[Len(queue) + 1] = m
  BY <1>1, <1>3, <1>4
<1>7. /\ m.from = c /\ m.timer = arg[c]
      /\ m.cmd # "event" => arg[c] \in Timers
      /\ m.cmd \in {"change", "reset"} => call[c] \in {"start", "restart"}
      /\ m.cmd = "event" => call[c] \in {"flush", "free"} /\ todo'[c] = <<>>
  <2>1. 1 \in 1..Len(todo[c])
    BY <1>4
  <2>2. m.cmd = "event" => Len(todo[c]) = 1
    <3>1. m.cmd = todo[c][1].cmd
      BY <1>4
    <3>2. todo[c][1].cmd = "event" => 1 = Len(todo[c])
      <4>1. \A i \in 1..Len(todo[c]) : todo[c][i].cmd = "event" => i = Len(todo[c])
        BY <1>2 DEF ClientOK
      <4> QED BY <2>1, <4>1
    <3> QED BY <3>1, <3>2
  <2>3. Len(todo[c]) = 1 => todo'[c] = <<>>
    BY <1>4, <1>5
  <2> QED BY <1>2, <1>4, <2>1, <2>2, <2>3 DEF ClientOK
<1>8. TypeOK'
  <2>1. Len(queue') <= QueueLen
    BY <1>1, <1>3, <1>6
  <2> QED BY <1>1, <1>2, <1>5, <1>6, <2>1 DEF TypeOK
<1>9. ClientOK'
  <2>1. \A i \in 1..Len(todo'[c]) :
           i + 1 \in 1..Len(todo[c]) /\ todo'[c][i] = todo[c][i + 1]
           /\ (i + 1 = Len(todo[c]) => i = Len(todo'[c]))
    BY <1>4, <1>5
  <2>2. call[c] # "none"
    BY <1>1, <1>2 DEF ClientOK
  <2>3. \A i \in 1..Len(todo'[c]) :
            /\ todo'[c][i].from = c /\ todo'[c][i].timer = arg[c]
            /\ todo'[c][i].cmd # "event" => arg[c] \in Timers
            /\ todo'[c][i].cmd \in {"change", "reset"} => call[c] \in {"start", "restart"}
            /\ todo'[c][i].cmd = "event" => call[c] \in {"flush", "free"} /\ i = Len(todo'[c])
    BY <1>2, <2>1 DEF ClientOK
  <2> QED BY <1>1, <1>2, <1>5, <2>2, <2>3 DEF ClientOK
<1>10. \A i \in 1..Len(queue') : i \in 1..Len(queue) \/ i = Len(queue) + 1
  BY <1>3, <1>6
<1>11. QueueOK'
  <2>0. \A i \in 1..Len(queue) : i < Len(queue) + 1
    BY <1>3
  <2>1. \A i \in 1..Len(queue) : queue[i].cmd = "event" => queue[i].from # c
    BY <1>1, <1>2 DEF QueueOK
  <2>2. ASSUME NEW i \in 1..Len(queue)
        PROVE  /\ queue'[i].timer \in Timers =>
                     queue'[i].timer \in live' /\ User[queue'[i].timer] = queue'[i].from
               /\ queue'[i].cmd # "event" => queue'[i].timer \in Timers
               /\ queue'[i].cmd = "event" =>
                     /\ call'[queue'[i].from] \in {"flush", "free"}
                     /\ todo'[queue'[i].from] = <<>>
                     /\ \A j \in 1..Len(queue') : j > i => queue'[j].from # queue'[i].from
    <3>1. queue'[i] = queue[i] /\ queue[i].from \in Clients
      BY <1>2, <1>6, QueueTypes
    <3>2. ASSUME queue[i].cmd = "event"
          PROVE  /\ todo'[queue[i].from] = todo[queue[i].from]
                 /\ \A j \in 1..Len(queue') : j > i => queue'[j].from # queue[i].from
      <4>1. /\ todo[queue[i].from] = <<>> /\ queue[i].from # c
            /\ \A j \in 1..Len(queue) : j > i => queue[j].from # queue[i].from
        BY <1>2, <2>1, <3>2 DEF QueueOK
      <4>2. \A j \in 1..Len(queue) : j > i => queue'[j].from # queue[i].from
        BY <1>6, <4>1
      <4>3. queue'[Len(queue) + 1].from # queue[i].from
        BY <1>6, <1>7, <4>1
      <4> QED BY <1>5, <1>10, <3>1, <4>1, <4>2, <4>3
    <3> QED BY <1>1, <1>2, <3>1, <3>2 DEF QueueOK
  <2>3. /\ m.timer \in Timers => m.timer \in live' /\ User[m.timer] = m.from
        /\ m.cmd # "event" => m.timer \in Timers
        /\ m.cmd = "event" => call'[m.from] \in {"flush", "free"} /\ todo'[m.from] = <<>>
    BY <1>1, <1>2, <1>7 DEF ClientOK
  <2>4. \A j \in 1..Len(queue') : ~(j > Len(queue) + 1)
    BY <1>3, <1>6
  <2> QED BY <1>6, <1>10, <2>2, <2>3, <2>4 DEF QueueOK
<1>12. EventOK'
  <2>1. ~event[c]
    BY <1>1, <1>2 DEF EventOK
  <2> SUFFICES ASSUME NEW d \in Clients, event[d]
               PROVE  todo'[d] = <<>> /\ \A i \in 1..Len(queue') : queue'[i].from # d
    BY <1>1 DEF EventOK
  <2>2. d # c /\ todo[d] = <<>> /\ \A i \in 1..Len(queue) : queue[i].from # d
    BY <1>2, <2>1 DEF EventOK
  <2>3. \A i \in 1..Len(queue) : queue'[i].from # d
    BY <1>6, <2>2
  <2>4. queue'[Len(queue) + 1].from # d
    BY <1>6, <1>7, <2>2
  <2> QED BY <1>5, <1>10, <2>2, <2>3, <2>4
<1>13. LiveOK'
  BY <1>1, <1>2 DEF LiveOK
<1>14. ASSUME NEW t \in Timers, NEW k \in Nat, k <= Len(queue), OffPending(t, k)
       PROVE  OffPending(t, k)'
  <2>1. ASSUME NEW j \in 1..Len(queue), j > k, Stops(queue[j], t)
        PROVE  OffPending(t, k)'
    <3>1. j \in 1..Len(queue') /\ queue'[j] = queue[j]
      BY <1>3, <1>6
    <3> QED BY <2>1, <3>1 DEF OffPending
  <2>2. ASSUME NEW j \in 1..Len(todo[User[t]]), Stops(todo[User[t]][j], t), User[t] # c
        PROVE  OffPending(t, k)'
    BY <1>5, <2>2 DEF OffPending
  <2>3. ASSUME NEW j \in 1..Len(todo[c]), Stops(todo[c][j], t), User[t] = c
        PROVE  OffPending(t, k)'
    <3>1. CASE j = 1
      <4>1. Len(queue) + 1 \in 1..Len(queue') /\ Len(queue) + 1 > k
        BY <1>3, <1>6, <1>14
      <4> QED BY <1>4, <1>6, <2>3, <3>1, <4>1 DEF OffPending
    <3>2. CASE j # 1
      <4>1. j - 1 \in 1..Len(todo'[c]) /\ todo'[c][j - 1] = todo[c][j]
        BY <1>4, <1>5, <3>2
      <4> QED BY <2>3, <4>1 DEF OffPending
    <3> QED BY <3>1, <3>2
  <2> QED BY <1>14, <2>1, <2>2, <2>3 DEF OffPending
<1>15. OffOK'
  <2> SUFFICES ASSUME NEW t \in Timers \ on
               PROVE  /\ t \in armed \/ daemon = t => OffPending(t, 0)'
                      /\ \A i \in 1..Len(queue') : Arms(queue'[i], t) => OffPending(t, i)'
    BY <1>1 DEF OffOK
  <2>1. ~Arms(m, t)
    BY <1>2, <1>7 DEF Arms, ClientOK
  <2>2. ASSUME NEW i \in 1..Len(queue), Arms(queue[i], t) PROVE OffPending(t, i)'
    <3>1. i \in Nat /\ i <= Len(queue) /\ OffPending(t, i)
      BY <1>2, <1>3, <2>2 DEF OffOK
    <3> QED BY <1>14, <3>1
  <2>3. t \in armed \/ daemon = t => OffPending(t, 0)'
    BY <1>2, <1>3, <1>14 DEF OffOK
  <2> QED BY <1>6, <1>10, <2>1, <2>2, <2>3
<1>16. QuietOK'
  <2>1. ASSUME NEW t \in quiet PROVE ~Arms(m, t)
    BY <1>2, <1>7 DEF Arms, ClientOK, QuietOK
  <2> QED BY <1>1, <1>2, <1>6, <1>10, <2>1 DEF QuietOK
<1> QED BY <1>8, <1>9, <1>11, <1>12, <1>13, <1>15, <1>16 DEF IndInv

(***************************************************************************)
(* When a flush or furi_timer_free returns, the daemon has processed all   *)
(* commands of the client: the timers that it has switched off are quiet,  *)
(* and the one that is freed is unknown.                                   *)
(***************************************************************************)
LEMMA Processed ==
    ASSUME IndInv, NEW c \in Clients, event[c], NEW t \in Timers \ on, User[t] = c
    PROVE  /\ t \notin armed /\ daemon # t
           /\ \A i \in 1..Len(queue) : queue[i].timer # t
<1>1. \A i \in 1..Len(queue) : queue[i].from # c
  BY DEF IndInv, EventOK
<1>2. todo[c] = <<>>
  BY DEF IndInv, EventOK
<1>3. \A i \in 1..Len(queue) : queue[i].timer # t
  BY <1>1 DEF IndInv, QueueOK
<1>4. ~OffPending(t, 0)
  BY <1>2, <1>3 DEF OffPending, Stops
<1> QED BY <1>3, <1>4 DEF IndInv, OffOK

(***************************************************************************)
(* The return from a call keeps the invariant.                             *)
(***************************************************************************)
LEMMA ReturnStep ==
    ASSUME IndInv, NEW c \in Clients, Return(c)
    PROVE  IndInv'
<1>0. /\ call[c] \in {"flush", "free"} => event[c]
      /\ todo[c] = <<>> /\ call' = [call EXCEPT ![c] = "none"] /\ arg' = [arg EXCEPT ![c] = NoTimer]
  BY DEF Return
<1>1. /\ call[c] # "none" /\ todo[c] = <<>> /\ call[c] \in {"flush", "free"} => event[c]
      /\ live' = IF call[c] = "free" THEN live \ {arg[c]} ELSE live
      /\ quiet' = IF call[c] \in {"flush", "free"}
                  THEN quiet \cup {t \in live : User[t] = c /\ t \notin on} ELSE quiet
      /\ call' = [call EXCEPT ![c] = "none"] /\ arg' = [arg EXCEPT ![c] = NoTimer]
      /\ UNCHANGED <<armed, queue, daemon, todo, event, on>>
  BY DEF Return
<1>2. TypeOK /\ ClientOK /\ QueueOK /\ EventOK /\ LiveOK /\ OffOK /\ QuietOK
  BY DEF IndInv
<1>3. live' \subseteq live /\ (call[c] # "free" => live' = live)
  BY <1>1
<1>4. ASSUME call[c] = "free"
      PROVE  /\ arg[c] \in Timers \ on /\ User[arg[c]] = c
             /\ arg[c] \notin armed /\ daemon # arg[c]
             /\ \A i \in 1..Len(queue) : queue[i].timer # arg[c]
  <2>1. arg[c] \in Timers \ on
    BY <1>2, <1>4 DEF ClientOK
  <2>2. User[arg[c]] = c
    BY <1>2, <2>1 DEF ClientOK
  <2>3. event[c]
    BY <1>0, <1>4
  <2> QED BY <2>1, <2>2, <2>3, Processed
<1>5. TypeOK'
  <2>1. live' \subseteq Timers /\ quiet' \subseteq Timers
    BY <1>1, <1>2 DEF TypeOK
  <2>2. call' \in [Clients -> Calls] /\ arg' \in [Clients -> Timers \cup {NoTimer}]
    BY <1>1, <1>2 DEF TypeOK, Calls
  <2> QED BY <1>1, <1>2, <2>1, <2>2 DEF TypeOK
<1>6. ClientOK'
  <2>1. ASSUME NEW d \in Clients, d # c, arg[d] \in Timers
        PROVE  arg[d] \in live'
    BY <1>1, <1>2, <1>4, <2>1 DEF ClientOK
  <2>2. /\ call'[c] = "none" /\ arg'[c] = NoTimer /\ Len(todo[c]) = 0
        /\ \A d \in Clients : d # c => call'[d] = call[d] /\ arg'[d] = arg[d]
    <3>1. call \in [Clients -> Calls] /\ arg \in [Clients -> Timers \cup {NoTimer}]
      BY <1>2 DEF TypeOK
    <3> QED BY <1>0, <3>1
  <2>3. \A i \in 1..Len(todo[c]) : FALSE
    BY <2>2
  <2> QED BY <1>1, <1>2, <2>1, <2>2, <2>3 DEF ClientOK
<1>7. QueueOK'
  <2>1. \A i \in 1..Len(queue) : queue[i].timer \in live => queue[i].timer \in live'
    BY <1>1, <1>4
  <2>2. \A i \in 1..Len(queue) : queue[i].cmd = "event" => queue[i].from # c
    BY <1>1, <1>2 DEF QueueOK, EventOK
  <2>3. \A d \in Clients : d # c => call'[d] = call[d]
    BY <1>1, <1>2 DEF TypeOK
  <2>4. \A i \in 1..Len(queue) : queue[i].from \in Clients
    BY <1>2, QueueTypes
  <2> QED BY <1>1, <1>2, <2>1, <2>2, <2>3, <2>4 DEF QueueOK
<1>8. EventOK'
  BY <1>1, <1>2 DEF EventOK
<1>9. LiveOK'
  BY <1>1, <1>2, <1>4 DEF LiveOK
<1>10. OffOK'
  BY <1>1, <1>2 DEF OffOK, OffPending
<1>11. QuietOK'
  <2>1. ASSUME call[c] \in {"flush", "free"}, NEW t \in live, User[t] = c, t \notin on
        PROVE  /\ t \notin armed /\ daemon # t
               /\ \A i \in 1..Len(queue) : ~Arms(queue[i], t)
    <3>1. t \in Timers \ on
      BY <1>2, <2>1 DEF TypeOK
    <3>2. event[c]
      BY <1>0, <2>1
    <3> QED BY <2>1, <3>1, <3>2, Processed DEF Arms
  <2> QED BY <1>1, <1>2, <2>1 DEF QuietOK
<1> QED BY <1>5, <1>6, <1>7, <1>8, <1>9, <1>10, <1>11 DEF IndInv

-----------------------------------------------------------------------------
\* The daemon.

(***************************************************************************)
(* Processing a command keeps the invariant: the daemon takes them in the  *)
(* order in which they were sent.                                          *)
(***************************************************************************)
LEMMA ProcessStep ==
    ASSUME IndInv, Process
    PROVE  IndInv'
<1> DEFINE m == Head(queue)
<1>1. /\ daemon = NoTimer /\ queue # <<>> /\ queue' = Tail(queue)
      /\ armed' = CASE m.cmd \in {"change", "reset"} -> armed \cup {m.timer}
                    [] m.cmd \in {"stop", "delete"} -> armed \ {m.timer}
                    [] OTHER -> armed
      /\ event' = IF m.cmd = "event" THEN [event EXCEPT ![m.from] = TRUE] ELSE event
      /\ UNCHANGED <<live, daemon, call, arg, todo, on, quiet>>
  BY DEF Process
<1>2. TypeOK /\ ClientOK /\ QueueOK /\ EventOK /\ LiveOK /\ OffOK /\ QuietOK
  BY DEF IndInv
<1>3. /\ queue \in Seq(Commands) /\ Len(queue) \in Nat \ {0} /\ m = queue[1] /\ m \in Commands
      /\ Len(queue) <= QueueLen
  BY <1>1, <1>2 DEF TypeOK
<1>4. /\ queue' \in Seq(Commands) /\ Len(queue') = Len(queue) - 1
      /\ \A i \in 1..Len(queue') : queue'[i] = queue[i + 1] /\ i + 1 \in 1..Len(queue)
  BY <1>1, <1>3
<1>5. 1 \in 1..Len(queue) /\ m.from \in Clients
  BY <1>2, <1>3, QueueTypes
<1> HIDE DEF m
<1>6. /\ m.timer \in Timers => m.timer \in live /\ User[m.timer] = m.from
      /\ m.cmd # "event" => m.timer \in Timers
      /\ m.cmd = "event" =>
            /\ call[m.from] \in {"flush", "free"} /\ todo[m.from] = <<>>
            /\ \A j \in 1..Len(queue) : j > 1 => queue[j].from # m.from
  BY <1>2, <1>3, <1>5 DEF QueueOK
<1>7. /\ armed' \subseteq armed \cup {m.timer}
      /\ m.cmd \in {"change", "reset"} => armed' = armed \cup {m.timer}
      /\ m.cmd \in {"stop", "delete"} => armed' = armed \ {m.timer}
      /\ m.cmd \notin {"change", "reset"} => armed' \subseteq armed
      /\ m.cmd = "event" => armed' = armed
  BY <1>1
<1>8. m.cmd \in CommandNames
  BY <1>3 DEF Commands, CommandNames
<1>9. TypeOK'
  <2>1. armed' \subseteq Timers
    BY <1>2, <1>6, <1>7, <1>8 DEF TypeOK, CommandNames
  <2>2. event' \in [Clients -> BOOLEAN]
    BY <1>1, <1>2 DEF TypeOK
  <2>3. Len(queue') <= QueueLen
    BY <1>3, <1>4
  <2> QED BY <1>1, <1>2, <1>4, <2>1, <2>2, <2>3 DEF TypeOK
<1>10. ClientOK'
  BY <1>1, <1>2 DEF ClientOK
<1>11. QueueOK'
  <2>1. \A i \in 1..Len(queue') :
            queue'[i].cmd = "event" =>
              \A j \in 1..Len(queue') : j > i => queue'[j].from # queue'[i].from
    <3> SUFFICES ASSUME NEW i \in 1..Len(queue'), NEW j \in 1..Len(queue'),
                        queue'[i].cmd = "event", j > i
                 PROVE  queue'[j].from # queue'[i].from
      OBVIOUS
    <3>1. /\ i + 1 \in 1..Len(queue) /\ queue'[i] = queue[i + 1]
          /\ j + 1 \in 1..Len(queue) /\ queue'[j] = queue[j + 1] /\ j + 1 > i + 1
      BY <1>4
    <3> QED BY <1>2, <3>1 DEF QueueOK
  <2>2. ASSUME NEW i \in 1..Len(queue')
        PROVE  /\ queue'[i].timer \in Timers =>
                     queue'[i].timer \in live' /\ User[queue'[i].timer] = queue'[i].from
               /\ queue'[i].cmd # "event" => queue'[i].timer \in Timers
               /\ queue'[i].cmd = "event" =>
                     call'[queue'[i].from] \in {"flush", "free"} /\ todo'[queue'[i].from] = <<>>
    <3>1. i + 1 \in 1..Len(queue) /\ queue'[i] = queue[i + 1]
      BY <1>4
    <3> QED BY <1>1, <1>2, <3>1 DEF QueueOK
  <2> QED BY <2>1, <2>2 DEF QueueOK
<1>12. EventOK'
  <2> SUFFICES ASSUME NEW d \in Clients, event'[d]
               PROVE  todo[d] = <<>> /\ \A i \in 1..Len(queue') : queue'[i].from # d
    BY <1>1 DEF EventOK
  <2>1. event[d] \/ (d = m.from /\ m.cmd = "event")
    BY <1>1, <1>2 DEF TypeOK
  <2>2. CASE event[d]
    BY <1>2, <1>4, <2>2 DEF EventOK
  <2>3. CASE d = m.from /\ m.cmd = "event"
    <3>1. \A i \in 1..Len(queue') : i + 1 > 1
      BY <1>4
    <3> QED BY <1>4, <1>6, <2>3, <3>1
  <2> QED BY <2>1, <2>2, <2>3
<1>13. LiveOK'
  <2>1. armed' \subseteq live
    BY <1>2, <1>6, <1>7, <1>8 DEF LiveOK, CommandNames
  <2> QED BY <1>1, <1>2, <2>1 DEF LiveOK
<1>14. ASSUME NEW t \in Timers, NEW k \in Nat, OffPending(t, k + 1)
       PROVE  OffPending(t, k)'
  <2>1. ASSUME NEW j \in 1..Len(queue), j > k + 1, Stops(queue[j], t)
        PROVE  OffPending(t, k)'
    <3>1. j - 1 \in 1..Len(queue') /\ queue'[j - 1] = queue[j] /\ j - 1 > k
      BY <1>3, <1>4, <2>1
    <3> QED BY <2>1, <3>1 DEF OffPending
  <2> QED BY <1>1, <1>14, <2>1 DEF OffPending
<1>15. OffOK'
  <2> SUFFICES ASSUME NEW t \in Timers \ on
               PROVE  /\ t \in armed' => OffPending(t, 0)'
                      /\ \A i \in 1..Len(queue') : Arms(queue'[i], t) => OffPending(t, i)'
    BY <1>1 DEF OffOK
  <2>1. ASSUME t \in armed' PROVE OffPending(t, 0)'
    <3>1. CASE Arms(m, t)
      <4>1. OffPending(t, 1)
        BY <1>2, <1>3, <1>5, <3>1 DEF OffOK
      <4> QED BY <1>14, <4>1
    <3>2. CASE ~Arms(m, t)
      <4>1. t \in armed /\ ~Stops(m, t)
        BY <1>7, <1>8, <2>1, <3>2 DEF Arms, Stops, CommandNames
      <4>2. OffPending(t, 0)
        BY <1>2, <4>1 DEF OffOK
      <4>3. \A j \in 1..Len(queue) : j > 0 /\ Stops(queue[j], t) => j > 1
        BY <1>3, <4>1
      <4>4. OffPending(t, 0 + 1)
        BY <4>2, <4>3 DEF OffPending
      <4> QED BY <1>14, <4>4
    <3> QED BY <3>1, <3>2
  <2>2. ASSUME NEW i \in 1..Len(queue'), Arms(queue'[i], t) PROVE OffPending(t, i)'
    <3>1. i + 1 \in 1..Len(queue) /\ Arms(queue[i + 1], t) /\ i \in Nat
      BY <1>4, <2>2
    <3>2. OffPending(t, i + 1)
      BY <1>2, <3>1 DEF OffOK
    <3> QED BY <1>14, <3>1, <3>2
  <2> QED BY <2>1, <2>2
<1>16. QuietOK'
  <2>1. \A t \in quiet : ~Arms(m, t)
    BY <1>2, <1>3, <1>5 DEF QuietOK
  <2>2. \A t \in quiet : t \notin armed'
    BY <1>2, <1>7, <2>1 DEF QuietOK, Arms
  <2> QED BY <1>1, <1>2, <1>4, <2>2 DEF QuietOK
<1> QED BY <1>9, <1>10, <1>11, <1>12, <1>13, <1>15, <1>16 DEF IndInv

(***************************************************************************)
(* The allocation of a timer, its expiry and the end of its callback keep  *)
(* the invariant.                                                          *)
(***************************************************************************)
LEMMA OtherStep ==
    ASSUME IndInv, CallbackReturn \/ \E t \in Timers : Alloc(t) \/ Expire(t)
    PROVE  IndInv'
<1>1. TypeOK /\ ClientOK /\ QueueOK /\ EventOK /\ LiveOK /\ OffOK /\ QuietOK
  BY DEF IndInv
<1>2. UNCHANGED <<queue, clientVars, on>>
  BY DEF CallbackReturn, Alloc, Expire
<1>3. UNCHANGED <<queue, call, arg, todo, event, on>>
  BY <1>2 DEF clientVars
<1>4. EventOK' /\ \A t, k : OffPending(t, k) <=> OffPending(t, k)'
  BY <1>1, <1>3 DEF EventOK, OffPending
<1>5. ASSUME NEW t \in Timers, Alloc(t) PROVE IndInv'
  <2>1. /\ t \notin live /\ live' = live \cup {t} /\ quiet' = quiet \cup {t}
        /\ UNCHANGED <<armed, daemon>>
    BY <1>5 DEF Alloc
  <2>2. t \notin on /\ t \notin armed /\ daemon # t /\ \A i \in 1..Len(queue) : ~Arms(queue[i], t)
    BY <1>1, <2>1 DEF LiveOK, QueueOK, Arms
  <2>3. TypeOK' BY <1>1, <1>3, <2>1 DEF TypeOK
  <2>4. ClientOK' BY <1>1, <1>3, <2>1 DEF ClientOK
  <2>5. QueueOK' BY <1>1, <1>3, <2>1 DEF QueueOK
  <2>6. LiveOK' BY <1>1, <1>3, <2>1 DEF LiveOK
  <2>7. OffOK' BY <1>1, <1>3, <1>4, <2>1 DEF OffOK
  <2>8. QuietOK' BY <1>1, <1>3, <2>1, <2>2 DEF QuietOK
  <2> QED BY <1>4, <2>3, <2>4, <2>5, <2>6, <2>7, <2>8 DEF IndInv
<1>6. ASSUME NEW t \in Timers, Expire(t) PROVE IndInv'
  <2>1. /\ t \in armed /\ armed' \subseteq armed /\ daemon = NoTimer /\ daemon' = t
        /\ UNCHANGED <<live, quiet>>
    BY <1>6 DEF Expire
  <2>3. TypeOK' BY <1>1, <1>3, <2>1 DEF TypeOK
  <2>4. ClientOK' BY <1>1, <1>3, <2>1 DEF ClientOK
  <2>5. QueueOK' BY <1>1, <1>3, <2>1 DEF QueueOK
  <2>6. LiveOK' BY <1>1, <1>3, <2>1 DEF LiveOK
  <2>7. OffOK' BY <1>1, <1>3, <1>4, <2>1 DEF OffOK
  <2>8. QuietOK' BY <1>1, <1>3, <2>1 DEF QuietOK
  <2> QED BY <1>4, <2>3, <2>4, <2>5, <2>6, <2>7, <2>8 DEF IndInv
<1>7. ASSUME CallbackReturn PROVE IndInv'
  <2>1. daemon' = NoTimer /\ UNCHANGED <<live, armed, quiet>>
    BY <1>7 DEF CallbackReturn
  <2>3. TypeOK' BY <1>1, <1>3, <2>1 DEF TypeOK
  <2>4. ClientOK' BY <1>1, <1>3, <2>1 DEF ClientOK
  <2>5. QueueOK' BY <1>1, <1>3, <2>1 DEF QueueOK
  <2>6. LiveOK' BY <1>1, <1>3, <2>1 DEF LiveOK
  <2>7. OffOK' BY <1>1, <1>3, <1>4, <2>1 DEF OffOK
  <2>8. QuietOK' BY <1>1, <1>3, <2>1 DEF QuietOK, TypeOK
  <2> QED BY <1>4, <2>3, <2>4, <2>5, <2>6, <2>7, <2>8 DEF IndInv
<1> QED BY <1>5, <1>6, <1>7

-----------------------------------------------------------------------------
(***************************************************************************)
(* The initial state satisfies the invariant.                              *)
(***************************************************************************)
LEMMA InitInv == Init => IndInv
<1> SUFFICES ASSUME Init PROVE IndInv
  OBVIOUS
<1> USE DEF Init
<1>1. queue \in Seq(Commands) /\ Len(queue) = 0 /\ \A c \in Clients : Len(todo[c]) = 0
  OBVIOUS
<1>2. TypeOK
  <2>1. todo \in [Clients -> Seq(Commands)] /\ Len(queue) <= QueueLen
    BY <1>1
  <2> QED BY <1>1, <2>1 DEF TypeOK, Calls
<1>3. ClientOK
  <2>1. \A c \in Clients : call[c] = "none" /\ todo[c] = <<>> /\ arg[c] = NoTimer
    OBVIOUS
  <2>2. \A c \in Clients : \A i \in 1..Len(todo[c]) : FALSE
    BY <1>1
  <2> HIDE DEF Init
  <2> QED BY <2>1, <2>2 DEF ClientOK
<1>4. QueueOK /\ EventOK BY <1>1 DEF QueueOK, EventOK
<1>5. LiveOK /\ OffOK /\ QuietOK BY <1>1 DEF LiveOK, OffOK, QuietOK
<1> QED BY <1>2, <1>3, <1>4, <1>5 DEF IndInv

(***************************************************************************)
(* Every step keeps the invariant.                                         *)
(***************************************************************************)
LEMMA StepInv == IndInv /\ [Next]_vars => IndInv'
<1> SUFFICES ASSUME IndInv, [Next]_vars PROVE IndInv'
  OBVIOUS
<1>1. CASE UNCHANGED vars
  <2>1. UNCHANGED <<live, armed, queue, daemon, call, arg, todo, event, on, quiet>>
    BY <1>1 DEF vars, clientVars
  <2>2. TypeOK' /\ ClientOK' /\ QueueOK' BY <2>1 DEF IndInv, TypeOK, ClientOK, QueueOK
  <2>3. EventOK' /\ LiveOK' BY <2>1 DEF IndInv, EventOK, LiveOK
  <2>4. OffOK' /\ QuietOK' BY <2>1 DEF IndInv, OffOK, OffPending, QuietOK
  <2> QED BY <2>2, <2>3, <2>4 DEF IndInv
<1> QED BY <1>1, ClientStep, SendStep, ReturnStep, ProcessStep, OtherStep DEF Next

(***************************************************************************)
(* The invariant holds in every reachable state.                           *)
(***************************************************************************)
THEOREM Invariance == Spec => []IndInv
BY InitInv, StepInv, PTL DEF Spec

-----------------------------------------------------------------------------
\* The properties.

(***************************************************************************)
(* The types of the variables, in every reachable state: the daemon's      *)
(* queue is never overfull.                                                *)
(***************************************************************************)
THEOREM TypeCorrect == Spec => []TypeOK
<1>1. IndInv => TypeOK BY DEF IndInv
<1> QED BY <1>1, Invariance, PTL

(***************************************************************************)
(* The daemon does not know a timer that furi_timer_free has freed.        *)
(***************************************************************************)
THEOREM FreedStaysForgotten == Spec => []FreedIsForgotten
<1>1. IndInv => FreedIsForgotten
  BY DEF IndInv, LiveOK, QueueOK, FreedIsForgotten
<1> QED BY <1>1, Invariance, PTL

(***************************************************************************)
(* A timer that was stopped and then flushed is neither armed nor in its   *)
(* callback until the next start.                                          *)
(***************************************************************************)
THEOREM FlushedStaysSilent == Spec => []FlushedIsSilent
<1>1. IndInv => FlushedIsSilent
  BY DEF IndInv, QuietOK, FlushedIsSilent
<1> QED BY <1>1, Invariance, PTL

(***************************************************************************)
(* furi_timer_flush and furi_timer_free: when the event of the deferred    *)
(* call is set, all commands that the client has sent are processed.       *)
(***************************************************************************)
THEOREM FlushedIsProcessed ==
    Spec => [](\A c \in Clients :
                  event[c] => todo[c] = <<>> /\ \A i \in 1..Len(queue) : queue[i].from # c)
<1>1. IndInv => \A c \in Clients :
                   event[c] => todo[c] = <<>> /\ \A i \in 1..Len(queue) : queue[i].from # c
  BY DEF IndInv, EventOK
<1> QED BY <1>1, Invariance, PTL
===============================================================================
