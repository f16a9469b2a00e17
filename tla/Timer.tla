--------------------------------- MODULE Timer ---------------------------------
(***************************************************************************)
(* FuriTimer (furi/core/timer.c) over the timer service of FreeRTOS: a     *)
(* daemon with a bounded queue of commands, which also runs the callbacks  *)
(* of the timers that expire.  The daemon is modelled from what timer.c    *)
(* uses of it.  Time is left out: an armed timer may expire at any moment. *)
(*                                                                         *)
(* A timer is used by one client thread.  Callbacks do not call the        *)
(* timer API.                                                              *)
(***************************************************************************)
EXTENDS Naturals, Sequences

CONSTANTS
    Clients,  \* threads that own timers
    Timers,   \* memory for FuriTimer instances
    User,     \* [Timers -> Clients]
    Periodic, \* the timers of type FuriTimerTypePeriodic
    NoTimer,  \* the null pointer
    QueueLen  \* configTIMER_QUEUE_LENGTH

ASSUME TimerAssumption ==
    /\ User \in [Timers -> Clients]
    /\ Periodic \subseteq Timers
    /\ NoTimer \notin Timers
    /\ QueueLen \in Nat \ {0}

Commands == [cmd: {"change", "reset", "stop", "delete", "event"},
             timer: Timers \cup {NoTimer}, from: Clients]
Calls == {"none", "start", "restart", "stop", "flush", "free"}

VARIABLES
    live,   \* the timers that are allocated
    armed,  \* the timers in the daemon's list of active timers
    queue,  \* the daemon's queue of commands
    daemon, \* the timer whose callback the daemon runs, or NoTimer
    call,   \* the call a client is in ...
    arg,    \* ... and its timer
    todo,   \* the commands the call has still to send
    event,  \* TIMER_DELETED_EVENT of the client's flush
    on,     \* history: what the client of a timer has asked for last
    quiet   \* history: timers stopped and flushed since they were started

clientVars == <<call, arg, todo, event>>
vars == <<live, armed, queue, daemon, call, arg, todo, event, on, quiet>>

Init ==
    /\ live = {}
    /\ armed = {}
    /\ queue = <<>>
    /\ daemon = NoTimer
    /\ call = [c \in Clients |-> "none"]
    /\ arg = [c \in Clients |-> NoTimer]
    /\ todo = [c \in Clients |-> <<>>]
    /\ event = [c \in Clients |-> FALSE]
    /\ on = {}
    /\ quiet = {}

-----------------------------------------------------------------------------
\* The client.

\* furi_timer_alloc.
Alloc(t) ==
    /\ t \notin live
    /\ call[User[t]] = "none"
    /\ live' = live \cup {t}
    /\ quiet' = quiet \cup {t}
    /\ UNCHANGED <<armed, queue, daemon, clientVars, on>>

Call(c, name, t, commands) ==
    /\ call[c] = "none"
    /\ call' = [call EXCEPT ![c] = name]
    /\ arg' = [arg EXCEPT ![c] = t]
    /\ todo' = [todo EXCEPT ![c] =
                   [i \in 1..Len(commands) |->
                       [cmd |-> commands[i], timer |-> t, from |-> c]]]
    /\ event' = [event EXCEPT ![c] = FALSE]
    /\ UNCHANGED <<live, armed, queue, daemon>>

\* furi_timer_start: a change of the period starts the timer.
Start(t) ==
    /\ t \in live
    /\ Call(User[t], "start", t, <<"change">>)
    /\ on' = on \cup {t}
    /\ quiet' = quiet \ {t}

\* furi_timer_restart.
Restart(t) ==
    /\ t \in live
    /\ Call(User[t], "restart", t, <<"change", "reset">>)
    /\ on' = on \cup {t}
    /\ quiet' = quiet \ {t}

\* furi_timer_stop.
Stop(t) ==
    /\ t \in live
    /\ Call(User[t], "stop", t, <<"stop">>)
    /\ on' = on \ {t}
    /\ UNCHANGED quiet

\* furi_timer_flush: a deferred call that sets the event.
Flush(c) ==
    /\ Call(c, "flush", NoTimer, <<"event">>)
    /\ UNCHANGED <<on, quiet>>

\* furi_timer_free.
Free(t) ==
    /\ t \in live
    /\ Call(User[t], "free", t, <<"delete", "event">>)
    /\ on' = on \ {t}
    /\ UNCHANGED quiet

\* Mutant: the command overtakes the ones that wait, as xTimerPendFunctionCall
\* would with xQueueSendToFront.
SendToFront(c) ==
    /\ todo[c] # <<>>
    /\ Len(queue) < QueueLen
    /\ queue' = <<Head(todo[c])>> \o queue
    /\ todo' = [todo EXCEPT ![c] = Tail(@)]
    /\ UNCHANGED <<live, armed, daemon, call, arg, event, on, quiet>>

\* Mutant: a command is dropped when the queue is full.
SendOrDrop(c) ==
    /\ todo[c] # <<>>
    /\ queue' = IF Len(queue) < QueueLen
                THEN Append(queue, Head(todo[c])) ELSE queue
    /\ todo' = [todo EXCEPT ![c] = Tail(@)]
    /\ UNCHANGED <<live, armed, daemon, call, arg, event, on, quiet>>

\* A command is sent; the client waits for space in the queue (portMAX_DELAY).
Send(c) ==
    /\ todo[c] # <<>>
    /\ Len(queue) < QueueLen
    /\ queue' = Append(queue, Head(todo[c]))
    /\ todo' = [todo EXCEPT ![c] = Tail(@)]
    /\ UNCHANGED <<live, armed, daemon, call, arg, event, on, quiet>>

\* Mutant: the event is not waited for.
ReturnUnwaited(c) ==
    /\ call[c] # "none"
    /\ todo[c] = <<>>
    /\ live' = IF call[c] = "free" THEN live \ {arg[c]} ELSE live
    /\ quiet' = IF call[c] \in {"flush", "free"}
                THEN quiet \cup {t \in live : User[t] = c /\ t \notin on}
                ELSE quiet
    /\ call' = [call EXCEPT ![c] = "none"]
    /\ arg' = [arg EXCEPT ![c] = NoTimer]
    /\ UNCHANGED <<armed, queue, daemon, todo, event, on>>

\* The call returns: xEventGroupWaitBits in furi_timer_flush, and at the end of
\* furi_timer_free the memory is freed.
Return(c) ==
    /\ call[c] # "none"
    /\ todo[c] = <<>>
    /\ call[c] \in {"flush", "free"} => event[c]
    /\ live' = IF call[c] = "free" THEN live \ {arg[c]} ELSE live
    /\ quiet' = IF call[c] \in {"flush", "free"}
                THEN quiet \cup {t \in live : User[t] = c /\ t \notin on}
                ELSE quiet
    /\ call' = [call EXCEPT ![c] = "none"]
    /\ arg' = [arg EXCEPT ![c] = NoTimer]
    /\ UNCHANGED <<armed, queue, daemon, todo, event, on>>

-----------------------------------------------------------------------------
\* The daemon.

\* A command is taken from the queue.
Process ==
    /\ daemon = NoTimer
    /\ queue # <<>>
    /\ LET m == Head(queue) IN
       /\ armed' = CASE m.cmd \in {"change", "reset"} -> armed \cup {m.timer}
                     [] m.cmd \in {"stop", "delete"} -> armed \ {m.timer}
                     [] OTHER -> armed
       /\ event' = IF m.cmd = "event" THEN [event EXCEPT ![m.from] = TRUE]
                                      ELSE event
    /\ queue' = Tail(queue)
    /\ UNCHANGED <<live, daemon, call, arg, todo, on, quiet>>

\* A timer expires and its callback is called.
Expire(t) ==
    /\ daemon = NoTimer
    /\ t \in armed
    /\ armed' = IF t \in Periodic THEN armed ELSE armed \ {t}
    /\ daemon' = t
    /\ UNCHANGED <<live, queue, clientVars, on, quiet>>

\* furi_timer_callback returns.
CallbackReturn ==
    /\ daemon # NoTimer
    /\ daemon' = NoTimer
    /\ UNCHANGED <<live, armed, queue, clientVars, on, quiet>>

-----------------------------------------------------------------------------
Next ==
    \/ \E t \in Timers : \/ Alloc(t) \/ Start(t) \/ Restart(t) \/ Stop(t)
                         \/ Free(t) \/ Expire(t)
    \/ \E c \in Clients : Flush(c) \/ Send(c) \/ Return(c)
    \/ Process
    \/ CallbackReturn

Spec == Init /\ [][Next]_vars

(***************************************************************************)
(* Fairness.  Callbacks return, the daemon gets to its queue although      *)
(* timers keep expiring (strong fairness: it reads the whole queue after   *)
(* each expired timer), and clients that wait for space in the queue get   *)
(* it in turn.                                                             *)
(***************************************************************************)
FairSpec ==
    /\ Spec
    /\ WF_vars(CallbackReturn) /\ SF_vars(Process)
    /\ \A c \in Clients : SF_vars(Send(c)) /\ WF_vars(Return(c))

-----------------------------------------------------------------------------
\* Properties.

(***************************************************************************)
(* The type invariant.                                                     *)
(***************************************************************************)
TypeOK ==
    /\ live \subseteq Timers
    /\ armed \subseteq Timers
    /\ queue \in Seq(Commands) /\ Len(queue) <= QueueLen
    /\ daemon \in Timers \cup {NoTimer}
    /\ call \in [Clients -> Calls]
    /\ arg \in [Clients -> Timers \cup {NoTimer}]
    /\ todo \in [Clients -> Seq(Commands)]
    /\ event \in [Clients -> BOOLEAN]
    /\ on \subseteq Timers
    /\ quiet \subseteq Timers

(***************************************************************************)
(* The memory that furi_timer_free gives back is not in use any more: the  *)
(* daemon does not have the timer in its list, has no command for it and   *)
(* does not run its callback.                                              *)
(***************************************************************************)
FreedIsForgotten ==
    \A t \in Timers \ live :
        /\ t \notin armed
        /\ daemon # t
        /\ \A i \in 1..Len(queue) : queue[i].timer # t

(***************************************************************************)
(* furi_timer_flush "Ensures that all commands before this point was       *)
(* processed": a timer that was stopped before a flush is silent after it, *)
(* its callback has returned and is not called again until the next start. *)
(***************************************************************************)
FlushedIsSilent == \A t \in quiet : t \notin armed /\ daemon # t

(***************************************************************************)
(* furi_timer_free does not hang, however busy the daemon's queue is.      *)
(***************************************************************************)
FreeReturns == \A c \in Clients : call[c] = "free" ~> call[c] = "none"
=============================================================================
