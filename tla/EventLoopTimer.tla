---------------------------- MODULE EventLoopTimer ----------------------------
(***************************************************************************)
(* The timers and the tick of FuriEventLoop (furi/core/event_loop_timer.c  *)
(* and event_loop_tick.c), as the loop of furi/core/event_loop.c uses      *)
(* them.                                                                   *)
(*                                                                         *)
(* Everything here runs on the loop's thread except time: the kernel's     *)
(* tick interrupt advances the clock between any two steps.  The code      *)
(* reads the clock as a 32 bit counter that wraps around; the model keeps  *)
(* the absolute time and the code sees it modulo Modulus.                  *)
(***************************************************************************)
EXTENDS Integers, Sequences, FiniteSets, SequencesExt

CONSTANTS
    Timers,      \* the timer objects of one loop
    Periodic,    \* those allocated with FuriEventLoopTimerTypePeriodic
    Modulus,     \* 2^w: the range of TickType_t
    Intervals,   \* the intervals clients pass to furi_event_loop_timer_start
    OtherEvents, \* whether the loop has subscriptions besides the timers
    TickIntervals,\* the arguments of furi_event_loop_tick_set, 0: no callback
    MaxLate,     \* bound: how many ticks late a callback may be served, and
                 \* how many may pass while the loop is about to block
    StartClock,  \* the absolute time at which the model starts
    MaxClock,    \* bound: the absolute time at which the model's clock stops
    MaxStops     \* bound: completed calls of furi_event_loop_run

(***************************************************************************)
(* No interval together with the latency of the loop may span the whole    *)
(* range of the clock, or an expired timer would look unexpired again.     *)
(***************************************************************************)
ASSUME ClockAssumption ==
    /\ Modulus \in Nat \ {0}
    /\ MaxLate \in Nat
    /\ Intervals \subseteq Nat
    /\ TickIntervals \subseteq Nat
    /\ \A i \in Intervals \cup TickIntervals : i + MaxLate < Modulus
    /\ OtherEvents \in BOOLEAN
    /\ StartClock \in Nat /\ MaxClock \in Nat /\ MaxStops \in Nat

ASSUME TimersAssumption == Periodic \subseteq Timers

VARIABLES
    clock,    \* absolute time
    tm,       \* the fields of each timer
    list,     \* timer_list, the timers that run, by time of expiry
    queue,    \* timer_queue, the timers with a request
    tick,     \* the tick: its interval and prev_time
    flag,     \* FuriEventLoopFlagTimer in the thread's notification
    stop,     \* FuriEventLoopFlagStop
    pc,       \* where the loop's thread is
    wait,     \* ticks_to_sleep, a number of ticks
    wake,     \* absolute time at which the wait in progress times out
    stops,    \* times furi_event_loop_run has returned
    deadline, \* history: absolute time at which a running timer expires
    asked,    \* history: a start is the last request of a client
    lag       \* history: ticks that passed between the reading of the clock
              \* for the wait in progress and its beginning

sleepVars == <<wait, wake, lag>>
loopVars == <<flag, stop, pc, sleepVars, stops>>
timerVars == <<tm, list, queue>>
vars == <<clock, timerVars, tick, loopVars, deadline, asked>>

Never == -1
Requests == {"None", "Start", "Stop", "Free"}
Pcs == {"idle", "head", "wait", "sleep", "blocked", "queue", "tcb", "kcb", "ecb"}
UserPcs == {"idle", "tcb", "kcb", "ecb"}
NewTimer == [alloc |-> TRUE, active |-> FALSE, interval |-> 0, start |-> 0,
             next |-> 0, request |-> "None"]

Init ==
    /\ clock = StartClock
    /\ tm = [t \in Timers |-> NewTimer]
    /\ list = <<>>
    /\ queue = <<>>
    /\ tick = [interval |-> 0, prev |-> 0]
    /\ flag = FALSE
    /\ stop = FALSE
    /\ pc = "idle"
    /\ wait = 0
    /\ wake = 0
    /\ stops = 0
    /\ deadline = [t \in Timers |-> Never]
    /\ asked = [t \in Timers |-> FALSE]
    /\ lag = 0

-----------------------------------------------------------------------------
\* xTaskGetTickCount.
Now == clock % Modulus

\* Mutant: the current tick is counted in.
ElapsedEarly(x) == (Now - x.start + 1) % Modulus

\* furi_event_loop_timer_get_elapsed_time.
Elapsed(x) == (Now - x.start) % Modulus

\* furi_event_loop_timer_get_remaining_time_private.
Remaining(x) ==
    IF Elapsed(x) < x.interval THEN x.interval - Elapsed(x) ELSE 0

\* furi_event_loop_timer_is_expired.
IsExpired(x) == Elapsed(x) >= x.interval

\* furi_event_loop_tick_get_elapsed_time.
TickElapsed == (Now - tick.prev) % Modulus

\* furi_event_loop_tick_get_remaining_time.
TickRemaining ==
    IF TickElapsed < tick.interval THEN tick.interval - TickElapsed ELSE 0

\* The list without timer t: TimerList_unlink and TimerQueue_unlink.
Unlinked(s, t) ==
    IF t \in ToSet(s) THEN RemoveAt(s, CHOOSE i \in 1..Len(s) : s[i] = t) ELSE s

\* Mutant: a timer goes to the front of the list.
ScheduleFront(s, f, t) == <<t>> \o s

\* furi_event_loop_schedule_timer: timer t with the fields f[t] is inserted
\* behind the last timer of the list s that expires no later.
Schedule(s, f, t) ==
    LET before == {i \in 1..Len(s) : Remaining(f[s[i]]) <= Remaining(f[t])}
        k == IF before = {} THEN 0
             ELSE CHOOSE i \in before : \A j \in before : j <= i
    IN  InsertAt(s, k + 1, t)

\* FuriWaitForever: later than the model's clock ever gets.
Forever == MaxClock + 1
Smaller(a, b) == IF a <= b THEN a ELSE b

\* Mutant: the whole interval is waited for.
TimerWaitInterval == IF list = <<>> THEN Forever ELSE tm[Head(list)].interval

\* furi_event_loop_get_timer_wait_time and furi_event_loop_get_tick_wait_time.
TimerWait == IF list = <<>> THEN Forever ELSE Remaining(tm[Head(list)])
TickWait == IF tick.interval = 0 THEN Forever ELSE TickRemaining

\* The loop computes its wait time but does not wait yet.
Reading == pc \in {"wait", "sleep"}

\* The wait is over.
Awake == wake' = 0 /\ lag' = 0 /\ UNCHANGED wait

-----------------------------------------------------------------------------
\* The environment: the tick interrupt.  The loop is never later than MaxLate
\* with a running timer or the tick, nor with blocking once it has begun to
\* compute its wait time; that wait ends within the time of the model.
Advance ==
    /\ clock < MaxClock
    /\ Reading => lag < MaxLate /\ (wait = Forever \/ clock + wait < MaxClock)
    /\ \A t \in Timers : deadline[t] # Never => clock < deadline[t] + MaxLate
    /\ tick.interval # 0 => TickElapsed < tick.interval + MaxLate
    /\ clock' = clock + 1
    /\ lag' = IF Reading THEN lag + 1 ELSE lag
    /\ UNCHANGED <<timerVars, tick, flag, stop, pc, wait, wake, stops, deadline,
                   asked>>

-----------------------------------------------------------------------------
\* The client's calls, in a callback or outside the run.

\* Mutant: a request that waits already is not taken out of the queue.
EnqueueTwice(t, r, f) ==
    /\ tm' = [f EXCEPT ![t].request = r]
    /\ queue' = Append(queue, t)
    /\ flag' = TRUE

\* furi_event_loop_timer_enqueue_request: a later request replaces the one
\* that waits; nothing may follow a free.
Enqueue(t, r, f) ==
    /\ tm[t].alloc /\ tm[t].request # "Free"
    /\ tm' = [f EXCEPT ![t].request = r]
    /\ queue' = Append(Unlinked(queue, t), t)
    /\ flag' = TRUE

\* furi_event_loop_timer_start.
TimerStart(t, i) ==
    /\ pc \in UserPcs
    /\ Enqueue(t, "Start", [tm EXCEPT ![t].next = i])
    /\ asked' = [asked EXCEPT ![t] = TRUE]
    /\ UNCHANGED <<clock, list, tick, stop, pc, sleepVars, stops, deadline>>

\* furi_event_loop_timer_restart.  The interval is the one of the last start
\* that was processed: zero if there was none.
TimerRestart(t) ==
    /\ pc \in UserPcs
    /\ Enqueue(t, "Start", [tm EXCEPT ![t].next = tm[t].interval])
    /\ asked' = [asked EXCEPT ![t] = TRUE]
    /\ UNCHANGED <<clock, list, tick, stop, pc, sleepVars, stops, deadline>>

\* furi_event_loop_timer_stop.
TimerStop(t) ==
    /\ pc \in UserPcs
    /\ Enqueue(t, "Stop", tm)
    /\ asked' = [asked EXCEPT ![t] = FALSE]
    /\ UNCHANGED <<clock, list, tick, stop, pc, sleepVars, stops, deadline>>

\* furi_event_loop_timer_free.
TimerFree(t) ==
    /\ pc \in UserPcs
    /\ Enqueue(t, "Free", tm)
    /\ asked' = [asked EXCEPT ![t] = FALSE]
    /\ UNCHANGED <<clock, list, tick, stop, pc, sleepVars, stops, deadline>>

\* furi_event_loop_timer_alloc, into the memory of a timer that was freed.
TimerAlloc(t) ==
    /\ pc \in UserPcs
    /\ ~tm[t].alloc
    /\ tm' = [tm EXCEPT ![t] = NewTimer]
    /\ UNCHANGED <<clock, list, queue, tick, loopVars, deadline, asked>>

\* furi_event_loop_tick_set, of an interval or of no callback.
TickSet(i) ==
    /\ pc \in UserPcs
    /\ tick' = [interval |-> i, prev |-> Now]
    /\ UNCHANGED <<clock, timerVars, loopVars, deadline, asked>>

\* furi_event_loop_stop.
StopLoop ==
    /\ pc \in UserPcs
    /\ stops < MaxStops
    /\ stop' = TRUE
    /\ UNCHANGED <<clock, timerVars, tick, flag, pc, sleepVars, stops, deadline, asked>>

-----------------------------------------------------------------------------
\* The loop.

\* furi_event_loop_run is entered: furi_event_loop_init_tick.
Run ==
    /\ pc = "idle"
    /\ stops <= MaxStops
    /\ tick' = IF tick.interval = 0 THEN tick ELSE [tick EXCEPT !.prev = Now]
    /\ pc' = "head"
    /\ UNCHANGED <<clock, timerVars, flag, stop, sleepVars, stops, deadline, asked>>

\* The wait time of the timers is read.
ReadTimers ==
    /\ pc = "head"
    /\ wait' = TimerWait
    /\ pc' = "wait"
    /\ UNCHANGED <<clock, timerVars, tick, flag, stop, wake, stops, deadline,
                   asked, lag>>

\* That of the tick is read: ticks_to_sleep is the smaller one.
ReadTick ==
    /\ pc = "wait"
    /\ wait' = Smaller(wait, TickWait)
    /\ pc' = "sleep"
    /\ UNCHANGED <<clock, timerVars, tick, flag, stop, wake, stops, deadline,
                   asked, lag>>

\* xTaskNotifyWaitIndexed: the thread blocks for that long from now on.
Block ==
    /\ pc = "sleep"
    /\ wake' = clock + wait
    /\ wait' = 0
    /\ pc' = "blocked"
    /\ UNCHANGED <<clock, timerVars, tick, flag, stop, stops, deadline, asked, lag>>

\* The Stop branch: the Timer flag is taken along with it and lost.
TakeStop ==
    /\ pc = "blocked"
    /\ stop
    /\ stop' = FALSE
    /\ flag' = FALSE
    /\ stops' = stops + 1
    /\ pc' = "idle"
    /\ Awake
    /\ UNCHANGED <<clock, timerVars, tick, deadline, asked>>

\* The Event branch: the callback of a subscription; the Timer flag is kept.
OtherEvent ==
    /\ pc = "blocked"
    /\ OtherEvents
    /\ ~stop
    /\ pc' = "ecb"
    /\ Awake
    /\ UNCHANGED <<clock, timerVars, tick, flag, stop, stops, deadline, asked>>

\* The Timer branch: furi_event_loop_process_timer_queue begins.
TakeTimer ==
    /\ pc = "blocked"
    /\ ~stop
    /\ flag
    /\ flag' = FALSE
    /\ pc' = "queue"
    /\ Awake
    /\ UNCHANGED <<clock, timerVars, tick, stop, stops, deadline, asked>>

\* One iteration of furi_event_loop_process_timer_queue.
ProcessRequest ==
    /\ pc = "queue"
    /\ queue # <<>>
    /\ LET t == Head(queue)
           rest == IF tm[t].active THEN Unlinked(list, t) ELSE list
           started == [tm EXCEPT ![t] = [@ EXCEPT !.active = TRUE,
                                                  !.interval = tm[t].next,
                                                  !.start = Now,
                                                  !.request = "None"]]
       IN  \/ /\ tm[t].request = "Start"
              /\ tm' = started
              /\ list' = Schedule(rest, started, t)
              /\ deadline' = [deadline EXCEPT ![t] = clock + tm[t].next]
           \/ /\ tm[t].request = "Stop"
              /\ tm' = [tm EXCEPT ![t] = [@ EXCEPT !.active = FALSE,
                                                   !.request = "None"]]
              /\ list' = rest
              /\ deadline' = [deadline EXCEPT ![t] = Never]
           \/ /\ tm[t].request = "Free"
              /\ tm' = [tm EXCEPT ![t] = [NewTimer EXCEPT !.alloc = FALSE]]
              /\ list' = rest
              /\ deadline' = [deadline EXCEPT ![t] = Never]
    /\ queue' = Tail(queue)
    /\ UNCHANGED <<clock, tick, loopVars, asked>>

\* The queue is empty: around the loop.
QueueDone ==
    /\ pc = "queue"
    /\ queue = <<>>
    /\ pc' = "head"
    /\ UNCHANGED <<clock, timerVars, tick, flag, stop, sleepVars, stops, deadline, asked>>

\* Mutant: an expired timer goes before the requests that wait.
TimedOutAnyway == pc = "blocked" /\ ~stop /\ clock >= wake

\* xTaskNotifyWaitIndexed returns without a notification.
TimedOut == pc = "blocked" /\ ~stop /\ ~flag /\ clock >= wake

FrontExpired == list # <<>> /\ IsExpired(tm[Head(list)])

\* Mutant: a periodic timer catches up one period at a time.
NextStartOnePeriod(x) == (x.start + x.interval) % Modulus

\* The new start_time of a periodic timer: it skips the periods it missed.
\* (The division by an interval of zero yields zero on this processor.)
NextStart(x) ==
    (x.start + (IF x.interval = 0 THEN 0
                ELSE x.interval * (Elapsed(x) \div x.interval))) % Modulus

\* The next deadline of a periodic timer, in absolute time: the first one in
\* its series that lies in the future.
NextDeadline(t) ==
    IF tm[t].interval = 0 THEN clock
    ELSE CHOOSE d \in (clock + 1)..(clock + tm[t].interval) :
             (d - deadline[t]) % tm[t].interval = 0

\* furi_event_loop_process_expired_timers: the front timer has expired.  Its
\* callback is entered after it has been rescheduled or switched off.
FireTimer ==
    /\ TimedOut
    /\ FrontExpired
    /\ LET t == Head(list)
           again == [tm EXCEPT ![t].start = NextStart(tm[t])]
       IN  IF t \in Periodic
           THEN /\ tm' = again
                /\ list' = Schedule(Tail(list), again, t)
                /\ deadline' = [deadline EXCEPT ![t] = NextDeadline(t)]
           ELSE /\ tm' = [tm EXCEPT ![t].active = FALSE]
                /\ list' = Tail(list)
                /\ deadline' = [deadline EXCEPT ![t] = Never]
    /\ pc' = "tcb"
    /\ Awake
    /\ UNCHANGED <<clock, queue, tick, flag, stop, stops, asked>>

\* furi_event_loop_process_tick.
FireTick ==
    /\ TimedOut
    /\ ~FrontExpired
    /\ IF tick.interval # 0 /\ TickElapsed >= tick.interval
       THEN /\ tick' = [tick EXCEPT !.prev = (@ + tick.interval) % Modulus]
            /\ pc' = "kcb"
       ELSE UNCHANGED tick /\ pc' = "head"
    /\ Awake
    /\ UNCHANGED <<clock, timerVars, flag, stop, stops, deadline, asked>>

\* A callback returns.
Return ==
    /\ pc \in {"tcb", "kcb", "ecb"}
    /\ pc' = "head"
    /\ UNCHANGED <<clock, timerVars, tick, flag, stop, sleepVars, stops, deadline, asked>>

-----------------------------------------------------------------------------
Client ==
    \/ \E t \in Timers : \/ \E i \in Intervals : TimerStart(t, i)
                         \/ TimerRestart(t) \/ TimerStop(t) \/ TimerFree(t)
                         \/ TimerAlloc(t)
    \/ \E i \in TickIntervals : TickSet(i)
    \/ StopLoop
    \/ Run

LoopStep ==
    \/ ReadTimers \/ ReadTick \/ Block \/ TakeStop \/ TakeTimer \/ ProcessRequest \/ QueueDone
    \/ FireTimer \/ FireTick

Next == Advance \/ OtherEvent \/ Client \/ LoopStep \/ Return

Spec == Init /\ [][Next]_vars

(***************************************************************************)
(* The loop's thread is scheduled, a callback returns although it may make *)
(* calls of its own first, and time passes: a timer may expire before the  *)
(* loop blocks, and is then waited for.                                    *)
(***************************************************************************)
Fairness == WF_vars(LoopStep) /\ SF_vars(Return) /\ WF_vars(Advance)

FairSpec == Spec /\ Fairness

-----------------------------------------------------------------------------
\* Properties.

(***************************************************************************)
(* The type invariant.                                                     *)
(***************************************************************************)
TypeOK ==
    /\ clock \in Nat
    /\ tm \in [Timers -> [alloc: BOOLEAN, active: BOOLEAN, interval: Nat,
                          start: 0..(Modulus - 1), next: Nat,
                          request: Requests]]
    /\ list \in Seq(Timers)
    /\ queue \in Seq(Timers)
    /\ tick \in [interval: Nat, prev: 0..(Modulus - 1)]
    /\ flag \in BOOLEAN /\ stop \in BOOLEAN
    /\ pc \in Pcs
    /\ wait \in Nat /\ wake \in Nat /\ lag \in Nat /\ stops \in Nat
    /\ deadline \in [Timers -> Nat \cup {Never}]
    /\ asked \in [Timers -> BOOLEAN]

(***************************************************************************)
(* The two intrusive lists: a timer is in timer_list exactly when it is    *)
(* active and in timer_queue exactly when it has a request, once, however  *)
(* its requests overtake each other and whatever its callback did to it.   *)
(* Otherwise TimerList_unlink would corrupt a list or free(timer) leave a  *)
(* dangling node.                                                          *)
(***************************************************************************)
ListsMatchTimers ==
    /\ IsInjective(list) /\ IsInjective(queue)
    /\ \A t \in Timers :
         /\ tm[t].active <=> t \in ToSet(list)
         /\ tm[t].request # "None" <=> t \in ToSet(queue)

(***************************************************************************)
(* The wrapping start times mean the absolute ones: a running timer        *)
(* expires exactly one interval after its start, and a periodic one stays  *)
(* in phase with its first start however late it is served.                *)
(***************************************************************************)
PhaseKept ==
    \A t \in Timers :
        /\ tm[t].active <=> deadline[t] # Never
        /\ tm[t].active /\ tm[t].interval # 0 =>
               (tm[t].start + tm[t].interval) % Modulus
                   = deadline[t] % Modulus

(***************************************************************************)
(* The loop computes a number of ticks, from two readings of the clock,    *)
(* and blocks for that long afterwards.  It sleeps past a deadline by no   *)
(* more than the ticks that come in between: while its wait has not timed  *)
(* out no running timer and no tick is later than that, and none is late   *)
(* at all if no tick comes in between.                                     *)
(***************************************************************************)
OversleepBounded ==
    pc = "blocked" /\ clock < wake =>
        /\ \A t \in Timers : deadline[t] # Never => clock < deadline[t] + lag
        /\ tick.interval # 0 => TickElapsed < tick.interval + lag

(***************************************************************************)
(* A callback is never called before its time, although the code compares  *)
(* clock values that wrap around.                                          *)
(***************************************************************************)
NeverEarly ==
    [][FireTimer => deadline[Head(list)] <= clock]_vars

(***************************************************************************)
(* "Stop a timer without firing its callback": after a stop or a free has  *)
(* been requested the callback is not called until the next start, though  *)
(* the request only waits in the queue (up to the first stop of the loop). *)
(***************************************************************************)
StoppedIsSilent ==
    [][stops = 0 /\ FireTimer => asked[Head(list)]]_vars

(***************************************************************************)
(* Every timer that has expired gets its callback or is stopped, unless    *)
(* the loop is, or other events never cease (they go first): no timer is   *)
(* starved by others that expire more often, not even by a periodic timer  *)
(* of interval zero, which has always expired.                             *)
(***************************************************************************)
ExpiredIsServed ==
    <>[](pc # "ecb") =>
        \A t \in Timers :
            deadline[t] \in 0..clock /\ pc # "idle"
                ~> \/ deadline[t] \notin 0..clock \/ tm[t].interval = 0
                   \/ pc = "idle"
=============================================================================
