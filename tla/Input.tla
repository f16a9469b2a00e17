--------------------------------- MODULE Input ---------------------------------
(***************************************************************************)
(* The input service (applications/services/input/input.c): a thread that  *)
(* samples and debounces the pins of the keys, a periodic timer per key    *)
(* whose callback, in the timer service, makes the Long and Repeat events, *)
(* and the events both of them publish.  The only subscriber is the GUI,   *)
(* whose callback puts the event into its queue and waits for space        *)
(* (gui_input_events_callback in applications/services/gui/gui.c).         *)
(*                                                                         *)
(* Time is left out: a sample or an expiry of an armed timer may come at   *)
(* any moment.  The timer service calls no callback while it processes a   *)
(* command, however late it is: furi_timer_start is xTimerChangePeriod,    *)
(* whose period begins when the command is processed.  One assumption on   *)
(* time remains: the thread, whose priority is the higher one, is in       *)
(* furi_pubsub_publish, whose mutex orders the events, before the timer    *)
(* that it has just started expires.  Left out as well are the sequence    *)
(* counters, the vibration, and the events of the command line and of      *)
(* remote sessions.                                                        *)
(***************************************************************************)
EXTENDS KeyEvents

CONSTANTS
    KeyOrder,      \* input_pins: the keys in the order they are sampled
    DebounceTicks, \* INPUT_DEBOUNCE_TICKS
    MaxEdges       \* bound: how often a pin goes to the pressed level

LongCounts == 2  \* INPUT_LONG_PRESS_COUNTS

ASSUME InputAssumption ==
    /\ KeyOrder \in Seq(Keys) \ {<<>>} /\ Keys = {KeyOrder[i] : i \in 1..Len(KeyOrder)}
    /\ DebounceTicks \in Nat \ {0} /\ MaxEdges \in Nat

VARIABLES
    pin,      \* the level of a key's pin, TRUE when pressed
    edges,    \* how often a pin went to TRUE
    flag,     \* INPUT_THREAD_FLAG_ISR
    at,       \* the key the thread samples, 0: it waits for the flag
    step,     \* what it is doing with that key
    changing, \* is_changing
    debounce, \* of a key
    state,    \* of a key, as published
    counter,  \* press_counter of a key
    pending,  \* the commands the timer service has not yet seen, per key
    armed,    \* the timers that run
    daemon    \* the event the timer service is publishing

timerVars == <<pending, armed, daemon>>
threadVars == <<flag, at, step, changing, debounce, state>>
inputVars == <<pin, edges, threadVars, counter, timerVars, eventVars>>

\* A key may be held when the service starts: its state is then TRUE at once,
\* without a Press and without its timer (GPIO_Read).
InputInit ==
    /\ pin \in [Keys -> BOOLEAN]
    /\ \A k \in Keys : pin[k] => k \in Held
    /\ edges = 0
    /\ flag = FALSE
    /\ at = 1
    /\ step = "sample"
    /\ changing = FALSE
    /\ debounce = [k \in Keys |-> DebounceTicks \div 2]
    /\ state = pin
    /\ counter = [k \in Keys |-> 0]
    /\ pending = [k \in Keys |-> <<>>]
    /\ armed = [k \in Keys |-> FALSE]
    /\ daemon = NoEvent
    /\ InitEvents
    /\ last = [k \in Keys |-> IF pin[k] THEN "Press" ELSE "Release"]

-----------------------------------------------------------------------------
\* The pins: every edge raises the interrupt, input_isr sets the flag.
Edge(k) ==
    /\ pin[k] \/ edges < MaxEdges
    /\ pin' = [pin EXCEPT ![k] = ~@]
    /\ edges' = IF pin[k] THEN edges ELSE edges + 1
    /\ flag' = TRUE
    /\ UNCHANGED <<at, step, changing, debounce, state, counter, timerVars, eventVars>>

-----------------------------------------------------------------------------
\* The thread.

Key == KeyOrder[at]

\* The next key, and after the last one furi_delay_tick or, with all keys
\* stable, furi_thread_flags_wait.
Advance(unstable) ==
    /\ at' = IF at < Len(KeyOrder) THEN at + 1 ELSE IF unstable THEN 1 ELSE 0
    /\ changing' = (unstable /\ at < Len(KeyOrder))
    /\ step' = "sample"

\* The flag is seen and cleared.
Wake ==
    /\ at = 0 /\ flag
    /\ flag' = FALSE
    /\ at' = 1
    /\ UNCHANGED <<pin, edges, step, changing, debounce, state, counter, timerVars,
                   eventVars>>

\* One round of the loop over the keys, up to a change of the key's state.
Sample ==
    /\ at # 0 /\ step = "sample"
    /\ LET d == IF pin[Key]
                THEN IF debounce[Key] < DebounceTicks THEN debounce[Key] + 1 ELSE debounce[Key]
                ELSE IF debounce[Key] > 0 THEN debounce[Key] - 1 ELSE 0
           between == d > 0 /\ d < DebounceTicks
       IN  /\ debounce' = [debounce EXCEPT ![Key] = d]
           /\ \/ /\ between \/ state[Key] = pin[Key]
                 /\ Advance(changing \/ between)
                 /\ UNCHANGED <<state, pending>>
              \/ /\ ~between /\ state[Key] # pin[Key]
                 /\ state' = [state EXCEPT ![Key] = pin[Key]]
                 /\ pending' = [pending EXCEPT ![Key] =
                                   Append(@, IF pin[Key] THEN "start" ELSE "stop")]
                 /\ step' = IF pin[Key] THEN "Press" ELSE "wait"
                 /\ UNCHANGED <<at, changing>>
    /\ UNCHANGED <<pin, edges, flag, counter, armed, daemon, eventVars>>

\* Mutant: the thread does not wait until the timer has stopped.
ReleaseUnwaited ==
    /\ step = "wait"
    /\ step' = IF counter[Key] < LongCounts THEN "Short" ELSE "Release"
    /\ counter' = [counter EXCEPT ![Key] = IF @ < LongCounts THEN @ ELSE 0]
    /\ UNCHANGED <<pin, edges, flag, at, changing, debounce, state, timerVars, eventVars>>

\* furi_timer_is_running is no longer true: the press was short or it was not.
WaitStopped ==
    /\ step = "wait"
    /\ ~armed[Key]
    /\ step' = IF counter[Key] < LongCounts THEN "Short" ELSE "Release"
    /\ counter' = [counter EXCEPT ![Key] = IF @ < LongCounts THEN @ ELSE 0]
    /\ UNCHANGED <<pin, edges, flag, at, changing, debounce, state, timerVars, eventVars>>

PublishShort ==
    /\ step = "Short"
    /\ Put(Key, "Short")
    /\ counter' = [counter EXCEPT ![Key] = 0]
    /\ step' = "Release"
    /\ UNCHANGED <<pin, edges, flag, at, changing, debounce, state, timerVars>>

PublishState ==
    /\ step \in {"Press", "Release"}
    /\ Put(Key, step)
    /\ Advance(changing)
    /\ UNCHANGED <<pin, edges, flag, debounce, state, counter, timerVars>>

-----------------------------------------------------------------------------
\* The timer service.

\* All commands that wait are processed before a timer can expire.
Process(k) ==
    /\ daemon = NoEvent
    /\ pending[k] # <<>>
    /\ armed' = [armed EXCEPT ![k] = (pending[k][Len(pending[k])] = "start")]
    /\ pending' = [pending EXCEPT ![k] = <<>>]
    /\ UNCHANGED <<pin, edges, threadVars, counter, daemon, eventVars>>

\* input_press_timer_callback.
Tick(k) ==
    /\ daemon = NoEvent
    /\ armed[k]
    /\ ~(at # 0 /\ Key = k /\ step = "Press")
    /\ counter' = [counter EXCEPT ![k] = IF @ < LongCounts THEN @ + 1 ELSE @]
    /\ daemon' = IF counter[k] + 1 = LongCounts THEN [key |-> k, type |-> "Long"]
                 ELSE IF counter[k] + 1 > LongCounts THEN [key |-> k, type |-> "Repeat"]
                 ELSE NoEvent
    /\ UNCHANGED <<pin, edges, threadVars, pending, armed, eventVars>>

\* The event of the callback, which waits for space in the timer service.
PublishTick ==
    /\ daemon # NoEvent
    /\ Put(daemon.key, daemon.type)
    /\ daemon' = NoEvent
    /\ UNCHANGED <<pin, edges, threadVars, counter, pending, armed>>

\* gui_srv takes an event.
GuiTakes == Take /\ UNCHANGED <<pin, edges, threadVars, counter, timerVars>>

\* The service itself, without its reader.
ServiceNext ==
    \/ \E k \in Keys : Edge(k) \/ Process(k) \/ Tick(k)
    \/ Wake \/ Sample \/ WaitStopped \/ PublishShort \/ PublishState \/ PublishTick

InputNext == ServiceNext \/ GuiTakes

\* The threads and the timer service are scheduled, and a user lets go of a
\* key in the end.
InputFair ==
    /\ WF_inputVars(Wake \/ Sample \/ WaitStopped)
    /\ SF_inputVars(PublishShort \/ PublishState)
    /\ SF_inputVars(PublishTick)
    /\ WF_inputVars(GuiTakes)
    /\ \A k \in Keys : SF_inputVars(Process(k)) /\ WF_inputVars(pin[k] /\ Edge(k))

InputSpec == InputInit /\ [][InputNext]_inputVars /\ InputFair

-----------------------------------------------------------------------------
(***************************************************************************)
(* The events of every key come in their order, and every press comes to   *)
(* its end: the timer's events, published by another thread, never         *)
(* overtake the thread's, no press is left without either Short or Long,   *)
(* however late the timer service sees its commands, and the thread never  *)
(* waits for the timer, or with a change unseen, forever.                  *)
(***************************************************************************)
Implements == SpecEvents

(***************************************************************************)
(* A press counts its own time: when its Press goes out nothing is left in *)
(* press_counter, which the timer service counts up and the thread resets  *)
(* without a lock, of the press before it.                                 *)
(***************************************************************************)
PressIsFresh == at # 0 /\ step = "Press" => counter[Key] = 0
=============================================================================
