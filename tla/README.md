# Verification of the Furi core and of the way of a key

TLA+ modules for the core of the firmware, `furi/core` (the event loop and the
primitives it polls, threads and thread flags, the record storage, the
publisher-subscriber, the timers and the heap), and for the way of a key from its
pin through the input service, the GUI and the view dispatcher to an application.
Every application and every service of the firmware is built on the core, it is
where its concurrency lives, and little of it can be reached by the unit tests
under `applications/debug/unit_tests`, which exercise it one call at a time. The
way of a key is where four threads and three queues have to agree.

All paths below are relative to the root of the repository. `PROJECT.json` maps
every definition that models code to the lines it models.

## 1. Inventory

### Components, their state and their operations

| Component | State | Operations | Module |
|---|---|---|---|
| Event loop, `furi/core/event_loop.c` | tree of items, waiting list, current item, pending queue, notification flags of its thread (`Event`, `Stop`, `Timer`, `Pending`, `ThreadFlag`) | subscribe (five kinds of objects), unsubscribe, run, stop, pend_callback, subscribe/unsubscribe thread flags, link_notify, free | `EventLoop` |
| Primitives, `message_queue.c`, `semaphore.c`, `mutex.c`, `event_flag.c`, `stream_buffer.c` | a level (messages, count, bytes, bits), the owner of a mutex, the link to an event loop | put/get/reset, release/acquire, send/receive/reset, set/clear/wait | `EventLoop` |
| Event loop timers and tick, `event_loop_timer.c`, `event_loop_tick.c` | per timer: interval, start time, next interval, request, active; ordered list, request queue; tick interval and previous time | alloc, start, restart, stop, free, process queue, process expired, tick set, process tick | `EventLoopTimer` |
| Threads, `thread.c` | state, kernel task in the instance's memory, local storage, state callback; the scrubber's queue | alloc, start, body, join, free, scrub | `Thread` |
| Thread flags, `thread.c` | notification value and pending mark of a task | set, clear, get, wait | `ThreadFlags` |
| Records, `record.c` | dictionary of name -> pointer, ready flag, holders | create, destroy, open, close | `Record`, `RecordSpec` |
| Publisher-subscriber, `pubsub.c` | list of subscriptions under a mutex | alloc, free, subscribe, unsubscribe, publish | `PubSub`, `Broadcast` |
| Timers, `timer.c` | the FreeRTOS timer service: active timers, command queue | alloc, start, restart, stop, flush, free | `Timer` |
| Memory manager, `memmgr.c`, `memmgr_heap.c` | ordered free list of blocks, block headers, bytes left, per-thread trace in dictionaries that live in the same heap | malloc with splitting, realloc, free with coalescing, enable and disable the trace | `Heap`, `Allocator` |
| Input service, `applications/services/input/input.c` | per key: debounce counter, state, press counter, press timer; the interrupt's flag | sample, publish Press, Short, Release; the timer's Long and Repeat | `KeyEvents`, `Input`, `KeyPath` |
| Input of the GUI, view port, view dispatcher, `applications/services/gui/gui.c`, `view_port.c`, `view_dispatcher.c` | keys held and the view port they belong to; orientation and enabled flag of the port; the dispatcher's queue, keys held, the view they belong to, current view | gui_input, input callback, handle_input, switch_to_view, show_loading, stop, the drain, remove_view, free | `KeyEvents`, `ViewDispatcher`, `KeyPath` |
| Other services, `applications/services/*` | storage, loader, RPC, expansion, power, Bluetooth, command line, notification and others | see the plan | planned or left out |
| Protocol libraries, toolbox, HAL, updater, applications, vendored code | | | left out, section 8 |

### How they interact

* A **primitive** is used by any thread or interrupt handler. After the kernel
  call that changes it, the primitive calls `furi_event_loop_link_notify`, which
  puts the item of a subscription into the loop's waiting list and sets the
  `Event` flag in the notification of the loop's thread (index 2).
* The **event loop** waits for that notification, takes *all* flags at once,
  handles the one of highest priority (`Stop`, `Event`, `Timer`, `Pending`,
  `ThreadFlag`) and puts the others back. When the wait times out it serves one
  expired timer, or else the tick.
* **Timers of the loop** only enqueue requests and set the `Timer` flag; the
  request is carried out by the loop.
* `furi_thread_flags_set` changes the notification of a thread (index 1) and
  then tells the event loop of that thread.
* A **thread** that ends sends itself to the **scrubber**, which runs in the init
  thread, deletes the kernel task and sets the state that `furi_thread_join`
  polls for.
* **Records** are how services find each other: `furi_record_open` waits on an
  event flag until the record has been created.
* **PubSub** callbacks run in the publisher's thread, under the mutex.
* **FuriTimer** callbacks run in the timer service; start, stop and free are
  commands in its queue.
* The **heap** is used by all threads. It suspends the scheduler for its work on
  the list, and calls itself for the dictionaries of its trace.
* A **key**'s pin raises an interrupt that sets a flag of the input thread, which
  samples all pins until they are stable. The thread starts and stops a timer per
  key; both it and the timer service publish events, whose only subscriber that
  matters here puts them into the **GUI**'s queue and waits for space. The GUI,
  holding its mutex, finds the view port, maps the key to its orientation and
  waits for space in the queue of the **view dispatcher**, which finds the view.
  A Release goes where the Press went, on both levels.

### What is hard in it

Lost wake-ups between a change, its notification and a loop that is about to
sleep; items freed from their own callback; one wait that takes several flags;
clocks that wrap around; requests that overtake each other; an instance touched
by three threads while it is being released; a notification mark that is not the
value; references used after the lock that protected them was released; locks
held during callbacks; a command queue that is full; an allocator that calls
itself in the middle of its own work; events of one key from two threads; a queue
that is emptied, a screen that is turned or a view that is left while a key is on
its way; threads that wait for each other's queues. `PROJECT.json` lists these
hazards at the lines where they bite, with the properties that cover them.

### What makes each component correct

* Event loop: no wake-up is lost (level, edge, timers, deferred calls, thread
  flags), no freed item is in the waiting list or put back into it, no
  subscription starves, deferred calls come after the timer requests before them.
* Event loop timers: the two intrusive lists match the timers, the front of the
  list expires first, a timer is neither early nor out of phase across the wrap-around,
  the loop oversleeps by no more than what passes between its reading of the clock
  and its wait, a stopped timer is silent, no timer starves.
* Threads: the instance outlives everything that refers to it, the `furi_check`s
  on its state hold, a join returns, and not before the thread has ended; all of
  this but for one late read of the scrubber (section 7).
* Thread flags: no flag is lost but those the code gives up, no wait blocks on a flag
  that is set unless an earlier wait has consumed its mark, no wait exceeds its
  timeout, a wait for such a flag returns.
* Records: entries and pointers stay valid while they are held, counters are
  right, everyone who asked gets the record.
* PubSub: a node is not removed under the iterator, no callback after an
  unsubscribe has returned, every message reaches everyone once, calls return.
* Timers: freed memory is forgotten by the service, a flushed stop is a stop,
  free returns.
* Heap: no memory is handed out twice or lost, free memory is not fragmented, the
  count of bytes is right, the trace neither loses nor shares its nodes, a block is
  large enough and stays where it is until its owner frees it, and an allocation
  fails only when there is no room.
* Input service: the events of a key come in their order, every press comes to its
  end, and none inherits the time of the press before it.
* View dispatcher: a key that is counted owns a Release that is still to come, a
  view that saw a Press will see the Release, an application that was told to stop
  gets to its end; all of this as long as the mapping of the keys does not change while one
  is on its way (section 7).

## 2. Modules

Each module has its state as VARIABLES, `Init`, one action per operation or
step, `Next`, `Spec`, `FairSpec` where liveness is checked, and its properties.
Definitions whose comment begins with "Mutant:" are wrong variants of the
definition that follows them: each is a plausible bug, and the property it is
paired with in `PROJECT.json` fails when it replaces the real one.

### EventLoop

`pc` is where the loop's thread is: outside the run (`idle`), about to wait
(`wait`), in `process_waiting_list` (`pop`, `enter`, `cb`, `renotify`, `sync`),
before `restore_flags` (`restore`), in the deferred calls (`pending`, `pcb`), in
the thread flags callback (`tcb`), in a timer's or the tick's callback (`ucb`).
In the callback states and in `idle` the client's code runs and may call any
operation, on any object, any number of times.

A primitive's operation is two steps: the kernel call (`Put`, `Take`, `Reset`)
and later `Notify`, which is one critical section of `furi_event_loop_link_notify`;
`busy[a]` is what actor `a` still owes. `furi_stream_buffer_send` has a third
step, `CheckTrigger`, since it counts the bytes again. `furi_event_flag_set` and
`_clear` notify inside their own critical section, so they are one step. In an
interrupt handler they only pass the change on to the timer service
(`FlagSetFromISR`, then `LateChange`) while the notification is immediate.

An item is represented by its object: an object has at most one item, and
`sub[o]` holds the item's event word. `cur.live` is `item->owner != NULL` for the
current item: an item that its own callback unsubscribes stays allocated until
the callback returns (`FreeLater`), and a new subscription of the same object
from the same callback is a new item.

The level of an object is a count up to its capacity. Timer requests are only
counted here; what they do is `EventLoopTimer`'s business. History variables:
`edgeDue` (edges not delivered yet), `tflagDue` (a thread flag not delivered yet)
and `deferred` (event flags that a handler has changed).

### EventLoopTimer

The same loop seen from its timers. `clock` is absolute time, advanced by the
tick interrupt between any two steps; the code only sees `clock % Modulus`.
The loop reads the wait time of the timers (`ReadTimers`), then that of the tick
(`ReadTick`), and blocks for the smaller one, a number of ticks (`Block`): what passes
in between is not taken off the wait. `lag` is history and counts it.
`deadline` and `asked` are history: when a running timer expires in absolute
time, and what the client has asked for last. Events of other subscriptions are
one action, `OtherEvent`, during whose callback the client may do anything to
its timers. A restart before the first start leaves a timer with an interval of
zero: the division by it yields zero, as on this processor.

### Thread, ThreadFlags, Record, RecordSpec, PubSub, Broadcast, Timer

* `Thread`: the client (`owner`), the body (`task`) and the scrubber (`spc`) of a
  set of instances. `furi_thread_set_state` is split where it matters, in the
  scrubber: the state is written in `ScrubStop` and the callback read in
  `ScrubNotify`. Clients come in the three styles found in the tree: join and
  free; the same after the state callback has reported `Stopped` (loader, RPC);
  free from the state callback (`lib/toolbox/run_parallel.c`). A client sets its
  callback after it has got the memory (`Configure`), which may be that of a thread
  that another client has joined and freed. `reused` and `astray` are history: the
  memory of the scrubber's thread has been handed out anew between the scrubber's last
  two steps, and it has called a callback that is not that thread's. The properties hold
  up to that moment, and section 7 says what comes after it.
* `ThreadFlags`: FreeRTOS's notification as a value and a pending mark. Every
  `xTaskNotify` sets the mark, also a query; `xTaskNotifyWait` looks at the mark
  only. A setter makes two kernel calls, `furi_thread_flags_clear` two as well.
  History: `due` are flags set and neither received nor given up by the code; `window`
  those set between the two calls of a clear; `passed` those that a wait has seen and
  left in the value, until the next mark.
* `Record`: each section under the mutex is one step; waiting for the ready flag
  and reading the pointer happen outside of it. A handle is one use of a record
  from open to close. `RecordSpec` is what clients may rely on: publish, retract,
  ask, receive, leave.
* `PubSub`: each call takes the mutex and works in steps; the list node of a
  subscription is linked before it is filled in, as in the code. `Broadcast` is what
  clients may rely on, without list and mutex: calls take effect one at a time, a
  message is for those subscribed when its turn comes, each of them gets it once, and
  nobody subscribes or unsubscribes in the meantime. A subscription is in effect when
  its node is linked (`ToSet(list)`), a message on its way while its publisher iterates.
* `Timer`: the daemon of FreeRTOS is modelled from what `timer.c` uses of it: a
  bounded queue of commands, a set of armed timers and one callback at a time.
  An armed timer may expire at any moment.

### Heap, Allocator

`heap` is the list (`next`, from `Start` to `End`), the sizes in the headers, the
set of free blocks and the count of bytes. `pvPortMalloc` and the part of
`vPortFree` behind the suspension of the scheduler are one step each; the mark and
the clearing before the suspension are another one (`Free`, `FreeInsert`). The
nested calls of the trace are part of the step, in the order of the code: a free
counts the outer block, then frees the node of the entry, then inserts the outer
block. `memmgr_heap_disable_thread_trace` frees many nodes while nothing else runs
(`untracing`). The split, the search for the first fit, the iterator of the
insertion and the two merges are operators on a heap, so that they can be nested.
`failed` is the size for which there was no memory (also `malloc(0)`), after which a
`furi_check` ends the program.

`Allocator` is what the callers of `malloc`, `realloc` and `free` may rely on, and
knows neither list nor headers nor dictionaries: `held`, the blocks in use with their
addresses, sizes and owners; `given`, the addresses under way to `free`; `traced`, and
`failed`. It leaves the choice of a block open within what a caller can tell: the block
is large and aligned enough, and apart from all others. Its `Full` says when an
allocation may fail: when no place is left for a block of that size with the padding of
the alignment (or the size is beyond what the heap deals in). `Heap` is
shown to implement it (`Implements`): `held` are the blocks neither free nor on their way
into the free list, so the abstract free happens where the real one inserts the block.

### KeyEvents, Input, KeyPath

`KeyEvents` says what the readers of the input events may rely on: which type of
event may follow which (`Follows`), and that every press comes to its end. `Input`
EXTENDS it and is shown to implement it (`Implements`, fairness included).

The input thread walks over the keys (`at`, `step`); a timer's start and stop are
commands the timer service sees later (`pending`), and an armed timer may expire at
any moment, so that every press may turn out short, long or repeated. Time itself
is left out, but for one assumption: the input thread, whose priority is higher than
that of the timer service, reaches `furi_pubsub_publish` before the timer it has just
started expires. That the timer service calls no callback while it processes a command
holds however late it is: `furi_timer_start` uses `xTimerChangePeriod`, whose period
FreeRTOS counts from the moment at which the command is processed.

A key that is held when the service starts (`Held`) counts as pressed at once: its state
is read from the pin, no Press is published and no timer runs. `last` then is `"Press"`
in `InitEvents`, so that its Short and its Release are in order (section 7).

`KeyPath` EXTENDS `Input` and `ViewDispatcher` and puts them together: a step of the
whole is a step of the input service or one of the GUI and the application, and they
share the GUI's queue (`eventVars`) and nothing else. It has no run of its own (the
product is too large to say more than the runs of its parts) and is there for its
theorems: what each part assumes of the other is what the other does.

### ViewDispatcher

The events of `KeyEvents` on their way: `queue` (the GUI's), `sending` (the event
the GUI hands on with its mutexes held), `appQueue` (the dispatcher's). `app` is
where the application's thread is: in its loop (`loop`), in a callback, where it
may switch views or stop (`callback`), waiting for the mutex of the view port to
turn it (`turn`), in the drain at the end of `view_dispatcher_run` (`drain`), taking
down its views (`exit`), `gone`. Other applications are one view port above or
below this one, and `direct_draw`. `holds` is history: the keys of which a view has
seen the Press only; `ViewsGetRelease` says that one view at most has any, the one that
the Releases go to. The view port maps a key in two steps (`MappedKey`): by the
left-hand setting, `lefty`, in the horizontal orientations, and by its orientation. The
setting is read anew for each event and may change at any time (`HandChange`).
`torn` is history as well: the view port was turned, or the setting changed, while a key
was held or an event was on its way, after which keys are counted whose Release has
another name (section 7). `Jammed` is the state in which the GUI waits for space in
the queue of an application that waits for the GUI's mutex; it ends only with a
restart. `ExitEnds` names both as exceptions.

FreeRTOS itself is external: atomic kernel calls, task notifications, the timer
service and the event group calls from interrupts are modelled from how
`furi/core` uses them.

## 3. Runs

| Run | Asks | Instance |
|---|---|---|
| `loop_served` | no freed item in the list or put back, no lost level or edge, no starvation (liveness) | a message queue together with a semaphore, a mutex, an event flag, a thread and an interrupt handler, all four kinds of subscription; 175 000 states |
| `loop_work` | no flag is lost between branches, bytes that reach the trigger level are noticed, deferred calls after timer requests | a stream buffer with a trigger level, one thread, thread flags, two deferred calls, a timer request, one-time subscriptions; 2.3 million states |
| `loop_once` | (finding) one-time subscriptions | a mutex |
| `looptimer_order` | lists, phase, bounded oversleeping, early and stopped timers, starvation (liveness) | a one-shot and a periodic timer, a tick, other events, intervals 1, 2 and (by a restart) 0; 1.5 million states |
| `thread_life` | memory, checks, joins, joins return | two blocks of memory and clients of all three styles, each block started twice; 93 000 states |
| `flags_waits` | flags kept, timeouts, waits return | two flags, a thread and a handler that set them, waits for one of them and for both, for any and all, with and without clearing; 249 000 states |
| `record_hold` | refinement of `RecordSpec`, opens return | two records, two pointers, three uses; 1 900 states |
| `pubsub_calls` | iteration, silence after unsubscribe, refinement of `Broadcast` (with it the delivery to all), calls return | three threads, three subscriptions; 12 000 states |
| `timer_calls` | freed memory, flushed stops, free returns | two clients with a timer each; 39 000 states |
| `heap_blocks` | blocks disjoint and complete, list complete, bytes counted, nodes owned, refinement of `Allocator` | two threads, traced or not, 24 bytes, requests that fit, do not fit and overflow; 330 000 states |
| `input_keys` | order and end of the events of a key (refinement of `KeyEvents`), fresh counters | two keys, each held or not at the start, three presses, a queue of two; 211 000 states |
| `route_keys` | no Release dropped, views get theirs, the application ends | two keys that a rotation and the left-hand setting exchange, one of them held or not at the start, two views and the loading view, queues of one; 828 000 states |

All passing runs hold. What they show, beyond the property comments in the
modules:

* The protocol of `waiting_list` and `Event` flag is right although the flag and
  the list are separate and either may be behind: `furi_event_loop_sync_flags`
  and the append inside the critical section together keep "list not empty =>
  flag set, or the loop is inside process_waiting_list".
* `Unsubscribe` from any callback, of any item, is safe, including the item
  being processed and a new subscription of the same object.
* Timers survive any order of requests and the wrap-around of the clock, as long
  as an interval and the loop's latency together are shorter than the range of
  the clock.
* An instance of `FuriThread` may be freed or restarted as soon as a join returns,
  except for the one read described in section 7, which is the only way to a failed
  check.
* A wait for thread flags sleeps on a flag that is set in one case only: an earlier wait
  has consumed the mark of that flag, and no call on the flags has come since.
* The nested calls of the heap's trace are safe where they are: after the outer
  block has been taken out of the list, and before it is inserted.
* That the input thread waits for `furi_timer_is_running` to become false is what
  keeps the timer's events in front of Short and Release, and the press counter
  of one press out of the next.
* Every way in which an application can leave `view_dispatcher_run` ends, as long as
  the mapping of the keys does not change under a key, by a rotation or by the left-hand
  setting, and its queue does not fill up while nobody reads it.

### Bounds, and why they are enough

* `Capacity` 1, and 2 for the stream buffer: a level matters to the loop only as
  empty, full or in between; with one place the two changes "becomes nonempty"
  and "becomes full" coincide, with two and a trigger level of 2 they do not.
* Two objects at a time in the runs about the waiting list: starvation and order
  need two items, and items interact only through the list and the flag. `loop_served`
  goes through all kinds of objects in one instance: those in use at a time are in
  one of the sets of `UsedTogether` (the state constraint `Bounded` of `MCEventLoop`).
* One thread besides the loop's, plus a handler where handlers differ. The two
  steps of a call can interleave with the loop and with the loop's own calls. The
  safety of the level protocol for any number of threads is proved.
* `MaxStops` 1 in `EventLoop`: after the first stop the properties about sleeping say
  nothing (section 7, first item); the list, the subscriptions and the free are still
  explored, by `loop_work` (in `loop_served` nobody stops the loop). `MaxPend` 2 allows
  a deferred call to defer another one.
* `DaemonLen` 1: the timer service has room or has not.
* `Modulus` 8 stands for 2^32; the clock starts at 7 so that it wraps around
  during the run, and ends at 9. `MaxLate` 1 is the latency of the loop: the clock
  does not run away from a running timer or the tick by more than that, and no more
  ticks than that pass while the loop is about to block. One is enough to make it
  late, to make it oversleep, and to have an interval, at its boundary, missed. Each
  timer has one interval besides zero, the periodic one the shorter (the state
  constraint `OwnInterval`); the tick has an interval of 1. The theorems hold for any
  latency.
* Thread: the scrubber's queue holds 1 instead of 8 and there are two blocks of memory,
  so that one thread waits while another one's message fills the queue. `MaxStarts` 2
  means a block is reused, by clients of any style in turn, as each chooses its state
  callback only when it has the memory.
* ThreadFlags: `Forever` is larger than the clock ever gets; a timeout of 3 leaves
  room for several notifications that do not help. The waits are those of the tree by
  their kind: for all flags in use (`furi_hal_nfc_event.c:47`), for one of them with a
  timeout (`furi_hal_nfc_event.c:112`), for one without clearing it, and for all of
  several flags at once.
* Timer: a command queue of 2 and two clients, whose free needs two places.
* Heap: `Header` 2 and `Align` 2, a smallest block of 4, requests of 1 and 9 bytes
  that need blocks of 4 and 12:
  a remainder is smaller than, equal to or larger than the smallest block, a block
  has free neighbours on neither, either or both sides, and an address is reused
  while another thread's trace still has it. Two blocks of 12 do not fit into 24, so
  allocations fail in a heap that is empty, fragmented or nearly full. 63 overflows
  `SizeMax`, 0 is refused.
* Input: `DebounceTicks` 2 has a stable low, a stable high and an unstable value; the
  queue of two is full when two keys are pressed at once; the third press shows what
  the first two leave behind. Each key may be held at the start.
* ViewDispatcher: queues of one are always full or empty, which makes everybody wait
  for everybody; two presses are a key held while another one is pressed, or a key
  pressed twice; two changes are the loading view shown and left, or a view switched
  under a key that is covered. The keys exchange their names in the rotated view, and
  so they do for the left hand: the worst that a mapping can do. The rotated view is
  horizontal (`Flipped`), so that both mappings meet. That the setting is off at the
  start (`Hands`) loses nothing, since a change may come first. One key may be held at
  the start; the mappings treat the two alike.
* Deadlock is checked except where the program may stop: in `loop_work` and `loop_once`,
  where a one-time subscription crashes the program; in `heap_blocks`, where a failed
  check ends the program; in `input_keys` and `route_keys`, where no key is pressed any
  more and the application is gone.

Symmetry is not used: the instances are small and most runs check liveness.

### Fairness, and why the code justifies it

* `EventLoop`: weak fairness of the loop's own steps and of finishing a call that
  has begun (the thread is scheduled), strong fairness of returning from a
  callback, which is disabled inside each call the callback makes. Nothing is
  assumed of what clients do.
* `EventLoopTimer`: the same, for the loop and the return of callbacks, and weak
  fairness of time: the loop waits for a number of ticks and not for a moment, and a
  wait that has been computed late ends only if the clock goes on. Other events go
  before timers in the code, and endless ones starve the timers: `ExpiredIsServed` is
  about what happens when they end.
* `Thread`: weak fairness of the scrubber, of starting and of the polling join;
  strong fairness of the message to a queue that may be full, since waiters are
  served in turn. The scrubber runs at nearly the lowest priority: the warning at
  `furi_thread_join` asks for a CPU that is not busy. That a thread's callback
  returns is not assumed.
* `ThreadFlags`: weak fairness of the waiting thread. `Record`: of the open.
* `PubSub`: weak fairness of the holder of the mutex, callbacks included; strong
  fairness of acquiring it.
* `Timer`: callbacks return, the daemon gets to its queue (it reads all of it after
  each expired timer), clients get space in turn.
* `Input`: weak fairness of the input thread and of the GUI that takes events, strong
  fairness of what waits for space in the queue (waiters are served in turn) and of
  the timer service's commands, which come before the next expiry. A user lets go of
  a key in the end.
* `ViewDispatcher`: a key that is held is released in the end (`KeyEvents` promises the
  same), weak fairness of the GUI, strong fairness of the application's thread, which
  may wait for a mutex that others take again and again. Its callbacks return.

## 4. Proofs

Every safety property that a run checks, invariant or action property, is a theorem of
TLAPS, for every value of the constants, the bounds included. The assumptions are those
the modules state about their constants: null identifiers are not members of their sets,
sizes, lengths and capacities are positive, and what is listed with each module below.
Each proof module has one or two inductive invariants, each written as a conjunction of
named parts, and a lemma per part with a step per action. The one property proved in
part is `Implements` of `Input`: its fairness is left to TLC (`Implements` of `Record`,
`PubSub` and `Heap` are proved in whole).

`EventLoopProofs`, assuming that handlers are among the threads and that a mutex has
a capacity of one:

| Theorem | Statement |
|---|---|
| `TypeCorrect` | `Spec => []TypeOK`, hence no primitive exceeds its capacity |
| `NoDanglingItem`, `RenotifyIsSafe` | the two parts of `ItemsAreLive` |
| `ItemsStayLive` | `Spec => []ItemsAreLive` |
| `NoLostWakeUp` | `Spec => []LevelNoticed` |
| `NoLostEdge` | `Spec => []EdgeNoticed` |
| `WorkStaysFlagged` | `Spec => []WorkIsFlagged` |
| `CallsAfterTimers` | `Spec => []PendingAfterTimers` |
| `NoLostThreadFlag` | `Spec => []ThreadFlagNoticed` |

The inductive invariant is `IndInv`, the conjunction of `TypeOK`,
`WaitingIsLive` and

* `CallsOK`: a call under way names an object, a deferred call that runs is still
  in its queue, and an event flag with a late change is known;
* `CurOK`: until its callback unsubscribes it, the current item is the one
  subscribed;
* `LevelKept`: an object that is due is in the list, or somebody is between
  changing it and notifying, or `process_event` will look at its level again;
* `EventFlagKept`: a nonempty list has its flag, or `process_waiting_list` is
  running and will end with `furi_event_loop_sync_flags`.

`LevelNoticed` alone is not inductive: it speaks of `pc = "wait"` only, and what
makes it true there is what holds in between. `LevelKept` is where the third
case, the item being processed, comes in, and `EventFlagKept` is the reason for
`furi_event_loop_sync_flags`.

On top of it, `WorkInv` is inductive relative to `IndInv`: the flags that a branch has
taken are put back before the next wait (`TakenOK`); an edge that is owed is in the
list, announced by the thread that made it, or about to be delivered (`EdgeKept`);
timer requests and deferred calls have their flag, set or taken (`WorkKept`,
`NoPends`); a deferred call carries the number of requests made before it, which are
processed when the `Pending` branch runs (`PendOK`); a thread flag is set, taken or on
its way (`ThreadFlagKept`).

`EventLoopTimerProofs`, assuming that an interval and the latency of the loop together
are shorter than the range of the clock (`ClockAssumption`):

| Theorem | Statement |
|---|---|
| `TypeCorrect` | `Spec => []TypeOK` |
| `ListsStayMatched` | `Spec => []ListsMatchTimers` |
| `ListStaysSorted` | `timer_list` is sorted by absolute deadlines, expired timers in front |
| `StaysInPhase` | `Spec => []PhaseKept` |
| `OversleepIsBounded` | `Spec => []OversleepBounded` |
| `NotEarly` | `Spec => NeverEarly`, an action property |
| `StopIsSilent` | `Spec => StoppedIsSilent`, an action property |

The code has no deadlines: it compares `clock % Modulus` with start values that wrap
around. `Fits` says what the fields of a timer mean, the start value and the interval
being its deadline modulo the clock's range, and the lemmas of the first part compute
from it that the remaining time of the code is the remaining time of the model
(arithmetic of `%` for an arbitrary modulus). The insertion then keeps the list
sorted (`SortedOK`), so that its front decides the wait. The wait is computed from two
readings of the clock and counted from a third moment: `WakeOK` follows it through these
steps, late by the ticks in between (`lag`). And a timer that runs without a request is
one that was asked for (`AskedOK`).

`ThreadProofs`, for any number of blocks, whose clients are of any of the three styles
in turn:

| Theorem | Statement |
|---|---|
| `TypeCorrect` | `Spec => []TypeOK` |
| `NoCheckFails` | `Spec => []ChecksHold` |
| `TouchedStaysAllocated` | `Spec => []TouchedIsAllocated` |
| `JoinedIsOver` | `Spec => JoinedIsFinished`, an action property |
| `FlagStaysKept` | `FlagsSpec => []FlagKept`, of `ThreadFlags` |
| `WaitIsNeverLate` | `FlagsSpec => NeverLate`, an action property |
| `BlockedHasNoFlag` | `FlagsSpec => []BlockedIsUnset`, for waits of any kind |

The invariant relates the state, the kernel task, the local storage and the client of an
instance at each point of a run (`RunOK`), has the scrubber's queue without duplicates
(`ScrubberOK`), and says what a client that was told of the stop may rely on (`ToldOK`).
The second part is about `ThreadFlags`, which is in the same proof module since both are
`thread.c`; it assumes that timeouts do not exceed `FuriWaitForever`, the largest
`uint32_t`. `BlockedHasNoFlag` needs no hypothesis on the waits: the flags on which a
wait may sleep although they are set are those in `passed`, and only those.

`RecordProofs`, assuming that there are finitely many uses:

| Theorem | Statement |
|---|---|
| `TypeCorrect`, `CountersAreRight` | types; `holders_count` is the number of uses (`HoldersCounted`, a part of the invariant that no run lists) |
| `EntryStays`, `PointerStays` | entry and pointer stay valid until the close |
| `NothingLeftBehind` | every entry has data or holders |
| `StorageRefines` | `Spec => Implements`: the storage implements `RecordSpec` |

The inductive invariant adds to these `EntryOK` (the ready flag is set exactly
when there is data, and a name that is not in the dictionary has neither) and
`HandleOK` (where a use is in its open, and what it has received). The counter is
related to a cardinality, so the lemmas `OneMore` and `OneLess` say how the set of
uses grows and shrinks. `StepMaps` maps every step to a step of `RecordSpec` or a
stutter.

`PubSubProofs`:

| Theorem | Statement |
|---|---|
| `TypeCorrect`, `OneInside` | types; one thread at most is inside the mutex |
| `UsedStaysLinked` | `Spec => []UsedIsLinked` |
| `SilentAfterReturn` | `Spec => []SilentAfterUnsubscribe` |
| `DeliveredOnReturn` | `Spec => DeliveredToAll`, an action property |
| `BroadcastRefined` | `Spec => Implements`: PubSub implements `Broadcast` |

`MutexHeld` alone does not help: the proof needs where the node of each call is, by
how far the call has got (`Placed`), and that the callbacks called so far are the
prefix of the list up to the iterator (`Iterating`).

`BroadcastRefined` needs nothing more than that: a publisher past its `Acquire` is the one
whose message is on its way (`DeliveringIs`), a call takes effect when the list changes
or the iteration ends, and what is left of the message is the list without the prefix
(`SeenSets`). No list changes while a message is on its way because both need the mutex.

`TimerProofs`, assuming that each timer has one client:

| Theorem | Statement |
|---|---|
| `TypeCorrect` | `Spec => []TypeOK` |
| `FreedStaysForgotten` | `Spec => []FreedIsForgotten` |
| `FlushedStaysSilent` | `Spec => []FlushedIsSilent` |
| `FlushedIsProcessed` | when the event of a flush is set, none of its client's commands is left |

The argument is the order of the queue: the event of a flush is the last command of
its client (`QueueOK`, `EventOK`), and behind every command that arms a timer that is
switched off there is one that stops it, in the queue or still to be sent (`OffOK`).

`HeapProofs`, for every size of heap, header, alignment, node and request, and any
number of threads:

| Theorem | Statement |
|---|---|
| `TypeCorrect` | `Spec => []TypeOK` |
| `HeapStaysSound` | `Spec => []HeapSound`: blocks tile the heap, the list is ordered and complete, no two free blocks touch |
| `TraceKeepsNodes` | `Spec => []NodesAreOwned` |
| `BytesStayCounted` | `Spec => []BytesCounted`: the count is the sum of the list, headers are aligned |
| `AllFreedIsWhole` | when nothing is in use any more, the heap is one free block of its whole size |
| `HeapRefines` | `Spec => Implements`: the heap implements `Allocator` |

The first part of the proof is about the operators: for a heap that is tiled and
linked, `PrevOf` and `IteratorOf` exist and are unique (a set of numbers has a
smallest element), `Carve` takes a block out and leaves a heap that is tiled and
linked with one more block in use, and `Insert` does the reverse, with one case for
each combination of merges. They are stated for any heap and any set of used blocks,
so that the nested calls of the trace are two applications of them. The second part
is the induction. `HeapSound` and `NodesAreOwned` need each other (a node that is
freed must be a block in use, and a block of a client must not be a node), and
`HeldOK` says that the block a thread is about to free is still a client's and
nobody else's. `AllFreedIsWhole` follows from the invariant without an induction.

`BytesCounted` is about a recursive sum over a set. `SumAdd` shows that it is a sum,
whatever the order in which its recursion picks the elements; the inductions it needs
are each by a counterexample of least cardinality, since the library's induction
theorems cannot be instantiated by the provers at hand. `Counts` then generalizes the
property to a heap in which an outer block is counted and not yet in the list, which
is what the nested free of the trace finds.

`HeapRefines` rests on the induction and maps the steps one by one. That a block was
served as asked follows from what `Carve` does to one block: the wanted size is at
least the request and its header, and an overflow is noticed (`WantedBounds`), which
the mutant of the run, a size that wraps around, shows is needed; the rest is split off
only if it is larger than the smallest block, which bounds the surplus (`Spare`). That
no other block notices is `Carve` and `Insert` leaving the size and the place of every
block in use as they are, whatever is split or merged (`CarveSizes`, and the lemmas named
after what they map: `AllocateMaps`, `FreeMaps`, `FreeInsertMaps`, `EnableMaps`,
`EraseMaps`). That an allocation fails only for
want of room has two halves. The blocks tile the heap, so that a range of addresses that
no block in use touches lies inside free blocks, and inside a single one, because no two
free blocks touch (`Room`); a search that found nothing thus means that there is no such
range. And the code looks at the count of bytes before it searches: the count is the
sum of the list, hence never less than any one block of it (`TotalAtLeast`), and the
shortcut refuses nothing that the search would have found (`FullWhenNone`).

`KeyProofs`, about the way of a key, in three parts:

| Theorem | Statement |
|---|---|
| `TypeCorrect` | `Spec => []TypeOK`, of `ViewDispatcher` |
| `KeysKeepRelease` | `Spec => []KeysOwnRelease` |
| `ViewsKeepRelease` | `Spec => []ViewsGetRelease` |
| `ViewsSeePressOnce` | a view is told of a Press only if it does not hold the key, an action property |
| `EventsInOrder` | `InputSpec` implies the initial condition and the steps of `KeyEvents` |
| `PressStartsFresh` | `InputSpec => []PressIsFresh`, of `Input` |
| `PathImplementsBoth` | `PathSpec` implies the initial conditions and the steps of `Input` and of `ViewDispatcher` |
| `PathKeepsRelease` | `PathSpec => [](KeysOwnRelease /\ ViewsGetRelease)`, of `KeyPath` |

The first part assumes that a rotation and the left-hand mapping exchange keys and merge
none, as the rows of `view_port_input_mapping` (`view_port.c:25`) and
`view_port_left_hand_input_mapping` do (`MappedInjective`); in whatever way the setting
is changed, either no key is on its way or `torn` says so (`HandStep`). Its invariant
says of each of the two queues that behind every Press there is its Release, that a key
that is counted has its Release in front of its next Press, and that Press and Release
alternate (`Closed`, `Opens`, `Alternates`), where the Release may also be with the GUI
or with the user (`DeviceOK`, `AppOK`). The second part is about `Input` and assumes
that there is at least one key. Its invariant `KeyOK` relates, for each key, the
thread's step, the state, the press counter, the timer with its commands under way, and
the last event published; `EventsInOrder` then is the safety part of `Implements`.

The third part puts the two together. `ViewDispatcher` alone takes its events from a
source that does what `KeyEvents` allows, and `Input` alone puts them into a queue that
is read at any time. Keys that are held when the service starts are in both. In
`KeyPath` every event comes from the debounced pins and the timer service and goes to
the GUI. `PathInvariance` shows that both invariants hold of the whole, each step of the
service being a step of the source and each step of the GUI one of the reader, so that
whatever is proved of either part holds of the whole (`PathImplementsBoth`). The events
of a held key may repeat here, which the run of `ViewDispatcher` leaves out (a Repeat
goes the way of the Long before it), and the number of presses is any `MaxEdges`.

Only model-checked is what is out of the prover's reach: liveness (`LevelServed`,
`ExpiredIsServed`, `JoinReturns`, `WaitReturns`, `OpenReturns`, `CallReturns`,
`FreeReturns`, `ExitEnds`, and the fairness of `KeyEvents` in `Implements` of `Input`).
`OnceIsDelivered` is the finding of section 5.

## 5. Findings

| Run | What the code does |
|---|---|
| `loop_once` | `event_loop.c:122`: an item subscribed with `FuriEventLoopEventFlagOnce` is unsubscribed, hence freed, before it becomes the current item, and used afterwards. The heap zeroes freed memory, so the program crashes on a null contract. `event_loop.h:91` promises that the subscription is cancelled upon the first event, and `example_event_loop_mutex.c:20` uses it. |

## 6. Plan

Done, in this order: `EventLoop` with its proofs, `EventLoopTimer`, `Thread`,
`ThreadFlags`, `Record` with `RecordSpec`, `PubSub`, `Timer`, `Heap`, `KeyEvents` and
`Input`, `ViewDispatcher`; then the proofs of all of their safety properties; then
`Allocator` and `Broadcast` with the proofs that `Heap` and `PubSub` implement them, and
`KeyPath` with the proofs about the composition.

Next modules, most important first:

1. `Rpc` (`rpc.c`): sessions, the termination handshake, the stream buffer with its
   thread flags; composed with what `Thread` and `ThreadFlags` promise.
2. `Loader` (`loader.c`): start, lock, deferred starts, the thread state callback
   that becomes a message; composed with what `Thread` promises. Properties: one
   application at a time, the lock is released, nobody waits for a lost message.
3. `Storage` (`storage_external_api.c`, `storage_processing.c`): the request with its
   semaphore, open files, the card that is pulled out.
4. `Expansion` (`expansion.c`, `expansion_worker.c`): the control thread, its queue of
   messages and the worker it joins.
5. A variant of `Timer` whose callbacks call the timer API, and the composition of
   `ViewDispatcher` and `Timer`: an application that waits for the timer service while
   the timer service waits, over the GUI's queue, for the application.

Next theorems: for each new module, its type invariant and its safety properties.
Of the present modules only liveness is left to TLC.

Abstract specifications worth stating next: the clock of an application for
`EventLoopTimer` (alarms at absolute times); what a view may rely on, of which
`ViewsGetRelease` and `ViewsSeePressOnce` are the parts that are proved.

## 7. Where the documentation and the code differ

The modules follow the code. These differences were met on the way; the
properties are worded so as not to claim what the code does not do, and each of
them shows in the module as said here.

* **A stop loses the other flags** (`event_loop.c:232`): the `Stop` branch drops what
  it took, while the lists keep their items. If the loop is run again, an event,
  a timer request or a deferred call from before is announced only with the next
  one. `event_loop.h:78` says a level event "will be generated repeatedly until
  the level becomes zero". (`TakeStop`; hence `stops = 0` in the properties.)
* **A thread flag taken with a deferred call is lost** (`event_loop.c:245`): the `Pending`
  branch does not call `furi_event_loop_restore_flags`, and it is not the last one.
  `event_loop.h:316`: the callback is called "when a flag has been set".
  (`TakePending`; hence the exception in `ThreadFlagNoticed`.)
* **A nested deferred call overtakes timer requests** (`event_loop.c:193`), against
  "when all preceding timer commands are processed" (`event_loop.h:180`).
  (`PendingReturn`; hence `nested` in `PendingAfterTimers`.)
* **A stream buffer announces bytes only from its trigger level on**
  (`stream_buffer.c:84`), against "one or more bytes" (`event_loop.h:68`).
  (`CheckTrigger`, `Due`.)
* **The level of a mutex is the same for both directions** (`mutex.c:152`), so a level
  subscription for `Out` is not served while the mutex is held, against
  `event_loop.h:76`. (`Level`, `Due`.)
* **An event flag set in an interrupt handler is announced before it is set**
  (`event_flag.c:55`). No handler in the tree does it. (`FlagSetFromISR`,
  `LateChange`, `deferred`.)
* **The remaining time of a stopped timer is not zero** (`event_loop_timer.c:205`),
  against `event_loop_timer.h:95`.
* **A restart right after a start restores the interval before it**
  (`event_loop_timer.c:193`), against "the previously set interval"
  (`event_loop_timer.h:77`). (`TimerRestart` copies `interval`, which a queued
  start has not set yet.)
* **Overdue ticks are delivered one after the other** (`event_loop_tick.c:37`), against
  "ticks will be skipped if the event loop is busy" (`event_loop.h:154`).
  (`FireTick`.)
* **The scrubber reads an instance that may be freed** (`thread.c:97`): it writes
  `Stopped`, which lets a join return, and then reads the state callback, against
  "safe to release" (`thread.h:24`). Freed memory is zeroed, so that it finds no
  callback unless the memory has been handed out again. If it has been, to a client
  that has set a state callback of its own, the scrubber calls that one, with
  `Stopped`, for a thread that has not run or is running: `run_parallel` then frees
  its thread, `furi_thread_free` fails its check of the state if it was started,
  and otherwise the client starts memory that is free. The scrubber has
  nearly the lowest priority, so that there is time for it. (`ScrubStop`,
  `ScrubNotify`, `astray`. The properties hold up to that call; without the exception
  TLC finds the failed check in `ChecksHold` in this run.)
* **A loop may oversleep** (`event_loop.c:224`): it computes a number of ticks from two
  readings of the clock and then waits for as many from whenever the wait begins. A
  tick or a thread of higher priority in between makes it late by as much, even if the
  processor is idle when the timer expires. The headers promise no precision.
  (`ReadTimers`, `ReadTick`, `Block`; hence `lag` in `OversleepBounded`.)
* **`furi_thread_flags_clear` may lose other flags** (`thread.c:528`): it reads and
  overwrites in two kernel calls. (`FlagsClear`, `ClearWrite`; hence `window` in
  `FlagKept`, where these flags are given up.)
* **A wait for one flag may sleep although it is set** (`thread.c:581`) if an earlier wait
  for another flag has consumed the pending mark. The tree has both kinds of waits for
  the same flags: `furi_hal_nfc_event_wait_for_specific_irq`
  (`furi_hal_nfc_event.c:112`) waits for the interrupt alone, and an Abort that is set
  meanwhile stays in the value without its mark, so that the next wait for all flags
  (line 47) sleeps on it until some other call sets the mark. (`Notified`,
  `passed`; hence the exception in `BlockedIsUnset` and `WaitReturns`.)
* **`FuriWaitForever` is consumed by notifications that do not help** (`thread.c:613`),
  since the time since the start is subtracted again and again. (`TimeLeft`.)
* **Any thread may destroy a record** (`record.c:106`), against "thread is not owner"
  (`record.h:40`). (`Destroy`.)
* **PubSub is not reentrant** (`pubsub.c:22`): the mutex is a normal one and is held
  during callbacks, against "Threadsafe, Reentrable" (`pubsub.h:36`). A callback
  that calls its own instance waits for itself. (`PubSub` has no such callbacks.)
* **`furi_timer_stop` is not synchronous** (`timer.c:120`), against `timer.h:70`; a flush is
  needed. (`Stop`, `Flush`, `FlushedIsSilent`.)
* **The memory of a thread is always reported as zero** (`memmgr_heap.c:244`): a block
  counts if its `pxNextFreeBlock` is `NULL`, but a block in use holds
  `heapPROTECT_BLOCK_POINTER(NULL)` (`configENABLE_HEAP_PROTECTOR`,
  `targets/f7/inc/FreeRTOSConfig.h:22`). `thread.h:369` and `memmgr_heap.h` promise the
  bytes allocated. (Getters are not modelled.)
* **An entry of the trace outlives its block** when another thread frees it
  (`memmgr_heap.c:280`), until the address comes back to the first thread or its
  trace ends. (`NodesFreed` looks into the dictionary of the thread that frees.)
* **`realloc` copies the new size** from a block that may be smaller (`memmgr.c:28`), and
  `calloc` multiplies without a check (`memmgr.c:36`). (The content of blocks is not
  modelled.)
* **Short comes before Release** (`input.c:154`), against "emitted after
  InputTypeRelease" (`input.h:27`). (`Follows`, `PublishShort`.)
* **A key held when the service starts has a Release without a Press** (`input.c:116`):
  its state is read from the pin, and letting go publishes Short and Release, also after
  minutes, against "done within INPUT_LONG_PRESS interval" (`input.h:27`). The GUI
  discards the Short and counts nothing. (`InputInit`, `InitEvents`, where such a key
  counts as pressed. `KeyEvents` has its reader from the start, while the GUI may
  subscribe later; a Press before that is lost to it in the same way.)
* **Keys pressed under the loading view may reach the next view**
  (`view_dispatcher.c:384`): the queue is emptied only if no key is held. If the view
  was shown in the Short of a key, its Release is still to come, and everything
  behind it is kept. `view_dispatcher.h:206`: "Keys pressed while it is up are
  discarded when you switch away". (`LeavesLoading`.)
* **A rotation may leave a key held** (`view_dispatcher.c:403`): `ongoing_input` is reset,
  but a Press that is still in the queue has the name of the old orientation, and its
  Release that of the new one. The key stays counted, and the drain waits until the
  key that now has its name is pressed, against the comment at line 380 that a key
  "owns a Release". (`Rotate`, `torn`.)
* **So does the left-hand setting** (`view_port.c:72`), which is read anew for each event,
  and nothing resets `ongoing_input` when it changes. The system settings change it
  (`system_settings.c:171`) in the Short of Left or Right
  (`variable_item_list.c:208`), while that key is still counted: its Release comes as the
  opposite key, the view that saw the Press does not see it, and
  when the user leaves the settings the drain waits (`view_dispatcher.c:136`) until the
  key whose name is counted has been released once more. (`HandChange`, `torn`.)
* **The GUI may wait for an application that waits for the GUI**
  (`view_dispatcher.c:279`): with its mutexes held, the GUI waits without a limit for
  space in a queue of 16 that nobody reads in `view_port_set_orientation` or after
  `view_dispatcher_run`. (`Jammed`.)
* **A session of the RPC service is freed while it may still be fed** (`rpc.c:182`), against
  "it's safe" (`rpc.c:166`), and its callback for an empty buffer is read without the
  mutex (`rpc.c:212`), against "no callbacks will be called as soon as session is
  closed" (`rpc.h`). (Not modelled yet.)

## 8. What is not modelled

* In the modelled parts: the recursive mutex; allocation and release of the
  primitives; blocking inside the kernel (a call that waits appears when it
  succeeds); signals, suspend and resume, names, stacks and priorities of threads;
  `furi_timer_pending_callback` and the priority of the timer service; timer
  callbacks that call the timer API; a second create of one record and other calls
  that fail a `furi_check` on their arguments. Of the heap: its statistics, the
  content of blocks, the canary, the other pools (`memmgr_alloc_from_pool`), and the
  tables of buckets of the trace's dictionaries, which M*LIB allocates and enlarges in the
  same heap: an entry, or a thread with its dictionary, is one node. Of the input
  service: sequence numbers, settings, vibration, events of the command line and of
  remote sessions. Of the GUI and the view dispatcher: drawing, custom events and
  ticks as such (they are callbacks that switch views), lockdown, several view ports
  of one application, views that are removed while the loop runs.
* The thread list, the kernel wrappers, checks, log, strings and start-up: without
  state of interest, or sequential.
* The other services: planned above, or clients of the core that are mostly user
  interface.
* Protocol libraries (`lib/subghz`, `lib/nfc`, `lib/lfrfid`, `lib/infrared`,
  `lib/ibutton` and others), the toolbox's parsers and file formats, the hardware
  abstraction, the updater, the applications and all vendored code: signal
  processing, data conversion, hardware, or not this firmware's own logic.

## 9. Running

In this directory, `tlc -config MCEventLoop_served.cfg MCEventLoop` and so on for
each run, and `tlapm M.tla` for each of the proof modules `EventLoopProofs`,
`EventLoopTimerProofs`, `ThreadProofs`, `RecordProofs`, `PubSubProofs`, `TimerProofs`,
`HeapProofs` and `KeyProofs`. From nothing they take between a few seconds
(`RecordProofs`) and a few minutes (`EventLoopProofs`) each.
