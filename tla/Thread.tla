-------------------------------- MODULE Thread --------------------------------
(***************************************************************************)
(* The life cycle of a FuriThread (furi/core/thread.c): the client that    *)
(* owns it, the body that runs in it, and the scrubber, which runs in the  *)
(* init thread at nearly the lowest priority and cleans up after it.  All  *)
(* three touch the same instance, whose first member is the kernel's task  *)
(* control block.                                                          *)
(***************************************************************************)
EXTENDS Naturals, Sequences, SequencesExt

CONSTANTS
    Instances,  \* memory blocks for FuriThread instances
    NoInstance, \* the null pointer
    QueueLen,   \* capacity of the scrubber's message queue
    MaxStarts   \* bound: how often an instance is started

(***************************************************************************)
(* How a client releases an instance.                                      *)
(* "join": furi_thread_join, then furi_thread_free or another start.       *)
(* "notified": the same after the state callback has reported Stopped, as  *)
(* the loader and the RPC sessions do.                                     *)
(* "parallel": the state callback frees the instance, as                   *)
(* lib/toolbox/run_parallel.c does.                                        *)
(***************************************************************************)
Styles == {"join", "notified", "parallel"}
States == {"Stopped", "Stopping", "Starting", "Running"}

ASSUME ThreadAssumption ==
    /\ NoInstance \notin Instances
    /\ QueueLen \in Nat \ {0}
    /\ MaxStarts \in Nat

VARIABLES
    live,   \* the instances that are allocated
    style,  \* the state callback, by what it and its client do
    state,  \* FuriThread.state
    task,   \* the kernel's task and where its code is
    tls,    \* the task's local storage points to the instance
    owner,  \* where the client is
    queue,  \* furi_thread_scrub_message_queue
    spc,    \* where the scrubber is ...
    cur,    \* ... and with which instance
    told,   \* the last state the state callback was called with
    starts, \* how often the instance was started
    ret,    \* FuriThread.ret: the run whose callback returned last
    crash,  \* a furi_check has failed
    reused, \* history: the scrubber's instance was freed and allocated anew
            \* between its last two steps
    astray  \* history: the scrubber has called something else than the state
            \* callback of the thread it had scrubbed

clientVars == <<live, style, owner, starts, reused>>
threadVars == <<state, task, tls, told, ret>>
scrubVars == <<queue, spc, cur, astray>>
vars == <<clientVars, threadVars, scrubVars, crash>>

Init ==
    /\ live = {}
    /\ style = [t \in Instances |-> "join"]
    /\ state = [t \in Instances |-> "Stopped"]
    /\ task = [t \in Instances |-> "none"]
    /\ tls = [t \in Instances |-> FALSE]
    /\ owner = [t \in Instances |-> "idle"]
    /\ queue = <<>>
    /\ spc = "get"
    /\ cur = NoInstance
    /\ told = [t \in Instances |-> "Stopped"]
    /\ starts = [t \in Instances |-> 0]
    /\ ret = [t \in Instances |-> 0]
    /\ crash = FALSE
    /\ reused = FALSE
    /\ astray = FALSE

-----------------------------------------------------------------------------
\* furi_thread_set_state: the state is written, then its callback is called.
SetState(t, s) ==
    /\ state' = [state EXCEPT ![t] = s]
    /\ told' = [told EXCEPT ![t] = s]

Check(p) == crash' = (crash \/ ~p)

-----------------------------------------------------------------------------
\* The client.

\* furi_thread_alloc: the heap hands out zeroed memory, without a callback.
Alloc(t) ==
    /\ t \notin live
    /\ live' = live \cup {t}
    /\ style' = [style EXCEPT ![t] = "join"]
    /\ state' = [state EXCEPT ![t] = "Stopped"]
    /\ told' = [told EXCEPT ![t] = "Stopped"]
    /\ tls' = [tls EXCEPT ![t] = FALSE]
    /\ owner' = [owner EXCEPT ![t] = "new"]
    /\ reused' = (reused \/ cur = t)
    /\ UNCHANGED <<task, starts, ret, scrubVars, crash>>

\* furi_thread_set_state_callback, by a client that wants one.
Configure(t, s) ==
    /\ owner[t] = "new"
    /\ Check(state[t] = "Stopped")
    /\ style' = [style EXCEPT ![t] = s]
    /\ owner' = [owner EXCEPT ![t] = "idle"]
    /\ UNCHANGED <<live, starts, reused, threadVars, scrubVars>>

\* furi_thread_start up to the creation of the task.
Start(t) ==
    /\ t \in live
    /\ owner[t] = "idle"
    /\ starts[t] < MaxStarts
    /\ Check(state[t] = "Stopped")
    /\ SetState(t, "Starting")
    /\ starts' = [starts EXCEPT ![t] = @ + 1]
    /\ owner' = [owner EXCEPT ![t] = "start"]
    /\ UNCHANGED <<live, style, reused, task, tls, ret, scrubVars>>

\* xTaskCreateStatic in the instance's memory, with empty local storage.
Create(t) ==
    /\ owner[t] = "start"
    /\ task' = [task EXCEPT ![t] = "created"]
    /\ tls' = [tls EXCEPT ![t] = FALSE]
    /\ owner' = [owner EXCEPT ![t] = "started"]
    /\ UNCHANGED <<live, style, starts, reused, state, told, ret, scrubVars,
                   crash>>

\* furi_thread_join is called, by a client that waits for the callback first
\* if that is its style.
Join(t) ==
    /\ owner[t] = "started"
    /\ \/ style[t] = "join"
       \/ style[t] = "notified" /\ told[t] = "Stopped"
    /\ owner' = [owner EXCEPT ![t] = "join"]
    /\ UNCHANGED <<live, style, starts, reused, threadVars, scrubVars, crash>>

\* Mutant: the thread's own announcement is enough for the join.
JoinReturnEarly(t) ==
    /\ owner[t] = "join"
    /\ state[t] \in {"Stopping", "Stopped"}
    /\ owner' = [owner EXCEPT ![t] = "idle"]
    /\ UNCHANGED <<live, style, starts, reused, threadVars, scrubVars, crash>>

\* The poll in furi_thread_join that finds the thread stopped.
JoinReturn(t) ==
    /\ owner[t] = "join"
    /\ state[t] = "Stopped"
    /\ owner' = [owner EXCEPT ![t] = "idle"]
    /\ UNCHANGED <<live, style, starts, reused, threadVars, scrubVars, crash>>

\* furi_thread_free.
Free(t) ==
    /\ t \in live
    /\ owner[t] = "idle"
    /\ Check(state[t] = "Stopped")
    /\ live' = live \ {t}
    /\ UNCHANGED <<style, owner, starts, reused, threadVars, scrubVars>>

-----------------------------------------------------------------------------
\* furi_thread_body.

\* Up to the call of the thread's callback.
Enter(t) ==
    /\ task[t] = "created"
    /\ Check(~tls[t] /\ state[t] = "Starting")
    /\ tls' = [tls EXCEPT ![t] = TRUE]
    /\ SetState(t, "Running")
    /\ task' = [task EXCEPT ![t] = "callback"]
    /\ UNCHANGED <<clientVars, ret, scrubVars>>

\* Mutant: the thread declares itself stopped.
ReturnStopped(t) ==
    /\ task[t] = "callback"
    /\ Check(state[t] = "Running")
    /\ ret' = [ret EXCEPT ![t] = starts[t]]
    /\ SetState(t, "Stopped")
    /\ task' = [task EXCEPT ![t] = "exit"]
    /\ UNCHANGED <<clientVars, tls, scrubVars>>

\* The callback returns, up to the message to the scrubber.
Return(t) ==
    /\ task[t] = "callback"
    /\ Check(state[t] = "Running")
    /\ ret' = [ret EXCEPT ![t] = starts[t]]
    /\ SetState(t, "Stopping")
    /\ task' = [task EXCEPT ![t] = "exit"]
    /\ UNCHANGED <<clientVars, tls, scrubVars>>

\* Mutant: the message is not waited for when the queue is full.
ExitNoWait(t) ==
    /\ task[t] = "exit"
    /\ queue' = IF Len(queue) < QueueLen THEN Append(queue, t) ELSE queue
    /\ task' = [task EXCEPT ![t] = "suspended"]
    /\ UNCHANGED <<clientVars, state, tls, told, ret, spc, cur, astray, crash>>

\* The message is put into the queue, which may be full for a while; then the
\* thread only waits to be deleted.
Exit(t) ==
    /\ task[t] = "exit"
    /\ Len(queue) < QueueLen
    /\ queue' = Append(queue, t)
    /\ task' = [task EXCEPT ![t] = "suspended"]
    /\ UNCHANGED <<clientVars, state, tls, told, ret, spc, cur, astray, crash>>

-----------------------------------------------------------------------------
\* furi_thread_scrub.

ScrubGet ==
    /\ spc = "get"
    /\ queue # <<>>
    /\ cur' = Head(queue)
    /\ queue' = Tail(queue)
    /\ spc' = "delete"
    /\ UNCHANGED <<clientVars, threadVars, astray, crash>>

\* vTaskDelete and the local storage.
ScrubDelete ==
    /\ spc = "delete"
    /\ task' = [task EXCEPT ![cur] = "none"]
    /\ Check(tls[cur])
    /\ tls' = [tls EXCEPT ![cur] = FALSE]
    /\ spc' = "stop"
    /\ UNCHANGED <<clientVars, state, told, ret, queue, cur, astray>>

\* furi_thread_set_state(Stopped): from here on a join returns ...
ScrubStop ==
    /\ spc = "stop"
    /\ state' = [state EXCEPT ![cur] = "Stopped"]
    /\ spc' = "notify"
    /\ UNCHANGED <<clientVars, task, tls, told, ret, queue, cur, astray, crash>>

\* ... while its callback is still to be read.  If a client has freed the
\* instance by then, its memory is zeroed and holds no callback, or the one of
\* the next client's thread, or it serves another purpose and whatever it holds
\* is called.
ScrubNotify ==
    /\ spc = "notify"
    /\ \/ /\ cur \in live /\ style[cur] # "join"
          /\ told' = [told EXCEPT ![cur] = "Stopped"]
          /\ IF style[cur] = "parallel"
             THEN live' = live \ {cur} /\ Check(state[cur] = "Stopped")
             ELSE UNCHANGED <<live, crash>>
          /\ astray' = (astray \/ reused)
       \/ cur \in live /\ style[cur] = "join" /\ UNCHANGED <<live, told, crash, astray>>
       \/ /\ cur \notin live
          /\ astray' \in {astray, TRUE}
          /\ UNCHANGED <<live, told, crash>>
    /\ spc' = "get"
    /\ cur' = NoInstance
    /\ reused' = FALSE
    /\ UNCHANGED <<style, owner, starts, state, task, tls, ret, queue>>

-----------------------------------------------------------------------------
Scrub == ScrubGet \/ ScrubDelete \/ ScrubStop \/ ScrubNotify
Finish(t) == Create(t) \/ Enter(t) \/ JoinReturn(t)

Next ==
    \/ Scrub
    \/ \E t \in Instances : \/ Alloc(t) \/ (\E s \in Styles : Configure(t, s))
                            \/ Start(t) \/ Join(t) \/ Free(t) \/ Return(t) \/ Exit(t)
                            \/ Finish(t)

Spec == Init /\ [][Next]_vars

(***************************************************************************)
(* Fairness.  Threads that can run are scheduled, the scrubber too: the    *)
(* warning at furi_thread_join asks for a CPU that is not busy.  A thread  *)
(* that waits for space in the scrubber's queue gets it in turn (strong    *)
(* fairness).  That a callback returns is not assumed.                     *)
(***************************************************************************)
FairSpec ==
    /\ Spec
    /\ WF_vars(Scrub)
    /\ \A t \in Instances : WF_vars(Finish(t)) /\ SF_vars(Exit(t))

-----------------------------------------------------------------------------
\* Properties.

(***************************************************************************)
(* The type invariant.                                                     *)
(***************************************************************************)
TypeOK ==
    /\ live \subseteq Instances
    /\ style \in [Instances -> Styles]
    /\ state \in [Instances -> States]
    /\ task \in [Instances -> {"none", "created", "callback", "exit",
                               "suspended"}]
    /\ tls \in [Instances -> BOOLEAN]
    /\ owner \in [Instances -> {"new", "idle", "start", "started", "join"}]
    /\ queue \in Seq(Instances) /\ Len(queue) <= QueueLen
    /\ spc \in {"get", "delete", "stop", "notify"}
    /\ cur \in Instances \cup {NoInstance}
    /\ told \in [Instances -> States]
    /\ starts \in [Instances -> Nat]
    /\ ret \in [Instances -> Nat]
    /\ crash \in BOOLEAN /\ reused \in BOOLEAN /\ astray \in BOOLEAN

(***************************************************************************)
(* The properties below hold up to the moment at which the scrubber calls  *)
(* something else than the callback of the thread it has scrubbed.  The    *)
(* code does not exclude that: between thread.c:96 and :97 a join returns, *)
(* and the memory may be freed and given to somebody else.  A thread of    *)
(* run_parallel is then freed while it runs, and a furi_check fails.       *)
(***************************************************************************)

(***************************************************************************)
(* The memory of an instance outlives everything that refers to it: its    *)
(* kernel task and stack, its message in the scrubber's queue, and the     *)
(* scrubber itself up to the step that announces Stopped; after that step  *)
(* for the clients that wait for the callback.                             *)
(***************************************************************************)
TouchedIsAllocated ==
    ~astray =>
        /\ \A t \in Instances : task[t] # "none" => t \in live
        /\ \A t \in ToSet(queue) : t \in live /\ task[t] = "suspended"
        /\ spc \in {"delete", "stop"} => cur \in live
        /\ spc = "notify" /\ ~reused /\ style[cur] # "join" => cur \in live

(***************************************************************************)
(* None of the furi_check()s on a thread's state and local storage fails,  *)
(* whatever order the client, the thread and the scrubber run in and       *)
(* however often the memory is reused, by this client or another: the late *)
(* callback is the only way to a failure.                                  *)
(***************************************************************************)
ChecksHold == crash => astray

(***************************************************************************)
(* When furi_thread_join returns, the thread's callback of this very run   *)
(* has returned (so furi_thread_get_return_code is its result) and the     *)
(* kernel has forgotten its task.                                          *)
(***************************************************************************)
JoinedIsFinished ==
    [][\A t \in Instances : ~astray /\ owner[t] = "join" /\ owner'[t] = "idle" =>
           ret[t] = starts[t] /\ task[t] = "none"]_vars

(***************************************************************************)
(* A join of a thread whose callback has returned returns, also when the   *)
(* scrubber's queue is full at that moment.                                *)
(***************************************************************************)
JoinReturns ==
    \A t \in Instances :
        owner[t] = "join" /\ ret[t] = starts[t] ~> owner[t] # "join" \/ astray
=============================================================================
