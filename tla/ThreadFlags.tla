----------------------------- MODULE ThreadFlags -----------------------------
(***************************************************************************)
(* The thread flags of one thread (furi_thread_flags_* in                  *)
(* furi/core/thread.c), kept in a task notification of FreeRTOS: a value   *)
(* and a mark that a notification is pending.  Other threads and interrupt *)
(* handlers set flags at any time; the thread itself waits for flags,      *)
(* reads them and clears them.                                             *)
(*                                                                         *)
(* The kernel marks a notification as pending on every xTaskNotify call,   *)
(* also on those that only query the value (eNoAction), and                *)
(* xTaskNotifyWait looks at the mark, never at the value.  A wait for other *)
(* flags may so consume the mark of a flag that stays in the value: the    *)
(* history variable passed holds the flags to which that has happened.     *)
(***************************************************************************)
EXTENDS Integers

CONSTANTS
    Bits,      \* the flags in use
    Setters,   \* threads and interrupt handlers that set them
    Waits,     \* the waits of the client: flags, WaitAll, clearing, timeout
    Clears,    \* the arguments of furi_thread_flags_clear
    Forever,   \* FuriWaitForever
    MaxClock   \* bound: the time at which the model's clock stops

WaitArgs == [flags: SUBSET Bits, all: BOOLEAN, clear: BOOLEAN, timeout: Nat]

ASSUME FlagsAssumption ==
    /\ Waits \subseteq WaitArgs /\ \A w \in Waits : w.timeout <= Forever
    /\ Clears \subseteq SUBSET Bits
    /\ Forever \in Nat
    /\ MaxClock \in Nat
    /\ Forever > MaxClock

VARIABLES
    value,   \* the notification value
    pending, \* the notification mark
    query,   \* setters between their two kernel calls
    pc,      \* where the thread is
    arg,     \* the arguments of the wait in progress
    rflags,  \* its accumulated flags
    start,   \* t0
    tout,    \* its remaining timeout
    until,   \* when the kernel's wait times out
    cflags,  \* the value furi_thread_flags_clear has read, and its argument
    clock,   \* xTaskGetTickCount
    due,     \* history: flags set and neither received nor given up yet
    window,  \* history: flags set between the two calls of a clear
    passed,  \* history: flags a notification has left in the value, until
             \* the next mark
    result   \* how the last call ended

callVars == <<arg, rflags, start, tout, until, cflags>>
flagsVars == <<value, pending, query, pc, arg, rflags, start, tout, until, cflags,
               clock, due, window, passed, result>>

NoWait == [flags |-> {}, all |-> FALSE, clear |-> FALSE, timeout |-> 0]
NothingRead == [read |-> {}, clear |-> {}]

FlagsInit ==
    /\ value = {}
    /\ pending = FALSE
    /\ query = {}
    /\ pc = "idle"
    /\ arg = NoWait
    /\ rflags = {}
    /\ start = 0
    /\ tout = 0
    /\ until = 0
    /\ cflags = NothingRead
    /\ clock = 0
    /\ due = {}
    /\ window = {}
    /\ passed = {}
    /\ result = "none"

-----------------------------------------------------------------------------
Tick ==
    /\ clock < MaxClock
    /\ clock' = clock + 1
    /\ UNCHANGED <<value, pending, query, pc, callVars, due, window, passed, result>>

\* Every xTaskNotify call marks the notification as pending.
Mark == pending' = TRUE /\ passed' = {}

\* Mutant: the value is overwritten.
FlagsSetOverwrite(s, f) ==
    /\ s \notin query
    /\ value' = f
    /\ Mark
    /\ query' = query \cup {s}
    /\ due' = due \cup f
    /\ window' = IF pc = "clear" THEN window \cup f ELSE {}
    /\ UNCHANGED <<pc, callVars, clock, result>>

\* furi_thread_flags_set: the flags are set ...
FlagsSet(s, f) ==
    /\ s \notin query
    /\ value' = value \cup f
    /\ Mark
    /\ query' = query \cup {s}
    /\ due' = due \cup f
    /\ window' = IF pc = "clear" THEN window \cup f ELSE {}
    /\ UNCHANGED <<pc, callVars, clock, result>>

\* ... and the value is read back, which notifies the thread once more.
SetQuery(s) ==
    /\ s \in query
    /\ Mark
    /\ query' = query \ {s}
    /\ UNCHANGED <<value, pc, callVars, clock, due, window, result>>

\* furi_thread_flags_get.
FlagsGet ==
    /\ pc = "idle"
    /\ Mark
    /\ UNCHANGED <<value, query, pc, callVars, clock, due, window, result>>

\* furi_thread_flags_clear reads the value ...
FlagsClear(f) ==
    /\ pc = "idle"
    /\ cflags' = [read |-> value, clear |-> f]
    /\ Mark
    /\ pc' = "clear"
    /\ UNCHANGED <<value, query, arg, rflags, start, tout, until, clock, due,
                   window, result>>

\* Mutant: cflags &= flags.
KeptByClearWrong == cflags.read \cap cflags.clear

\* cflags &= ~flags.
KeptByClear == cflags.read \ cflags.clear

\* ... and overwrites it (eSetValueWithOverwrite).  A flag that came between
\* the two calls, and had not been set before, is gone, whether it was to be
\* cleared or not.
ClearWrite ==
    /\ pc = "clear"
    /\ value' = KeptByClear
    /\ due' = due \ (cflags.clear \cup (window \ cflags.read))
    /\ window' = {}
    /\ cflags' = NothingRead
    /\ Mark
    /\ pc' = "idle"
    /\ result' = "none"
    /\ UNCHANGED <<query, arg, rflags, start, tout, until, clock>>

\* furi_thread_flags_wait is called.
FlagsWait(w) ==
    /\ pc = "idle"
    /\ arg' = w
    /\ rflags' = {}
    /\ start' = clock
    /\ tout' = w.timeout
    /\ pc' = "enter"
    /\ UNCHANGED <<value, pending, query, until, cflags, clock, due, window, passed,
                   result>>

\* xTaskNotifyWaitIndexed without a pending notification: the thread blocks.
Block ==
    /\ pc = "enter"
    /\ ~pending
    /\ tout > 0
    /\ until' = clock + tout
    /\ pc' = "blocked"
    /\ UNCHANGED <<value, pending, query, arg, rflags, start, tout, cflags,
                   clock, due, window, passed, result>>

EndWait(r) ==
    /\ pc' = "idle"
    /\ result' = r
    /\ arg' = NoWait
    /\ rflags' = {}
    /\ start' = 0
    /\ tout' = 0
    /\ until' = 0

Satisfied(got) ==
    IF arg.all THEN arg.flags \subseteq got ELSE arg.flags \cap got # {}

\* Mutant: the whole timeout again after a notification that did not help.
TimeLeftFull == tout

\* The rest of the timeout after a notification that did not help.
TimeLeft ==
    LET td == clock - start IN
    IF td > tout THEN 0 ELSE tout - td

\* Mutant: no flag is cleared on the way out.
ClearOnExitNone == {}

\* ulBitsToClearOnExit.
ClearOnExit == IF arg.clear THEN arg.flags ELSE {}

\* rflags after a notification.
Received == (rflags \cap arg.flags) \cup value

\* What a wait for all of its flags has cleared of them and does not report
\* when it fails.
Collected(got) == IF arg.clear THEN arg.flags \cap got ELSE {}

\* xTaskNotifyWaitIndexed returns with a notification: the loop's body.
Notified ==
    /\ pc \in {"enter", "blocked"}
    /\ pending
    /\ pending' = FALSE
    /\ value' = value \ ClearOnExit
    /\ passed' = IF arg.clear THEN value \ arg.flags ELSE value
    /\ \/ /\ Satisfied(Received)
          /\ EndWait("ok")
          /\ due' = IF arg.clear THEN due \ arg.flags ELSE due
       \/ /\ ~Satisfied(Received)
          /\ arg.timeout = 0
          /\ EndWait("resource")
          /\ due' = due \ Collected(Received)
       \/ /\ ~Satisfied(Received)
          /\ arg.timeout # 0
          /\ rflags' = Received
          /\ tout' = TimeLeft
          /\ until' = 0
          /\ pc' = "enter"
          /\ UNCHANGED <<arg, start, due, result>>
    /\ UNCHANGED <<query, cflags, clock, window>>

\* xTaskNotifyWaitIndexed returns without one.
TimedOut ==
    /\ \/ pc = "enter" /\ tout = 0
       \/ pc = "blocked" /\ clock >= until
    /\ ~pending
    /\ EndWait(IF arg.timeout = 0 THEN "resource" ELSE "timeout")
    /\ due' = due \ Collected(rflags)
    /\ UNCHANGED <<value, pending, query, cflags, clock, window, passed>>

-----------------------------------------------------------------------------
WaitStep == Block \/ Notified \/ TimedOut

FlagsNext ==
    \/ Tick
    \/ \E s \in Setters : SetQuery(s) \/ \E f \in SUBSET Bits : FlagsSet(s, f)
    \/ FlagsGet
    \/ \E f \in Clears : FlagsClear(f)
    \/ ClearWrite
    \/ \E w \in Waits : FlagsWait(w)
    \/ WaitStep

FlagsSpec == FlagsInit /\ [][FlagsNext]_flagsVars

(***************************************************************************)
(* A thread with a pending notification is scheduled; the clock advances   *)
(* as it likes.                                                            *)
(***************************************************************************)
FlagsFair == FlagsSpec /\ WF_flagsVars(WaitStep)

-----------------------------------------------------------------------------
\* Properties.

(***************************************************************************)
(* The type invariant.                                                     *)
(***************************************************************************)
FlagsTypeOK ==
    /\ value \subseteq Bits
    /\ pending \in BOOLEAN
    /\ query \subseteq Setters
    /\ pc \in {"idle", "clear", "enter", "blocked"}
    /\ arg \in WaitArgs
    /\ rflags \subseteq Bits
    /\ start \in Nat /\ tout \in 0..Forever /\ until \in Nat /\ clock \in Nat
    /\ cflags \in [read: SUBSET Bits, clear: SUBSET Bits]
    /\ due \subseteq Bits /\ window \subseteq Bits /\ passed \subseteq Bits
    /\ result \in {"none", "ok", "resource", "timeout"}

(***************************************************************************)
(* No flag is lost but those the code names: a flag that was set stays in  *)
(* the notification value, or among the flags the wait in progress has     *)
(* collected, until a wait reports it.  furi_thread_flags_clear drops the  *)
(* flags it is asked to, and of the others only those that were set        *)
(* between its two calls and not before; a failed wait for all of several  *)
(* flags drops those of them it had cleared.                               *)
(***************************************************************************)
FlagKept == due \subseteq value \cup rflags

(***************************************************************************)
(* The notification mark is as good as the value: a thread that is blocked *)
(* for any of some flags, and has no notification pending, has none of     *)
(* them set, but for flags that an earlier wait, for other flags or one    *)
(* that does not clear, has seen and left in the value, no thread having   *)
(* set, read or cleared any flag since.                                    *)
(***************************************************************************)
BlockedIsUnset ==
    pc = "blocked" /\ ~pending /\ ~arg.all => arg.flags \cap value \subseteq passed

(***************************************************************************)
(* The retries of a wait never add up to more than its timeout: what is    *)
(* left of it after a notification that did not help ends by the time the  *)
(* timeout of the whole wait does.                                         *)
(***************************************************************************)
NeverLate ==
    [][Notified /\ pc' = "enter" =>
           tout' = 0 \/ clock + tout' <= start + arg.timeout]_flagsVars

(***************************************************************************)
(* A thread that waits for some flags, one of which has been set, gets     *)
(* away from the wait, unless an earlier wait has seen that flag and left  *)
(* it in the value (passed).                                               *)
(***************************************************************************)
WaitReturns ==
    pc \in {"enter", "blocked"} /\ ~arg.all /\ (due \cap arg.flags) \ passed # {}
        ~> pc = "idle"
=============================================================================
