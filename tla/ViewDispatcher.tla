---------------------------- MODULE ViewDispatcher ----------------------------
(***************************************************************************)
(* The way of an input event from the input service, of which KeyEvents is *)
(* all that counts here, through the GUI service (gui_input in             *)
(* applications/services/gui/gui.c) and a view port (view_port.c) to the   *)
(* views of an application (view_dispatcher.c), until the application has  *)
(* stopped, waited for the keys that are still held, and taken down its    *)
(* views.                                                                  *)
(*                                                                         *)
(* There is one application with a view port; everything else on the       *)
(* screen is the port "other", whose owner always takes its events.        *)
(***************************************************************************)
EXTENDS KeyEvents, Functions

CONSTANTS
    Views,       \* the views of the application
    Loading,     \* the view of view_dispatcher_show_loading
    NoView,      \* the null pointer
    Rotated,     \* the views with another orientation than the first one
    Turn(_),     \* view_port_input_mapping of that orientation
    Flipped,     \* that orientation is ViewPortOrientationHorizontalFlip
    LeftHand(_), \* view_port_left_hand_input_mapping
    Hands,       \* what FuriHalRtcFlagHandOrient may be at first
    AppQueueLen, \* VIEW_DISPATCHER_QUEUE_LEN
    MaxPresses,  \* bound: keys pressed
    MaxChanges   \* bound: changes of the screen, calls of the application

AllViews == Views \cup {Loading}

ASSUME RouteAssumption ==
    /\ Rotated \subseteq Views /\ Loading \notin Views
    /\ NoView \notin AllViews
    /\ \A k \in Keys : Turn(k) \in Keys
    /\ \A j, k \in Keys : Turn(j) = Turn(k) => j = k
    /\ Flipped \in BOOLEAN /\ Hands \subseteq BOOLEAN
    /\ \A k \in Keys : LeftHand(k) \in Keys
    /\ \A j, k \in Keys : LeftHand(j) = LeftHand(k) => j = k
    /\ AppQueueLen \in Nat \ {0} /\ MaxPresses \in Nat /\ MaxChanges \in Nat

VARIABLES
    presses,    \* how many keys have been pressed
    guiOngoing, \* gui->ongoing_input
    guiPort,    \* gui->ongoing_input_view_port
    sending,    \* the event that the GUI, holding its mutex, hands to the application
    screen,     \* what is over the application, and gui->direct_draw
    port,       \* the application's view port: added, enabled, orientation
    appQueue,   \* view_dispatcher->input_queue
    ongoing,    \* view_dispatcher->ongoing_input
    target,     \* view_dispatcher->ongoing_input_view
    current,    \* view_dispatcher->current_view
    views,      \* view_dispatcher->views
    app,        \* where the application's thread is
    stop,       \* the event loop has been told to stop
    changes,    \* how many changes there have been
    holds,      \* history: the keys of which a view has seen the Press only
    lefty,      \* FuriHalRtcFlagHandOrient
    torn        \* history: the mapping of the keys has changed while one was
                \* on its way

guiVars == <<guiOngoing, guiPort, sending>>
appVars == <<ongoing, target, current, views, app, stop, holds>>
vars == <<eventVars, presses, guiVars, screen, port, appQueue, appVars, changes, torn, lefty>>

Init ==
    /\ InitEvents /\ presses = 0
    /\ guiOngoing = {} /\ guiPort = "none" /\ sending = NoEvent
    /\ screen = [covered |-> FALSE, direct |-> FALSE]
    /\ current \in Views \ Rotated
    /\ port = [added |-> TRUE, enabled |-> TRUE, turned |-> FALSE]
    /\ appQueue = <<>> /\ ongoing = {} /\ target = NoView
    /\ views = Views
    /\ app = "loop" /\ stop = FALSE
    /\ changes = 0
    /\ holds = [v \in AllViews |-> {}]
    /\ lefty \in Hands
    /\ torn = FALSE

-----------------------------------------------------------------------------
\* The GUI service.

\* gui_view_port_find_enabled over the layers.
TopPort == IF port.added /\ port.enabled /\ ~screen.covered THEN "app" ELSE "other"

FirstPress(e, keys) == e.type = "Press" /\ keys \subseteq {e.key}

\* The left-hand mapping comes first, in the horizontal orientations, of which
\* the first one of the application is the plain one.
LeftHanded == lefty /\ (port.turned => Flipped)
Handed(k) == IF LeftHanded THEN LeftHand(k) ELSE k

\* view_port_map_input: the key as the view port maps it.
MappedKey(k) == IF port.turned THEN Turn(Handed(k)) ELSE Handed(k)
Mapped(e) == [e EXCEPT !.key = MappedKey(@)]

Counted(e, keys) ==
    IF e.type = "Press" THEN keys \cup {e.key}
    ELSE IF e.type = "Release" THEN keys \ {e.key} ELSE keys

\* Mutant: the view port that got the Press does not get the Release.
RoutedToTop(e, top, p) == IF top = p THEN p ELSE "none"

\* The view port an event goes to.
Routed(e, top, p) ==
    IF top = p \/ (p # "none" /\ e.type = "Release") THEN p ELSE "none"

\* gui_input.  Events of a key without a Press are discarded.
GuiInput ==
    /\ sending = NoEvent
    /\ queue # <<>>
    /\ queue' = Tail(queue)
    /\ LET e == Head(queue)
           keys == Counted(e, guiOngoing)
           p == IF FirstPress(e, keys) THEN TopPort ELSE guiPort
       IN  /\ guiOngoing' = keys
           /\ IF \/ e.type \notin {"Press", "Release"} /\ e.key \notin keys
                 \/ screen.direct /\ guiPort = "none"
              THEN UNCHANGED <<guiPort, sending>>
              ELSE /\ guiPort' = p
                   /\ sending' = IF Routed(e, TopPort, p) = "app" THEN Mapped(e) ELSE NoEvent
    /\ UNCHANGED <<last, presses, screen, port, appQueue, appVars, changes, torn, lefty>>

\* view_dispatcher_input_callback waits for space, with the mutexes of the GUI
\* and of the view port held.
GuiDeliver ==
    /\ sending # NoEvent
    /\ Len(appQueue) < AppQueueLen
    /\ appQueue' = Append(appQueue, sending)
    /\ sending' = NoEvent
    /\ UNCHANGED <<eventVars, presses, guiOngoing, guiPort, screen, port, appVars, changes,
                   torn, lefty>>

\* Another application covers this one, or takes over the screen.
ScreenChange ==
    /\ sending = NoEvent
    /\ changes < MaxChanges
    /\ changes' = changes + 1
    /\ \/ screen' = [screen EXCEPT !.covered = ~@]
       \/ screen' = [screen EXCEPT !.direct = ~@]
    /\ UNCHANGED <<eventVars, presses, guiVars, port, appQueue, appVars, torn, lefty>>

\* A key is held, or an event of one has not yet been handled.
InFlight == \/ \E k \in Keys : last[k] # "Release"
            \/ queue # <<>> \/ sending # NoEvent \/ appQueue # <<>>

\* hand_orient_changed in the system settings, by this application or another
\* one: no key that is counted as held is given up.
HandChange ==
    /\ changes < MaxChanges
    /\ changes' = changes + 1
    /\ lefty' = ~lefty
    /\ torn' = (torn \/ (InFlight /\ (port.turned => Flipped)))
    /\ UNCHANGED <<eventVars, presses, guiVars, screen, port, appQueue, appVars>>

-----------------------------------------------------------------------------
\* The application.

\* Mutant: the queue is emptied although a key is held.
LeavesLoadingAlways(v) == v # Loading /\ current = Loading

\* The loading view is left, and no key is held.
LeavesLoading(v) == ongoing = {} /\ v # Loading /\ current = Loading

\* The view port has not yet the orientation of the view.
Turns(v) == v # NoView /\ port.turned # (v \in Rotated)

\* view_dispatcher_set_current_view, up to view_port_set_orientation, which
\* takes the mutex of the view port.
SetCurrentView(v) ==
    /\ appQueue' = IF LeavesLoading(v) THEN <<>> ELSE appQueue
    /\ current' = v
    /\ port' = [port EXCEPT !.enabled = v # NoView /\ (@ \/ ~Turns(v))]
    /\ stop' = (stop \/ v = NoView)

\* view_input and the views' own books.
Delivered(v, e) ==
    holds' = [holds EXCEPT ![v] = IF e.type = "Press" THEN @ \cup {e.key}
                                  ELSE IF e.type = "Release" THEN @ \ {e.key} ELSE @]

\* Mutant: the view that was left does not learn of the Release.
NoReleaseBehind(e, t) == FALSE

\* The Release of a key goes to the view that got its Press.
ReleaseBehind(e, t) == t # NoView /\ e.type = "Release"

\* view_dispatcher_run_input_callback and view_dispatcher_handle_input, up to
\* the callback of the view.
HandleInput ==
    /\ app = "loop" /\ ~stop
    /\ appQueue # <<>>
    /\ appQueue' = Tail(appQueue)
    /\ LET e == Head(appQueue)
           keys == Counted(e, ongoing)
           t == IF FirstPress(e, keys) THEN current ELSE target
       IN  /\ ongoing' = keys
           /\ IF e.type \notin {"Press", "Release"} /\ e.key \notin keys
              THEN UNCHANGED <<target, app, holds>>
              ELSE /\ target' = t
                   /\ IF current # NoView /\ t = current
                      THEN Delivered(current, e) /\ app' = "callback"
                      ELSE /\ IF ReleaseBehind(e, t) THEN Delivered(t, e) ELSE UNCHANGED holds
                           /\ UNCHANGED app
    /\ UNCHANGED <<eventVars, presses, guiVars, screen, port, current, views, stop,
                   changes, torn, lefty>>

\* A custom event, a timer, or anything else the loop calls back for.
OtherCallback ==
    /\ app = "loop" /\ ~stop
    /\ changes < MaxChanges
    /\ app' = "callback"
    /\ UNCHANGED <<eventVars, presses, guiVars, screen, port, appQueue, ongoing, target, current,
                   views, stop, holds, changes, torn, lefty>>

\* In a callback, or after one that has left a Back to view_previous:
\* view_dispatcher_switch_to_view and view_dispatcher_show_loading.
Switch(v) ==
    /\ app = "callback"
    /\ changes < MaxChanges
    /\ changes' = changes + 1
    /\ v \in views \cup {Loading, NoView} /\ v # current
    /\ SetCurrentView(v)
    /\ app' = IF Turns(v) THEN "turn" ELSE "callback"
    /\ UNCHANGED <<eventVars, presses, guiVars, screen, ongoing, target, views, holds, torn, lefty>>

\* The rest of it, when the view has another orientation.
Rotate ==
    /\ app = "turn"
    /\ sending = NoEvent
    /\ port' = [port EXCEPT !.enabled = TRUE, !.turned = ~@]
    /\ ongoing' = {}
    /\ torn' = (torn \/ InFlight)
    /\ app' = "callback"
    /\ UNCHANGED <<eventVars, presses, guiVars, screen, appQueue, target, current, views, stop,
                   holds, changes, lefty>>

\* The callback returns.  If it, or the navigation callback after it, stops
\* the dispatcher, Stop has come before.
CallbackReturn ==
    /\ app = "callback"
    /\ app' = "loop"
    /\ UNCHANGED <<eventVars, presses, guiVars, screen, port, appQueue, ongoing, target, current,
                   views, stop, holds, changes, torn, lefty>>

\* view_dispatcher_stop, called by anyone, or FuriSignalExit.
Stop ==
    /\ app \in {"loop", "callback"} /\ ~stop
    /\ stop' = TRUE
    /\ UNCHANGED <<eventVars, presses, guiVars, screen, port, appQueue, ongoing, target, current,
                   views, app, holds, changes, torn, lefty>>

\* furi_event_loop_run returns.
LoopEnds ==
    /\ app = "loop" /\ stop
    /\ app' = "drain"
    /\ UNCHANGED <<eventVars, presses, guiVars, screen, port, appQueue, ongoing, target, current,
                   views, stop, holds, changes, torn, lefty>>

\* The end of view_dispatcher_run: the events of the keys that are held.
Drain ==
    /\ app = "drain"
    /\ \/ /\ ongoing = {}
          /\ app' = "exit"
          /\ UNCHANGED <<appQueue, ongoing>>
       \/ /\ ongoing # {} /\ appQueue # <<>>
          /\ ongoing' = Counted(Head(appQueue), ongoing)
          /\ appQueue' = Tail(appQueue)
          /\ UNCHANGED app
    /\ UNCHANGED <<eventVars, presses, guiVars, screen, port, target, current, views, stop,
                   holds, changes, torn, lefty>>

\* view_dispatcher_remove_view, which takes the GUI's mutex.
RemoveView(v) ==
    /\ app = "exit"
    /\ v \in views
    /\ sending = NoEvent
    /\ views' = views \ {v}
    /\ IF current = v THEN SetCurrentView(NoView)
                      ELSE UNCHANGED <<appQueue, current, port, stop>>
    /\ target' = IF target = v THEN NoView ELSE target
    /\ UNCHANGED <<eventVars, presses, guiVars, screen, ongoing, app, holds, changes, torn, lefty>>

\* view_dispatcher_free: gui_remove_view_port, which takes the GUI's mutex, and
\* the rest of it.
FreeDispatcher ==
    /\ app = "exit"
    /\ views = {}
    /\ sending = NoEvent
    /\ app' = "gone"
    /\ port' = [port EXCEPT !.added = FALSE]
    /\ guiPort' = IF guiPort = "app" THEN "none" ELSE guiPort
    /\ appQueue' = <<>> /\ current' = NoView /\ target' = NoView
    /\ UNCHANGED <<eventVars, presses, guiOngoing, sending, screen, ongoing, views, stop,
                   holds, changes, torn, lefty>>

-----------------------------------------------------------------------------
\* An event of the input service comes into the queue of the GUI.
Arrives(k, type) ==
    /\ Publish(k, type)
    /\ presses' = IF type = "Press" THEN presses + 1 ELSE presses
    /\ UNCHANGED <<guiVars, screen, port, appQueue, appVars, changes, torn, lefty>>

\* The events of a run.  A Repeat would go the way of the Long before it.
Input(k, type) ==
    /\ type # "Repeat" /\ (type = "Press" => presses < MaxPresses)
    /\ Arrives(k, type)

\* The GUI and the application.
RouteNext ==
    \/ GuiInput \/ GuiDeliver \/ ScreenChange \/ HandChange
    \/ HandleInput \/ OtherCallback \/ Rotate \/ CallbackReturn \/ Stop \/ LoopEnds \/ Drain
    \/ \E v \in AllViews \cup {NoView} : Switch(v) \/ RemoveView(v)
    \/ FreeDispatcher

Next == RouteNext \/ \E k \in Keys, type \in Types : Input(k, type)

Spec == Init /\ [][Next]_vars

\* What the application's thread does when it is scheduled: callbacks return,
\* and a mutex that is released again and again is acquired.
AppStep ==
    \/ HandleInput \/ CallbackReturn \/ Rotate \/ LoopEnds \/ Drain \/ FreeDispatcher
    \/ \E v \in Views : RemoveView(v)

\* All threads are scheduled, and a key is released in the end.
Fairness ==
    /\ \A k \in Keys : SF_vars(\E type \in {"Short", "Long", "Release"} : Input(k, type))
    /\ WF_vars(GuiInput \/ GuiDeliver)
    /\ SF_vars(AppStep)

FairSpec == Spec /\ Fairness

-----------------------------------------------------------------------------
\* Properties.

(***************************************************************************)
(* The type invariant.                                                     *)
(***************************************************************************)
TypeOK ==
    /\ queue \in Seq(Event) /\ last \in [Keys -> Types] /\ presses \in Nat
    /\ guiOngoing \subseteq Keys /\ guiPort \in {"none", "app", "other"}
    /\ sending \in Event \cup {NoEvent}
    /\ screen \in [covered: BOOLEAN, direct: BOOLEAN]
    /\ port \in [added: BOOLEAN, enabled: BOOLEAN, turned: BOOLEAN]
    /\ appQueue \in Seq(Event) /\ ongoing \subseteq Keys
    /\ target \in AllViews \cup {NoView} /\ current \in AllViews \cup {NoView}
    /\ views \subseteq Views
    /\ app \in {"loop", "callback", "turn", "drain", "exit", "gone"}
    /\ stop \in BOOLEAN /\ changes \in Nat
    /\ holds \in [AllViews -> SUBSET Keys]
    /\ lefty \in BOOLEAN /\ torn \in BOOLEAN

\* The Release of a key k, as the application will see it, is still to come.
Comes(k) ==
    \/ \E p \in Keys : /\ MappedKey(p) = k
                       /\ \/ last[p] # "Release"
                          \/ [key |-> p, type |-> "Release"] \in Range(queue)
    \/ [key |-> k, type |-> "Release"] \in {sending} \cup Range(appQueue)

(***************************************************************************)
(* Every key the dispatcher counts as held owns a Release that is still on *)
(* its way to it: no switch of views, no other application in front and no *)
(* emptied queue drops it ("a key already counted in ongoing_input owns a  *)
(* Release that the drain at the end of view_dispatcher_run() waits for",  *)
(* view_dispatcher.c).  That does not hold once the mapping of the keys    *)
(* has changed under an event on its way (torn), by a view of another      *)
(* orientation or by the left-hand flag: the Release comes as another key. *)
(***************************************************************************)
KeysOwnRelease == torn \/ app = "gone" \/ \A k \in ongoing : Comes(k)

(***************************************************************************)
(* As long as the event loop runs, a view that has seen the Press of a key *)
(* but not its Release, be it the current one or one that was left while   *)
(* the key was held, will see it: the key is counted, and the view is the  *)
(* one that its Release goes to.  So two views never hold keys at a time.  *)
(* Not so once the mapping has changed under an event on its way (torn).   *)
(***************************************************************************)
ViewsGetRelease ==
    torn \/ app \in {"drain", "exit", "gone"}
         \/ \A v \in AllViews : holds[v] \subseteq ongoing /\ (holds[v] # {} => v = target)

\* The GUI waits for space in the queue of an application that waits for the
\* GUI's mutex.
Jammed == app \in {"turn", "exit"} /\ sending # NoEvent /\ Len(appQueue) = AppQueueLen

(***************************************************************************)
(* An application that has been told to stop gets out of the drain at the  *)
(* end of view_dispatcher_run and takes down its views, unless its queue   *)
(* has filled up when nobody reads it any more (Jammed), or the mapping of *)
(* the keys has changed under an event on its way (torn): the drain then   *)
(* waits for the Release of a key that does not come.                      *)
(***************************************************************************)
ExitEnds == stop ~> (app = "gone" \/ Jammed \/ torn)
=============================================================================
