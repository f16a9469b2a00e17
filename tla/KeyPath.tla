-------------------------------- MODULE KeyPath --------------------------------
(***************************************************************************)
(* The whole way of a key, from its pin to the views of an application:    *)
(* the input service (Input) and the GUI service, view port and view       *)
(* dispatcher (ViewDispatcher), which share nothing but the queue of the   *)
(* GUI.  What Input does with a queue that is read at any time, and        *)
(* ViewDispatcher with events of any source that follows KeyEvents, the    *)
(* two do here with each other, and no event is left out.                  *)
(***************************************************************************)
EXTENDS ViewDispatcher, Input

\* What only one of the two sees.
serviceVars == <<pin, edges, threadVars, counter, timerVars>>
routeVars == <<guiVars, screen, port, appQueue, appVars, changes, torn, lefty>>
pathVars == <<eventVars, serviceVars, presses, routeVars>>

PathInit == InputInit /\ Init

\* The thread of the input service, the timer service and the pins.
ServiceStep ==
    /\ ServiceNext
    /\ presses' = IF \E k \in Keys : last[k] # "Press" /\ last'[k] = "Press"
                  THEN presses + 1 ELSE presses
    /\ UNCHANGED routeVars

\* The threads of the GUI and of the application.
RouteStep == RouteNext /\ UNCHANGED serviceVars

PathNext == ServiceStep \/ RouteStep

PathSpec == PathInit /\ [][PathNext]_pathVars
=============================================================================
