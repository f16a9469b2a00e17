--------------------------- MODULE MCEventLoopTimer ---------------------------
(***************************************************************************)
(* Instances of EventLoopTimer for TLC.                                    *)
(***************************************************************************)
EXTENDS EventLoopTimer

CONSTANTS a, b

\* Each timer has an interval of its own: the periodic one is the shorter.
OwnInterval ==
    \A t \in Timers : tm[t].next \in {0, IF t \in Periodic THEN 1 ELSE 2}
=============================================================================
