-------------------------------- MODULE MCTimer --------------------------------
(***************************************************************************)
(* Instances of Timer for TLC.                                             *)
(***************************************************************************)
EXTENDS Timer, TLC

CONSTANTS c1, c2, a, b

AllUsers == (a :> c1) @@ (b :> c2)
MCUser == [t \in Timers |-> AllUsers[t]]
=============================================================================
