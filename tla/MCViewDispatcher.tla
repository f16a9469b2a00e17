--------------------------- MODULE MCViewDispatcher ---------------------------
(***************************************************************************)
(* Instances of ViewDispatcher for TLC.                                    *)
(***************************************************************************)
EXTENDS ViewDispatcher

CONSTANTS up, down, v1, v2

\* The Up and Down of ViewPortOrientationHorizontalFlip, and of the left hand.
MCTurn(k) == IF k = up THEN down ELSE up
=============================================================================
