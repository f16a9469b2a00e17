------------------------------- MODULE MCRecord -------------------------------
(***************************************************************************)
(* Instances of Record for TLC.                                            *)
(***************************************************************************)
EXTENDS Record

CONSTANTS r1, r2, h1, h2, h3, d1, d2
=============================================================================
