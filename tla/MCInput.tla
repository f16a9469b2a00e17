------------------------------- MODULE MCInput -------------------------------
(***************************************************************************)
(* Instances of Input for TLC.                                             *)
(***************************************************************************)
EXTENDS Input

CONSTANTS back, ok

MCKeyOrder == <<back, ok>>
=============================================================================
