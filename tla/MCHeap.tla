-------------------------------- MODULE MCHeap --------------------------------
(***************************************************************************)
(* Instances of Heap for TLC.                                              *)
(***************************************************************************)
EXTENDS Heap

CONSTANTS t1, t2
=============================================================================
