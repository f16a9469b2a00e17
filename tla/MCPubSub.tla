------------------------------- MODULE MCPubSub -------------------------------
(***************************************************************************)
(* Instances of PubSub for TLC.                                            *)
(***************************************************************************)
EXTENDS PubSub

CONSTANTS t1, t2, t3, s1, s2, s3
=============================================================================
