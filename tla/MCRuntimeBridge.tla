-------------------------- MODULE MCRuntimeBridge --------------------------
(***************************************************************************)
(* Small instances of RuntimeBridge: see the configurations that name it.   *)
(***************************************************************************)
EXTENDS RuntimeBridge, TLC

CONSTANTS c1, c2
=============================================================================
