---------------------------- MODULE MCBridgeLock ----------------------------
(***************************************************************************)
(* Small instances of BridgeLock: a companion and stdio bridges.            *)
(***************************************************************************)
EXTENDS BridgeLock, TLC

CONSTANTS b1, b2, b3
=============================================================================
