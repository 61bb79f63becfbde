----------------------------- MODULE MCSdlInput -----------------------------
(***************************************************************************)
(* Small instances of SdlInput: two controls, one more than a queue slot.   *)
(***************************************************************************)
EXTENDS SdlInput, TLC

CONSTANTS w, lmb
=============================================================================
