--------------------------- MODULE MCLegacyInput ---------------------------
(***************************************************************************)
(* Small instances of LegacyInput: one for both backends, others for one.   *)
(***************************************************************************)
EXTENDS LegacyInput, TLC

CONSTANTS w, s

Symmetry == Permutations({w, s})
=============================================================================
