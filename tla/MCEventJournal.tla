--------------------------- MODULE MCEventJournal ---------------------------
(***************************************************************************)
(* Small instances of EventJournal: see the configurations that name it.    *)
(***************************************************************************)
EXTENDS EventJournal
=============================================================================
