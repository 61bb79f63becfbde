--------------------------- MODULE ProjectImport ---------------------------
(***************************************************************************)
(* What uploading a Gradle environment promises, whatever the transport     *)
(* does to the calls: an environment appears only when some run handed over *)
(* its whole bundle, it appears whole and stays, and a run reports success  *)
(* only for an environment that is there (ProjectStore.importBuffer of      *)
(* src/src/tools/project.ts, and src/scripts/project-upload.mjs).           *)
(***************************************************************************)
CONSTANTS Run, Env, EnvOf

VARIABLES
  handed,       \* the runs whose bundle has been handed over completely
  published,    \* the environments a reader finds
  reported      \* the runs that reported their environment

importVars == <<handed, published, reported>>

ImportInit == handed = {} /\ published = {} /\ reported = {}

\* The last byte of the bundle arrives.
HandOver(r) == handed' = handed \cup {r} /\ UNCHANGED <<published, reported>>

\* The staged directory is renamed, or the same environment is already there.
Publish(r) ==
  /\ r \in handed
  /\ published' = published \cup {EnvOf[r]}
  /\ UNCHANGED <<handed, reported>>

Report(r) ==
  /\ r \in handed /\ EnvOf[r] \in published
  /\ reported' = reported \cup {r}
  /\ UNCHANGED <<handed, published>>

ImportNext == \E r \in Run : HandOver(r) \/ Publish(r) \/ Report(r)

ImportSpec == ImportInit /\ [][ImportNext]_importVars
=============================================================================
