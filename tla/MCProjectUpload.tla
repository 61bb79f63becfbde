-------------------------- MODULE MCProjectUpload --------------------------
(* Two runs of the upload script that carry the same environment.           *)
EXTENDS ProjectUpload, TLC

CONSTANTS r1, r2, e1

MCRun == {r1, r2}
MCEnv == {e1}
MCEnvOf == [r \in MCRun |-> e1]
Symmetry == Permutations(MCRun)
=============================================================================
