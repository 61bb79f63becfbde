------------------------ MODULE MCSourcePreparation ------------------------
(* Two classes of a version whose names are replaced after decompilation.    *)
EXTENDS SourcePreparation

CONSTANTS v1, c1, c2

OneVersion == {v1}
TwoClasses == {c1, c2}
OfOne == [c \in TwoClasses |-> v1]
=============================================================================
