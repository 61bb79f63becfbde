---------------------------- MODULE MCModLibrary ----------------------------
(* Two builds of one version of a mod, and a copy of the first under another *)
(* name, which has no metadata.                                              *)
EXTENDS ModLibrary

CONSTANTS a, b, copy, mod, other, bytes1, bytes2, c1, c2

MCJar == {a, b, copy}
MCMod == a :> mod @@ b :> mod @@ copy :> other
MCContent == a :> bytes1 @@ b :> bytes2 @@ copy :> bytes1

MCBounds == {
  [autoEmbed |-> TRUE,  calls |-> 1, mods |-> 2, runs |-> 2],
  [autoEmbed |-> FALSE, calls |-> 2, mods |-> 3, runs |-> 0],
  [autoEmbed |-> FALSE, calls |-> 2, mods |-> 2, runs |-> 2]}
=============================================================================
