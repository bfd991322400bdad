--------------------------- MODULE MCProjectFolder ---------------------------
(* Small instances of ProjectFolder. *)
EXTENDS ProjectFolder

CONSTANTS shop, ohmypm, k1, k2

ClientSymmetry == Permutations({k1, k2})
=============================================================================
